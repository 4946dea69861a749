---------------------------- MODULE MCArchiveJob ----------------------------
(* One user with three tweets, the oldest unreadable; a media of each fate,*)
(* one that is never accepted behind one that is.                          *)
EXTENDS ArchiveJob
CONSTANT u1

MCAuthor == <<u1, u1, u1>>
MCGallery == <<<<"plain">>, <<"plain", "lost">>, <<"plain", "bare", "untyped">>>>
=============================================================================
