------------------------------- MODULE MCPhotos -------------------------------
(***************************************************************************)
(* A small instance of Photos: one upload, whose URL is used any number of *)
(* times, and two submissions that may name it.  It lives one tick and the *)
(* clock leaves ticks in which it has expired.  Two failures let the job   *)
(* fail after a submission did.                                            *)
(***************************************************************************)
EXTENDS Photos

=============================================================================
