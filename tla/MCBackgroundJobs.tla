--------------------------- MODULE MCBackgroundJobs ---------------------------
(* Four submissions over a table of two rows: the table overflows with     *)
(* active jobs, with finished ones and with a mixture, and one restart     *)
(* comes at any moment.                                                    *)
EXTENDS BackgroundJobs
=============================================================================
