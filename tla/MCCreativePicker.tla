--------------------------- MODULE MCCreativePicker ---------------------------
(* One URL that may answer and one the probe refuses, two uploads, two      *)
(* visits, two server actions in the queue.                                 *)
EXTENDS CreativePicker, TLC

CONSTANTS u1, u2, k1, k2

Symmetry == Permutations(Keys)

MCResponses ==
  [status : {200}, mime : {"mp4", "x-mpegURL", "html"}, large : {FALSE}]
    \cup [status : {206}, mime : {"mp4"}, large : {TRUE}]
    \cup [status : {404, 405}, mime : {"mp4"}, large : {FALSE}]
=============================================================================
