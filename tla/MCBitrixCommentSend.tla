------------------------- MODULE MCBitrixCommentSend -------------------------
(***************************************************************************)
(* Small instances of BitrixCommentSend for TLC.                           *)
(***************************************************************************)
EXTENDS BitrixCommentSend, TLC

CONSTANTS c1, c2, t1, t2, s1, s2, h1

\* Every comment may be sent in every version of the text.
AnyText == [c \in Comment |-> Text]

\* Senders run the same code and are told apart by nothing.
SenderSymmetry == Permutations(Sender)
=============================================================================
