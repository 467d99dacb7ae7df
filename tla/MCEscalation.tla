---------------------------- MODULE MCEscalation ----------------------------
(* Small instances of Escalation: policies that mail, the last step whoever *)
(* is on call.                                                              *)
EXTENDS Escalation, TLC

CONSTANTS a1, mail, chat, sms, s1, s2, w1, w2

MailOnly == 1 :> {mail}
MailTwice == 1 :> {mail} @@ 2 :> {}
\* The channels that no step names are alike, and so are the workers; the job of an
\* idle worker, the one value chosen among them, is never read.
Symmetry == Permutations({chat, sms}) \cup Permutations(Workers)
=============================================================================
