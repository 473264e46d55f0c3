-------------------------- MODULE ConsentedMailing --------------------------
(***************************************************************************)
(* What a consent-gated mailing promises, seen by the people on the list:  *)
(* a message is put on the wire at most once, and only while the person it *)
(* goes to is on the list.  Joining and leaving are free at any time.      *)
(***************************************************************************)
EXTENDS Naturals

CONSTANTS People,      \* the addresses
          Messages,    \* one per campaign, person and kind
          To           \* the person each message is for

VARIABLES consenting,  \* the people on the list
          copies       \* how often each message was put on the wire

mailingVars == <<consenting, copies>>

MailingInit == /\ consenting = {}
               /\ copies = [m \in Messages |-> 0]

Join(p) == /\ consenting' = consenting \union {p}
           /\ UNCHANGED copies

Leave(p) == /\ consenting' = consenting \ {p}
            /\ UNCHANGED copies

Deliver(m) == /\ To[m] \in consenting
              /\ copies[m] = 0
              /\ copies' = [copies EXCEPT ![m] = 1]
              /\ UNCHANGED consenting

MailingNext == \/ \E p \in People : Join(p) \/ Leave(p)
               \/ \E m \in Messages : Deliver(m)

MailingSpec == MailingInit /\ [][MailingNext]_mailingVars
=============================================================================
