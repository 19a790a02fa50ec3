------------------------------ MODULE Handoff ------------------------------
(***************************************************************************)
(* What the relay promises, without its uploads, files, cleaners and       *)
(* crashes: the life of a drop point and of each submission in it, as      *)
(* internal/droppoint names their states.  Relay is shown to implement     *)
(* this module; the receiver's client and the sender's page are modelled   *)
(* against it.                                                             *)
(*                                                                         *)
(* A submission is absent (unknown, or still being received), ready, taken *)
(* (acknowledged) or lost (failed).                                        *)
(***************************************************************************)
CONSTANTS DropPoints, SubIds,
          Contents,  \* ciphertexts a submission may carry
          NoContent

Keys == DropPoints \X SubIds

VARIABLES drop,    \* status of each drop point
          sub,     \* stage of each submission
          content  \* ciphertext stored for each submission

handoffVars == <<drop, sub, content>>

Over == {"closed", "expired"}

HandoffTypeOK ==
  /\ drop \in [DropPoints -> {"none", "open", "purged"} \cup Over]
  /\ sub \in [Keys -> {"absent", "ready", "taken", "lost"}]
  /\ content \in [Keys -> Contents \cup {NoContent}]

HandoffInit ==
  /\ drop = [d \in DropPoints |-> "none"]
  /\ sub = [k \in Keys |-> "absent"]
  /\ content = [k \in Keys |-> NoContent]

Open(d) ==
  /\ drop[d] = "none"
  /\ drop' = [drop EXCEPT ![d] = "open"]
  /\ UNCHANGED <<sub, content>>

\* A close ends one drop point, the cleanup expires several in one step.
End(D, how) ==
  /\ \A d \in D : drop[d] = "open"
  /\ drop' = [d \in DropPoints |-> IF d \in D THEN how ELSE drop[d]]
  /\ UNCHANGED <<sub, content>>

\* Mutant of Offer: the id of an acknowledged or failed submission is used again.
OfferAgain(k, c) ==
  /\ drop[k[1]] = "open"
  /\ sub[k] # "ready"
  /\ sub' = [sub EXCEPT ![k] = "ready"]
  /\ content' = [content EXCEPT ![k] = c]
  /\ UNCHANGED drop

\* A commit: only here does a submission get its content, once for all.
Offer(k, c) ==
  /\ drop[k[1]] = "open"
  /\ sub[k] = "absent"
  /\ sub' = [sub EXCEPT ![k] = "ready"]
  /\ content' = [content EXCEPT ![k] = c]
  /\ UNCHANGED drop

\* An acknowledgement authorised before the drop point ended may take effect after.
Take(k) ==
  /\ sub[k] = "ready"
  /\ sub' = [sub EXCEPT ![k] = "taken"]
  /\ UNCHANGED <<drop, content>>

Lose(k) ==
  /\ drop[k[1]] \in Over
  /\ sub[k] = "ready"
  /\ sub' = [sub EXCEPT ![k] = "lost"]
  /\ UNCHANGED <<drop, content>>

Forget(D) ==
  /\ \A d \in D : drop[d] \in Over
  /\ drop' = [d \in DropPoints |-> IF d \in D THEN "purged" ELSE drop[d]]
  /\ sub' = [k \in Keys |-> IF k[1] \in D THEN "absent" ELSE sub[k]]
  /\ content' = [k \in Keys |-> IF k[1] \in D THEN NoContent ELSE content[k]]

HandoffNext ==
  \/ \E d \in DropPoints : Open(d)
  \/ \E D \in SUBSET DropPoints : Forget(D) \/ \E how \in Over : End(D, how)
  \/ \E k \in Keys : Take(k) \/ Lose(k) \/ \E c \in Contents : Offer(k, c)

HandoffSpec == HandoffInit /\ [][HandoffNext]_handoffVars
=============================================================================
