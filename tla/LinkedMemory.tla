---------------------------- MODULE LinkedMemory ---------------------------
(***************************************************************************)
(* What memory and the A extension promise a program of one hart, with no  *)
(* instruction set: a memory of Addresses, at most one linked address, the *)
(* kind and the address of the access the program asks for next, and the   *)
(* reply a conditional write has just reported. A step serves the access   *)
(* asked for before it, as its kind and no other, unless it ends the       *)
(* process. A reservation links its address and writes nothing; a          *)
(* conditional write that reports success is one at the linked address,    *)
(* one that reports failure writes nothing, and either ends the link: one  *)
(* success per reservation. A plain write leaves the link, and no write    *)
(* changes a cell outside its access.                                      *)
(***************************************************************************)

CONSTANTS Addresses,   \* indices of memory
          Values,      \* what a cell can hold
          Empty,       \* its initial value
          Links,       \* every address a program can form
          NoLink,      \* none of them
          Cells(_)     \* the indices an access at an address may write

VARIABLES memory, link, kind, request, reply,
          ended        \* an access has ended the process

Kinds == {"reserve", "conditional", "write", "none"}

LTypeOK ==
  /\ memory \in [Addresses -> Values]
  /\ link \in Links \cup {NoLink}
  /\ kind \in Kinds
  /\ request \in Links
  /\ reply \in {"none", "ok", "failed"}
  /\ ended \in BOOLEAN

LInit ==
  /\ memory = [a \in Addresses |-> Empty]
  /\ link = NoLink
  /\ kind = "none"
  /\ request \in Links
  /\ reply = "none"
  /\ ended = FALSE

\* Only the cells of the access that was asked for may change.
Writes ==
  /\ memory' \in [Addresses -> Values]
  /\ \A a \in Addresses : memory'[a] # memory[a] => a \in Cells(request)

Reserve == kind = "reserve" /\ link' = request /\ reply' = "none" /\ UNCHANGED memory
Succeed == kind = "conditional" /\ link = request /\ Writes /\ link' = NoLink /\ reply' = "ok"
Fail    == kind = "conditional" /\ link' = NoLink /\ reply' = "failed" /\ UNCHANGED memory
Write   == kind = "write" /\ Writes /\ reply' = "none" /\ UNCHANGED link
Other   == kind = "none" /\ reply' = "none" /\ UNCHANGED <<memory, link>>
\* The process dies of the access, whatever its kind, or is dead already.
End     == ended' = TRUE /\ reply' = "none" /\ UNCHANGED <<memory, link>>

LNext ==
  /\ Reserve \/ Succeed \/ Fail \/ Write \/ Other \/ End
  /\ kind' \in Kinds /\ request' \in Links
  /\ ended \/ ended' => End
lvars == <<memory, link, kind, request, reply, ended>>
LSpec == LInit /\ [][LNext]_lvars
=============================================================================
