---------------------------- MODULE AddressBook ----------------------------
(***************************************************************************)
(* The delivery addresses of one customer.  A request that makes an        *)
(* address the default takes the mark from the others first, in a          *)
(* statement of its own, and no transaction holds the two together.  An    *)
(* update saves the whole address it read, its old mark included.          *)
(***************************************************************************)
EXTENDS Naturals

CONSTANTS
  Places,   \* the ids addresses can have
  Callers   \* connections, each serving one request of the customer

VARIABLES
  address,  \* address[p]: "none", or an address that is "plain" or the "default"
  saving,   \* saving[r]: the request of connection r, and how far it came
  crossed   \* history: a default was written over one written since the others were cleared

addressVars == <<address, saving, crossed>>

-----------------------------------------------------------------------------
\* A request: the mark its address has in memory, the row save read, and whether
\* another request wrote a default since this one cleared, or read (history).
Saving(step, p, mark, row, overtaken) ==
  [step |-> step, place |-> p, mark |-> mark, row |-> row, overtaken |-> overtaken]
NoSaving == Saving("idle", "none", "none", "none", FALSE)

Defaults == {p \in Places : address[p] = "default"}

\* Mutant of Cleared: the old default keeps its mark.
NotCleared == address

\* UPDATE addresses SET is_default = false WHERE is_default
Cleared == [p \in Places |-> IF address[p] = "default" THEN "plain" ELSE address[p]]

\* The request of r is at its next step and the mark of p is written.
Wrote(r, p, mark) ==
  /\ address' = [address EXCEPT ![p] = mark]
  /\ crossed' = (crossed \/ (mark = "default" /\ saving[r].overtaken))
  /\ saving' = [s \in Callers |->
       IF s = r THEN NoSaving
       ELSE IF mark = "default" /\ saving[s] # NoSaving
       THEN [saving[s] EXCEPT !.overtaken = TRUE]
       ELSE saving[s]]

-----------------------------------------------------------------------------
\* create: a new default takes the mark from the others; then the row is inserted.
BeginAddress(r, p, asDefault) ==
  /\ saving[r] = NoSaving
  /\ address[p] = "none"
  /\ \A s \in Callers : saving[s].place # p
  /\ \/ asDefault /\ address' = Cleared /\ crossed' = FALSE
     \/ ~asDefault /\ UNCHANGED <<address, crossed>>
  /\ saving' = [saving EXCEPT ![r] =
       Saving("insert", p, IF asDefault THEN "default" ELSE "plain", "none", FALSE)]

InsertAddress(r) ==
  /\ saving[r].step = "insert"
  /\ Wrote(r, saving[r].place, saving[r].mark)

\* update: the address is read, with its mark ...
ReadAddress(r, p, mark) ==
  /\ saving[r] = NoSaving
  /\ address[p] # "none"
  /\ mark \in {address[p], "plain"}
  /\ saving' = [saving EXCEPT ![r] = Saving("save", p, mark, "none", FALSE)]
  /\ UNCHANGED <<address, crossed>>

\* ... or is to become the default: it is read, then the others are cleared ...
ReadForDefault(r, p) ==
  /\ saving[r] = NoSaving
  /\ address[p] # "none"
  /\ saving' = [saving EXCEPT ![r] = Saving("clear", p, "default", "none", FALSE)]
  /\ UNCHANGED <<address, crossed>>

ClearOthers(r) ==
  /\ saving[r].step = "clear"
  /\ address' = Cleared
  /\ crossed' = FALSE
  /\ saving' = [saving EXCEPT ![r].step = "save", ![r].overtaken = FALSE]

\* ... save reads the row again ...
SelectAddress(r) ==
  /\ saving[r].step = "save"
  /\ saving' = [saving EXCEPT ![r].step = "write", ![r].row = address[saving[r].place]]
  /\ UNCHANGED <<address, crossed>>

\* ... and writes the mark when it differs; an address that was gone then is inserted
\* again, one that is gone by now stays so.
UpdateAddress(r) ==
  LET s == saving[r]
  IN  /\ s.step = "write"
      /\ \/ /\ s.mark # s.row
            /\ address[s.place] = "none" <=> s.row = "none"
            /\ Wrote(r, s.place, s.mark)
         \/ /\ s.mark = s.row \/ ((address[s.place] = "none") # (s.row = "none"))
            /\ saving' = [saving EXCEPT ![r] = NoSaving]
            /\ UNCHANGED <<address, crossed>>

RemoveAddress(p) ==
  /\ address[p] # "none"
  /\ address' = [address EXCEPT ![p] = "none"]
  /\ UNCHANGED <<saving, crossed>>

\* The process stops, or the database refuses a statement, before the next one.
LoseRequest(r) ==
  /\ saving[r] # NoSaving
  /\ saving' = [saving EXCEPT ![r] = NoSaving]
  /\ UNCHANGED <<address, crossed>>

-----------------------------------------------------------------------------
AddressInit ==
  /\ address = [p \in Places |-> "none"]
  /\ saving = [r \in Callers |-> NoSaving]
  /\ crossed = FALSE

AddressNext ==
  \/ \E r \in Callers, p \in Places :
       \/ \E asDefault \in BOOLEAN : BeginAddress(r, p, asDefault)
       \/ \E mark \in {"plain", "default"} : ReadAddress(r, p, mark)
       \/ ReadForDefault(r, p)
  \/ \E r \in Callers :
       InsertAddress(r) \/ ClearOthers(r) \/ SelectAddress(r) \/ UpdateAddress(r) \/ LoseRequest(r)
  \/ \E p \in Places : RemoveAddress(p)

AddressSpec == AddressInit /\ [][AddressNext]_addressVars

-----------------------------------------------------------------------------
Marks == {"none", "plain", "default"}

AddressTypeOK ==
  /\ address \in [Places -> Marks]
  /\ saving \in [Callers ->
       [step: {"idle", "insert", "clear", "save", "write"}, place: Places \cup {"none"},
        mark: Marks, row: Marks, overtaken: BOOLEAN]]
  /\ crossed \in BOOLEAN

\* A customer has one default address at most, however requests overlap or break off,
\* until one of them writes a default over another that was written since it cleared
\* the marks, or since it read the mark it saves again; the next request that names a
\* default puts that right.
OneDefault == crossed \/ \A p, q \in Defaults : p = q
=============================================================================
