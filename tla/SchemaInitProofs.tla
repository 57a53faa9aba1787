--------------------------- MODULE SchemaInitProofs ---------------------------
(***************************************************************************)
(* Proofs about SchemaInit: for any mapped and listed columns, any schema  *)
(* an earlier version left, any number of starts, failures and stops.      *)
(***************************************************************************)
EXTENDS SchemaInit, TLAPS

\* What the connection sees is what is committed, except inside the one
\* transaction of Postgres, the only one that can be aborted.
WorkInv ==
    /\ pc = "down" => work = db
    /\ backend = "sqlite" => work = db
    /\ aborted => backend = "postgres" /\ missed

\* How far a start has come, and what is there by then.
ProgressInv ==
    /\ pc \in {"created", "inspecting", "altering"} => work.others
    /\ pc \in {"creating", "created", "inspecting"} => next = 1
    /\ pc = "altering" => seen \subseteq work.tickets
    /\ pc = "altering" /\ ~missed =>
         \A i \in 1 .. next - 1 : Listed[i] \in work.tickets

\* A database that was empty before the first start has no tickets table or a
\* whole one: nothing is left for an ALTER to do, or to fail.
FreshInv ==
    fresh =>
        /\ db.tickets \in {{}, Mapped} /\ work.tickets \in {{}, Mapped}
        /\ pc \in {"inspecting", "altering"} => work.tickets = Mapped
        /\ pc = "altering" => seen = Mapped
        /\ ~aborted

Inv == TypeOK /\ WorkInv /\ ProgressInv /\ FreshInv /\ ListedColumnsPresent /\ FreshInstallComplete

-----------------------------------------------------------------------------

LEMMA ListedTypes ==
    /\ Len(Listed) \in Nat /\ DOMAIN Listed = 1 .. Len(Listed)
    /\ \A i \in DOMAIN Listed : Listed[i] \in Mapped
  BY SchemaAssumption

LEMMA InvInit == Init => Inv
<1> SUFFICES ASSUME Init PROVE Inv
  OBVIOUS
<1>1. Empty \in Schemas /\ Empty.tickets = {}
  BY DEF Empty, Schemas
<1>2. db \in Schemas
  <2>1. CASE db = Empty
    BY <1>1, <2>1
  <2>2. CASE db \in [tickets : OldShapes, others : BOOLEAN]
    BY <2>2, SchemaAssumption DEF Schemas
  <2> QED
    BY <2>1, <2>2 DEF Init
<1>3. TypeOK
  <2>1. fresh \in BOOLEAN
    BY DEF Init
  <2>2. /\ next \in 1 .. Len(Listed) + 1
        /\ failures \in 0 .. MaxFailures /\ starts \in 0 .. MaxStarts
    BY ListedTypes, SchemaAssumption DEF Init
  <2> QED
    BY <1>2, <2>1, <2>2 DEF Init, TypeOK
<1>4. WorkInv /\ ProgressInv /\ ListedColumnsPresent /\ FreshInstallComplete
  BY DEF Init, WorkInv, ProgressInv, ListedColumnsPresent, FreshInstallComplete
<1>5. FreshInv
  BY <1>1 DEF Init, FreshInv
<1> QED
  BY <1>3, <1>4, <1>5 DEF Inv

\* A statement that only adds to the schema keeps types and WorkInv.
LEMMA ExecutedAdds ==
    ASSUME Inv, NEW schema \in Schemas, work.tickets \subseteq schema.tickets,
           Executed(schema), UNCHANGED <<backend, aborted, missed>>, pc' # "down"
    PROVE  /\ db' \in Schemas /\ work' = schema
           /\ db'.tickets \subseteq work'.tickets
           /\ db' \in {db, schema}
           /\ WorkInv'
<1>1. work' = schema /\ db' = IF backend = "sqlite" THEN schema ELSE db
  BY DEF Executed
<1>2. db \in Schemas /\ db.tickets \subseteq work.tickets
  BY DEF Inv, TypeOK
<1>3. WorkInv'
  BY <1>1 DEF Inv, WorkInv
<1> QED
  BY <1>1, <1>2, <1>3

LEMMA InvNext == Inv /\ [Next]_vars => Inv'
<1> SUFFICES ASSUME Inv, [Next]_vars
             PROVE  Inv'
  OBVIOUS
<1> USE ListedTypes
<1>1. /\ db \in Schemas /\ work \in Schemas /\ db.tickets \subseteq work.tickets
      /\ work.tickets \subseteq Mapped /\ next \in Nat
      /\ MaxFailures \in Nat /\ MaxStarts \in Nat /\ failures \in Nat /\ starts \in Nat
  BY SchemaAssumption DEF Inv, TypeOK, Schemas
<1>2. CASE Begin
  <2>0. next' \in 1 .. Len(Listed) + 1 /\ starts' \in 0 .. MaxStarts
    BY <1>1, <1>2 DEF Begin
  <2>1. TypeOK'
    BY <1>2, <2>0 DEF Begin, Inv, TypeOK
  <2>2. WorkInv' /\ ProgressInv' /\ ListedColumnsPresent' /\ FreshInstallComplete'
    BY <1>2 DEF Begin, Inv, WorkInv, ProgressInv, ListedColumnsPresent, FreshInstallComplete
  <2>3. FreshInv'
    BY <1>2 DEF Begin, Inv, FreshInv
  <2> QED
    BY <2>1, <2>2, <2>3 DEF Inv
<1>3. CASE CreateOthers
  <2> DEFINE schema == [work EXCEPT !.others = TRUE]
  <2>1. schema \in Schemas /\ schema.tickets = work.tickets /\ schema.others
    BY <1>1 DEF Schemas
  <2> HIDE DEF schema
  <2>2. Executed(schema) /\ pc' = "created"
        /\ UNCHANGED <<backend, seen, next, aborted, failures, starts, missed, fresh>>
    BY <1>3 DEF CreateOthers, schema
  <2>3. /\ db' \in Schemas /\ work' = schema /\ db'.tickets \subseteq work'.tickets
        /\ db' \in {db, schema} /\ WorkInv'
    BY <2>1, <2>2, ExecutedAdds
  <2>4. TypeOK'
    BY <2>1, <2>2, <2>3 DEF Inv, TypeOK
  <2>5. ProgressInv' /\ ListedColumnsPresent' /\ FreshInstallComplete'
    BY <1>3, <2>1, <2>2, <2>3 DEF CreateOthers, Inv, ProgressInv, ListedColumnsPresent, FreshInstallComplete
  <2>6. FreshInv'
    BY <2>1, <2>2, <2>3 DEF Inv, FreshInv
  <2> QED
    BY <2>3, <2>4, <2>5, <2>6 DEF Inv
<1>4. CASE CreateTickets
  <2> DEFINE schema == [work EXCEPT !.tickets = Created(work.tickets)]
  <2>1. /\ schema \in Schemas /\ work.tickets \subseteq schema.tickets
        /\ schema.others = work.others
        /\ work.tickets \in {{}, Mapped} => schema.tickets = Mapped
    BY <1>1 DEF Schemas, Created
  <2> HIDE DEF schema
  <2>2. Executed(schema) /\ pc = "created" /\ pc' = "inspecting"
        /\ UNCHANGED <<backend, seen, next, aborted, failures, starts, missed, fresh>>
    BY <1>4 DEF CreateTickets, schema
  <2>3. /\ db' \in Schemas /\ work' = schema /\ db'.tickets \subseteq work'.tickets
        /\ db' \in {db, schema} /\ WorkInv'
    BY <2>1, <2>2, ExecutedAdds
  <2>4. TypeOK'
    BY <2>1, <2>2, <2>3 DEF Inv, TypeOK
  <2>5. ProgressInv' /\ ListedColumnsPresent' /\ FreshInstallComplete'
    BY <2>1, <2>2, <2>3 DEF Inv, ProgressInv, ListedColumnsPresent, FreshInstallComplete
  <2>6. FreshInv'
    BY <2>1, <2>2, <2>3 DEF Inv, FreshInv
  <2> QED
    BY <2>3, <2>4, <2>5, <2>6 DEF Inv
<1>5. ASSUME FailCreate \/ Stop PROVE Inv'
  <2>1. /\ pc' = "down" /\ work' = db
        /\ UNCHANGED <<backend, db, seen, next, aborted, starts, missed, fresh>>
        /\ failures' \in 0 .. MaxFailures
    BY <1>1, <1>5 DEF FailCreate, Stop, Inv, TypeOK
  <2>2. TypeOK'
    BY <1>1, <2>1 DEF Inv, TypeOK
  <2>3. WorkInv' /\ ProgressInv' /\ ListedColumnsPresent' /\ FreshInstallComplete'
    BY <2>1 DEF Inv, WorkInv, ProgressInv, ListedColumnsPresent, FreshInstallComplete
  <2>4. FreshInv'
    BY <2>1 DEF Inv, FreshInv
  <2> QED
    BY <2>2, <2>3, <2>4 DEF Inv
<1>6. CASE Inspect
  <2>1. /\ pc = "inspecting" /\ pc' = "altering" /\ seen' = work.tickets
        /\ UNCHANGED <<backend, db, work, next, aborted, failures, starts, missed, fresh>>
    BY <1>6 DEF Inspect
  <2>2. next = 1
    BY <2>1 DEF Inv, ProgressInv
  <2>3. TypeOK' /\ WorkInv'
    BY <1>1, <2>1 DEF Inv, TypeOK, WorkInv
  <2>4. ProgressInv' /\ ListedColumnsPresent' /\ FreshInstallComplete'
    BY <2>1, <2>2 DEF Inv, ProgressInv, ListedColumnsPresent, FreshInstallComplete
  <2>5. FreshInv'
    BY <2>1 DEF Inv, FreshInv
  <2> QED
    BY <2>3, <2>4, <2>5 DEF Inv
<1>7. CASE Skip
  <2>1. /\ pc = "altering" /\ next \in 1 .. Len(Listed) /\ Listed[next] \in seen
        /\ next' = next + 1
        /\ UNCHANGED <<backend, db, work, pc, seen, aborted, failures, starts, missed, fresh>>
    BY <1>7 DEF Skip
  <2>2. TypeOK' /\ WorkInv'
    BY <1>1, <2>1 DEF Inv, TypeOK, WorkInv
  <2>3. ProgressInv' /\ ListedColumnsPresent' /\ FreshInstallComplete'
    BY <1>1, <2>1 DEF Inv, ProgressInv, ListedColumnsPresent, FreshInstallComplete
  <2>4. FreshInv'
    BY <2>1 DEF Inv, FreshInv
  <2> QED
    BY <2>2, <2>3, <2>4 DEF Inv
<1>8. CASE AddColumn
  <2> DEFINE schema == [work EXCEPT !.tickets = @ \cup {Listed[next]}]
  <2>0. next \in 1 .. Len(Listed) /\ Listed[next] \in Mapped /\ Listed[next] \notin seen
    BY <1>8 DEF AddColumn
  <2>1. /\ schema \in Schemas /\ schema.tickets = work.tickets \cup {Listed[next]}
        /\ schema.others = work.others
    BY <1>1, <2>0 DEF Schemas
  <2> HIDE DEF schema
  <2>2. Executed(schema) /\ pc = "altering" /\ next' = next + 1
        /\ UNCHANGED <<backend, pc, seen, aborted, failures, starts, missed, fresh>>
    BY <1>8 DEF AddColumn, schema
  <2>3. /\ db' \in Schemas /\ work' = schema /\ db'.tickets \subseteq work'.tickets
        /\ db' \in {db, schema} /\ WorkInv'
    BY <2>1, <2>2, ExecutedAdds
  <2>4. TypeOK'
    <3>1. next' \in 1 .. Len(Listed) + 1
      BY <1>1, <2>0, <2>2
    <3>2. work' \in Schemas
      BY <2>1, <2>3
    <3> QED
      BY <2>2, <2>3, <3>1, <3>2 DEF Inv, TypeOK
  <2>5. ProgressInv' /\ ListedColumnsPresent' /\ FreshInstallComplete'
    BY <1>1, <2>0, <2>1, <2>2, <2>3 DEF Inv, ProgressInv, ListedColumnsPresent, FreshInstallComplete
  <2>6. ~fresh
    BY <2>0, <2>2 DEF Inv, FreshInv
  <2> QED
    BY <2>2, <2>3, <2>4, <2>5, <2>6 DEF Inv, FreshInv
<1>9. CASE FailColumn
  <2>1. /\ pc = "altering" /\ next \in 1 .. Len(Listed) /\ Listed[next] \notin seen
        /\ next' = next + 1 /\ missed' = TRUE /\ aborted' = (backend = "postgres")
        /\ UNCHANGED <<backend, db, work, pc, seen, starts, fresh>>
        /\ failures' \in 0 .. MaxFailures
    BY <1>1, <1>9 DEF FailColumn, Inv, TypeOK
  <2>2. TypeOK' /\ WorkInv'
    BY <1>1, <2>1 DEF Inv, TypeOK, WorkInv
  <2>3. ProgressInv' /\ ListedColumnsPresent' /\ FreshInstallComplete'
    BY <2>1 DEF Inv, ProgressInv, ListedColumnsPresent, FreshInstallComplete
  <2>4. ~fresh
    BY <2>1 DEF Inv, FreshInv
  <2> QED
    BY <2>1, <2>2, <2>3, <2>4 DEF Inv, FreshInv
<1>10. CASE Serve
  <2>1. /\ pc = "altering" /\ pc' = "serving" /\ next \notin 1 .. Len(Listed)
        /\ db' = IF aborted THEN db ELSE work
        /\ work' = db'
        /\ UNCHANGED <<backend, seen, next, aborted, failures, starts, missed, fresh>>
    BY <1>10 DEF Serve
  <2>2. next = Len(Listed) + 1
    BY <1>1, <2>1 DEF Inv, TypeOK
  <2>3. TypeOK' /\ WorkInv'
    BY <1>1, <2>1 DEF Inv, TypeOK, WorkInv
  <2>4. ListedColumnsPresent'
    BY <2>1, <2>2 DEF Inv, WorkInv, ProgressInv, ListedColumnsPresent
  <2>5. FreshInstallComplete' /\ FreshInv'
    <3>1. CASE ~fresh
      BY <2>1, <3>1 DEF FreshInstallComplete, FreshInv
    <3>2. CASE fresh
      <4>1. db' = work /\ work.tickets = Mapped /\ work.others /\ ~aborted
        BY <2>1, <3>2 DEF Inv, FreshInv, ProgressInv
      <4>2. work.others = TRUE
        BY <1>1, <4>1 DEF Schemas
      <4>3. work = [tickets |-> Mapped, others |-> TRUE]
        BY <1>1, <4>1, <4>2 DEF Schemas
      <4> QED
        BY <2>1, <4>1, <4>3 DEF FreshInstallComplete, FreshInv
    <3> QED
      BY <3>1, <3>2
  <2>6. ProgressInv'
    BY <2>1 DEF ProgressInv
  <2> QED
    BY <2>3, <2>4, <2>5, <2>6 DEF Inv
<1>11. CASE UNCHANGED vars
  BY <1>11 DEF vars, Inv, TypeOK, WorkInv, ProgressInv, FreshInv, ListedColumnsPresent,
               FreshInstallComplete
<1> QED
  BY <1>2, <1>3, <1>4, <1>5, <1>6, <1>7, <1>8, <1>9, <1>10, <1>11 DEF Next, Step

LEMMA InvHolds == Spec => []Inv
  BY InvInit, InvNext, PTL DEF Spec

\* Types, and the connection of init_db never sees less than what is committed
\* (db.py:init_db).
THEOREM SchemaTypeCorrect == Spec => []TypeOK
<1>1. Inv => TypeOK
  BY DEF Inv
<1> QED
  BY <1>1, InvHolds, PTL

\* db.py l.34-43: whatever earlier versions and interrupted starts left, a start
\* none of whose ALTERs failed serves with every listed column.
THEOREM ListedAlwaysPresent == Spec => []ListedColumnsPresent
<1>1. Inv => ListedColumnsPresent
  BY DEF Inv
<1> QED
  BY <1>1, InvHolds, PTL

\* db.py:init_db with create_all: a database the service created itself is served
\* complete, whatever failed or stopped its first starts.
THEOREM FreshAlwaysComplete == Spec => []FreshInstallComplete
<1>1. Inv => FreshInstallComplete
  BY DEF Inv
<1> QED
  BY <1>1, InvHolds, PTL
=============================================================================
