----------------------------- MODULE ToolsProofs -----------------------------
(***************************************************************************)
(* Proofs about Stamps and SeatReport: for any trees, sites, customers,    *)
(* download ids and number of stamping runs, dying anywhere; for any       *)
(* machines, terms, tiers, allowances, windows and orders of check-ins.    *)
(***************************************************************************)
EXTENDS Stamps, SeatReport, FiniteSetTheorems, WellFoundedInduction, TLAPS

-----------------------------------------------------------------------------
(* Stamps: types *)

LEMMA IdleIsNoRun == Idle \notin Run
  BY DEF Idle, Run

\* A document that a key has signed as it is.
Sealed(doc) == /\ doc \in Document /\ doc.signature \in Signature
               /\ doc.signature.over = doc.payload

LEMMA SignedIsSealed ==
  ASSUME NEW claims \in Claims, NEW k \in KeyPair, NEW kid \in KeyPair
  PROVE  /\ Sealed(Signed(claims, k, kid))
         /\ Signed(claims, k, kid).payload = claims
         /\ Signed(claims, k, kid).signature.by = k
  BY ClaimsAssumption DEF Sealed, Signed, Document, Signature

LEMMA StampIsSealed ==
  ASSUME NEW run \in Run
  PROVE  /\ Sealed(Stamp(run))
         /\ Stamp(run).payload = [type |-> "stamp", id |-> run.id,
                                  cust |-> IF run.embed THEN run.cust ELSE NoCustomer]
         /\ Stamp(run).signature.by = StampKey
<1>1. [type |-> "stamp", id |-> run.id,
       cust |-> IF run.embed THEN run.cust ELSE NoCustomer] \in Claims
  BY DEF Run, Claims
<1>2. StampKey \in KeyPair
  BY StampAssumption
<1> QED
  BY <1>1, <1>2, SignedIsSealed DEF Stamp

LEMMA DocumentIsFile == \A doc \in Document : doc \in File /\ doc \notin {Absent, Broken}
  BY StampAssumption DEF File

Lines == Row \cup {Broken, Fragment}

LastIsOpen == \A i \in DOMAIN ledger : ~Ended(ledger[i]) => i = Len(ledger)

\* What is invariant of the ledger alone, which only two actions write: its type, and that
\* only the last line can be open.
LedgerTypeOK == ledger \in Seq(Lines) /\ LastIsOpen

StampTypes == StampTypeOK /\ LastIsOpen

LEMMA WrittenTypes ==
  ASSUME LedgerTypeOK, NEW text \in Row \cup {Fragment}, ledger' = Written(text)
  PROVE  LedgerTypeOK'
<1>1. Broken \in Lines /\ Fragment \in Lines /\ text \in Lines
  BY DEF Lines
<1>2. Ended(Broken)
  BY DEF Ended
<1>3. CASE LineIsOpen
  <2> DEFINE n == Len(ledger)
             v == IF Ended(text) THEN Broken ELSE Fragment
  <2>1. ledger \in Seq(Lines) /\ ledger # <<>> /\ n \in DOMAIN ledger /\ DOMAIN ledger = 1 .. n
    BY <1>3 DEF LedgerTypeOK, LastIsOpen, LineIsOpen
  <2>2. ledger' = [ledger EXCEPT ![n] = v]
    BY <1>3 DEF Written
  <2>3. v \in Lines
    BY <1>1
  <2> HIDE DEF v
  <2>4. ledger' \in Seq(Lines) /\ DOMAIN ledger' = DOMAIN ledger /\ Len(ledger') = n
    BY <2>1, <2>2, <2>3
  <2>5. \A i \in DOMAIN ledger' : i # n => ledger'[i] = ledger[i]
    BY <2>1, <2>2
  <2> QED
    BY <2>1, <2>4, <2>5 DEF LedgerTypeOK, LastIsOpen, Ended
<1>4. CASE ~LineIsOpen
  <2>1. ledger' = Append(ledger, text) /\ ledger \in Seq(Lines)
    BY <1>4 DEF Written, LedgerTypeOK, LastIsOpen
  <2>2. /\ ledger' \in Seq(Lines) /\ Len(ledger') = Len(ledger) + 1
        /\ DOMAIN ledger = 1 .. Len(ledger) /\ DOMAIN ledger' = 1 .. Len(ledger) + 1
        /\ \A i \in DOMAIN ledger : ledger'[i] = ledger[i]
        /\ Len(ledger) \in Nat
    BY <2>1, <1>1
  <2>3. \A i \in DOMAIN ledger : Ended(ledger[i])
    <3> SUFFICES ASSUME NEW i \in DOMAIN ledger, ~Ended(ledger[i]) PROVE FALSE
      OBVIOUS
    <3>1. i = Len(ledger) /\ ledger # <<>>
      BY <2>1 DEF LedgerTypeOK, LastIsOpen
    <3> QED
      BY <3>1, <1>4 DEF LineIsOpen
  <2>4. \A i \in DOMAIN ledger' : i # Len(ledger') => i \in DOMAIN ledger
    BY <2>2
  <2> QED
    BY <2>2, <2>3, <2>4 DEF LedgerTypeOK, LastIsOpen, Ended
<1> QED
  BY <1>3, <1>4

LEMMA RowOfType == \A run \in Run, e \in BOOLEAN : RowOf(run, e) \in Row
  BY DEF RowOf, Run, Row

LEMMA StampTypeSplit ==
  StampTypes <=>
    /\ tree \in [Tree -> [Site -> File]] /\ job \in Run \cup {Idle} /\ LedgerTypeOK
    /\ runs \in 0 .. MaxRuns /\ given \subseteq [id : DownloadId, cust : Customer]
    /\ copies \subseteq [run : Run, files : [Site -> File]]
    /\ leak \in [Site -> File] /\ from \subseteq copies
  BY DEF StampTypes, StampTypeOK, LedgerTypeOK, LastIsOpen, Lines

LEMMA StampTypesInit == StampInit => StampTypes
<1> SUFFICES ASSUME StampInit PROVE StampTypes
  OBVIOUS
<1>1. Absent \in File /\ MaxRuns \in Nat
  BY StampAssumption DEF File
<1>2. LedgerTypeOK
  BY DEF StampInit, LedgerTypeOK, LastIsOpen
<1> QED
  BY <1>1, <1>2, StampTypeSplit DEF StampInit

LEMMA StampTypesStep == StampTypes /\ [StampNext]_stampVars => StampTypes'
<1> SUFFICES ASSUME StampTypes, [StampNext]_stampVars PROVE StampTypes'
  OBVIOUS
<1> USE StampTypeSplit
<1>0. /\ Sites \in Nat \ {0} /\ SiteCounts \subseteq 1 .. Sites /\ MaxRuns \in Nat
      /\ Modes \subseteq [embed : BOOLEAN, keep : BOOLEAN]
      /\ {StampKey, LicenceKey, Stranger} \subseteq KeyPair
      /\ Absent \in File /\ Broken \in File
  BY StampAssumption DEF File, Site
<1>a. job # Idle => job \in Run
  OBVIOUS
<1>b. UNCHANGED ledger => LedgerTypeOK'
  BY DEF LedgerTypeOK, LastIsOpen, Ended
<1>c. StampTypes' <=>
        /\ tree' \in [Tree -> [Site -> File]] /\ job' \in Run \cup {Idle} /\ LedgerTypeOK'
        /\ runs' \in 0 .. MaxRuns /\ given' \subseteq [id : DownloadId, cust : Customer]
        /\ copies' \subseteq [run : Run, files : [Site -> File]]
        /\ leak' \in [Site -> File] /\ from' \subseteq copies'
  BY DEF StampTypes, StampTypeOK, LedgerTypeOK, LastIsOpen, Lines
<1> HIDE StampTypeSplit
<1>d. /\ tree \in [Tree -> [Site -> File]] /\ job \in Run \cup {Idle} /\ LedgerTypeOK
      /\ runs \in 0 .. MaxRuns /\ given \subseteq [id : DownloadId, cust : Customer]
      /\ copies \subseteq [run : Run, files : [Site -> File]]
      /\ leak \in [Site -> File] /\ from \subseteq copies
  BY StampTypeSplit
<1>1. ASSUME NEW t \in Tree, NEW id \in DownloadId, NEW cust \in Customer, NEW mode \in Modes,
             NEW n \in SiteCounts, Begin(t, id, cust, mode, n)
      PROVE StampTypes'
  <2>1. job' \in Run
    BY <1>0, <1>1 DEF Begin, Run
  <2>2. runs' \in 0 .. MaxRuns /\ given' \subseteq [id : DownloadId, cust : Customer]
    BY <1>0, <1>d, <1>1 DEF Begin
  <2> QED
    BY <1>1, <1>b, <1>c, <1>d, <2>1, <2>2 DEF Begin, leakVars
<1>2. ASSUME WriteSite PROVE StampTypes'
  <2>1. job \in Run /\ job.next \in Site
    BY <1>0, <1>2, <1>a DEF WriteSite, Writing, Run, Site
  <2>2. Stamp(job) \in File
    BY <2>1, StampIsSealed, DocumentIsFile DEF Sealed
  <2>3. job' \in Run
    BY <1>0, <1>2, <2>1 DEF WriteSite, Writing, Run, Site
  <2>4. tree' \in [Tree -> [Site -> File]]
    BY <1>2, <1>d, <2>1, <2>2 DEF WriteSite, Run
  <2> QED
    BY <1>2, <1>b, <1>c, <1>d, <2>3, <2>4 DEF WriteSite, leakVars
<1>3. ASSUME AppendLedger PROVE StampTypes'
  <2>1. job \in Run /\ job.next + 1 \in 1 .. Sites + 2
    BY <1>0, <1>3, <1>a DEF AppendLedger, Appending, Run
  <2>2. job' \in Run
    BY <1>3, <2>1 DEF AppendLedger, Run, LineIsOpen
  <2>3. LedgerTypeOK'
    BY <1>3, <1>d, <2>1, RowOfType, WrittenTypes DEF AppendLedger
  <2> QED
    BY <1>3, <1>c, <1>d, <2>2, <2>3 DEF AppendLedger, leakVars
<1>4. ASSUME Ship PROVE StampTypes'
  <2>1. job \in Run /\ tree[job.tree] \in [Site -> File]
    BY <1>4, <1>a, <1>d DEF Ship, Done, Run
  <2> QED
    BY <1>4, <1>b, <1>c, <1>d, <2>1 DEF Ship, leakVars
<1>5. ASSUME Die PROVE StampTypes'
  <2>1. job \in Run
    BY <1>5, <1>a DEF Die
  <2>2. tree' \in [Tree -> [Site -> File]]
    <3>1. CASE UNCHANGED tree
      BY <3>1, <1>d
    <3>2. CASE /\ Writing
               /\ tree' = [tree EXCEPT ![job.tree][job.next] = Broken]
      <4>1. job.next \in Site /\ job.tree \in Tree
        BY <3>2, <1>0, <2>1 DEF Run, Writing, Site
      <4> QED
        BY <3>2, <4>1, <1>0, <1>d
    <3> QED
      BY <1>5, <3>1, <3>2 DEF Die
  <2>3. LedgerTypeOK'
    <3>1. CASE UNCHANGED ledger
      BY <3>1, <1>b
    <3>2. CASE \E text \in {Fragment, RowOf(job, FALSE)} : ledger' = Written(text)
      BY <3>2, <1>d, <2>1, RowOfType, WrittenTypes
    <3> QED
      BY <1>5, <3>1, <3>2 DEF Die
  <2> QED
    BY <1>5, <1>c, <1>d, <2>2, <2>3 DEF Die, leakVars
<1>6. ASSUME NEW t \in Tree, Unpack(t) PROVE StampTypes'
  BY <1>6, <1>0, <1>b, <1>c, <1>d DEF Unpack, leakVars
<1>7. ASSUME NEW s \in Site, NEW file \in File, Leaked(s, file), from' \subseteq copies
      PROVE StampTypes'
  BY <1>7, <1>b, <1>c, <1>d DEF Leaked
<1>8. ASSUME NEW s \in Site, NEW copy \in copies, Publish(copy, s) PROVE StampTypes'
  BY <1>8, <1>7, <1>d DEF Publish
<1>9. ASSUME NEW s \in Site, Strip(s) PROVE StampTypes'
  BY <1>9, <1>7, <1>0, <1>d DEF Strip
<1>10. ASSUME NEW s \in Site, NEW cust \in Customer \cup {NoCustomer}, Alter(s, cust)
       PROVE StampTypes'
  <2> DEFINE doc == [leak[s] EXCEPT !.payload.cust = cust]
  <2>1. leak[s] \in Document /\ leak[s].payload \in Claims
    BY <1>10, <1>d, ClaimsAssumption DEF Alter, File, Document
  <2>2. [leak[s].payload EXCEPT !.cust = cust] \in Claims
    BY <2>1 DEF Claims
  <2>3. doc \in Document
    BY <2>1, <2>2, ClaimsAssumption DEF Document
  <2>4. Leaked(s, doc) /\ from' \subseteq copies
    BY <1>10, <1>d DEF Alter
  <2> QED
    BY <2>3, <2>4, <1>7, DocumentIsFile
<1>11. ASSUME NEW s \in Site, NEW id \in DownloadId, NEW cust \in Customer, Forge(s, id, cust)
       PROVE StampTypes'
  <2>1. [type |-> "stamp", id |-> id, cust |-> cust] \in Claims
    BY DEF Claims
  <2>2. Signed([type |-> "stamp", id |-> id, cust |-> cust], Stranger, StampKey) \in File
    BY <2>1, <1>0, SignedIsSealed, DocumentIsFile DEF Sealed
  <2> QED
    BY <1>11, <2>2, <1>7, <1>d DEF Forge
<1>12. ASSUME NEW s \in Site, NEW cust \in Customer, Activate(s, cust) PROVE StampTypes'
  <2>1. [type |-> "license", id |-> cust, cust |-> cust] \in Claims
    BY DEF Claims
  <2>2. Signed([type |-> "license", id |-> cust, cust |-> cust], LicenceKey, LicenceKey) \in File
    BY <2>1, <1>0, SignedIsSealed, DocumentIsFile DEF Sealed
  <2> QED
    BY <1>12, <2>2, <1>7, <1>d DEF Activate
<1>13. CASE UNCHANGED stampVars
  BY <1>13, <1>b, <1>c, <1>d DEF stampVars
<1> QED
  BY <1>1, <1>2, <1>3, <1>4, <1>5, <1>6, <1>8, <1>9, <1>10, <1>11, <1>12, <1>13 DEF StampNext

LEMMA StampTypesAlways == StampSpec => []StampTypes
  BY StampTypesInit, StampTypesStep, PTL DEF StampSpec

\* Types, however runs die and whatever is leaked: each readable row has a customer.
THEOREM StampTypeCorrect == StampSpec => []StampTypeOK
  BY StampTypesAlways, PTL DEF StampTypes

-----------------------------------------------------------------------------
(* Stamps: the ledger only grows, except in its last, open line *)

LEMMA WrittenSays ==
  ASSUME LedgerTypeOK, NEW text \in Row \cup {Fragment}, ledger' = Written(text)
  PROVE  /\ \A i \in DOMAIN ledger : Ended(ledger[i]) =>
              i \in DOMAIN ledger' /\ ledger'[i] = ledger[i]
         /\ \A i \in DOMAIN ledger' : \/ ledger'[i] \in {Broken, Fragment, text}
                                      \/ i \in DOMAIN ledger /\ ledger'[i] = ledger[i]
         /\ ~LineIsOpen => \E i \in DOMAIN ledger' : ledger'[i] = text
<1>1. ledger \in Seq(Lines)
  BY DEF LedgerTypeOK, LastIsOpen
<1>2. CASE LineIsOpen
  <2> DEFINE n == Len(ledger)
             v == IF Ended(text) THEN Broken ELSE Fragment
  <2>1. n \in DOMAIN ledger /\ ~Ended(ledger[n])
    BY <1>1, <1>2 DEF LineIsOpen
  <2>2. ledger' = [ledger EXCEPT ![n] = v]
    BY <1>2 DEF Written
  <2>3. /\ DOMAIN ledger' = DOMAIN ledger /\ ledger'[n] = v
        /\ \A i \in DOMAIN ledger : i # n => ledger'[i] = ledger[i]
    BY <1>1, <2>1, <2>2
  <2> QED
    BY <1>2, <2>1, <2>3
<1>3. CASE ~LineIsOpen
  <2>1. ledger' = Append(ledger, text)
    BY <1>3 DEF Written
  <2>2. text \in Lines
    BY DEF Lines
  <2>3. /\ Len(ledger) \in Nat
        /\ DOMAIN ledger = 1 .. Len(ledger) /\ DOMAIN ledger' = 1 .. Len(ledger) + 1
        /\ \A i \in DOMAIN ledger : ledger'[i] = ledger[i]
        /\ ledger'[Len(ledger) + 1] = text
    BY <1>1, <2>1, <2>2
  <2>4. \A i \in DOMAIN ledger' : i = Len(ledger) + 1 \/ i \in DOMAIN ledger
    BY <2>3
  <2> QED
    BY <2>3, <2>4
<1> QED
  BY <1>2, <1>3

\* The ledger has a whole row of this download id.
RowKept(id) == \E i \in Rows(id) : ledger[i].ended

LEMMA RowIsNoMark == \A row \in Row : row \notin {Broken, Fragment}
  BY StampAssumption DEF Row

LEMMA RowsAreRows ==
  ASSUME StampTypes, NEW i \in DOMAIN ledger, ledger[i] \notin {Broken, Fragment}
  PROVE  ledger[i] \in Row
<1>1. ledger \in Seq(Lines)
  BY StampTypeSplit DEF LedgerTypeOK, LastIsOpen
<1> QED
  BY <1>1 DEF Lines

\* What can happen to the ledger in a step.
LEMMA LedgerSteps ==
  ASSUME StampTypes, [StampNext]_stampVars
  PROVE  \/ UNCHANGED ledger
         \/ /\ job # Idle
            /\ \E e \in BOOLEAN : ledger' = Written(RowOf(job, e))
            /\ UNCHANGED given
         \/ ledger' = Written(Fragment) /\ UNCHANGED given
  BY DEF StampNext, stampVars, Begin, WriteSite, AppendLedger, Appending, Ship, Die, Unpack,
         Publish, Strip, Alter, Forge, Activate, Leaked

LEMMA RowsStay ==
  ASSUME StampTypes, [StampNext]_stampVars, NEW id, RowKept(id)
  PROVE  RowKept(id)'
<1>1. LedgerTypeOK /\ job \in Run \cup {Idle}
  BY StampTypeSplit
<1>2. PICK i \in DOMAIN ledger : /\ ledger[i] \notin {Broken, Fragment} /\ ledger[i].id = id
                                 /\ ledger[i].ended
  BY DEF RowKept, Rows
<1>3. Ended(ledger[i])
  BY <1>2 DEF Ended
<1>4. i \in DOMAIN ledger' /\ ledger'[i] = ledger[i]
  <2>1. CASE UNCHANGED ledger
    BY <1>2, <2>1
  <2>2. CASE job # Idle /\ \E e \in BOOLEAN : ledger' = Written(RowOf(job, e))
    <3>1. PICK text \in Row \cup {Fragment} : ledger' = Written(text)
      BY <2>2, <1>1, RowOfType
    <3> QED
      BY <3>1, <1>1, <1>2, <1>3, WrittenSays
  <2>3. CASE ledger' = Written(Fragment)
    BY <2>3, <1>1, <1>2, <1>3, WrittenSays
  <2> QED
    BY <2>1, <2>2, <2>3, LedgerSteps
<1> QED
  BY <1>2, <1>4 DEF RowKept, Rows

\* A download id that the ledger resolves from a whole row stays resolved.
THEOREM ResolvedStaysResolved == StampSpec => ResolvedForGood
<1> DEFINE Stays == \A id \in DownloadId :
                        (\E i \in Rows(id) : ledger[i].ended) => Rows(id)' # {}
<1>1. StampTypes /\ [StampNext]_stampVars => [Stays]_stampVars
  <2> SUFFICES ASSUME StampTypes, [StampNext]_stampVars, NEW id \in DownloadId, RowKept(id)
               PROVE  Rows(id)' # {}
    BY DEF RowKept
  <2> QED
    BY RowsStay DEF RowKept
<1> QED
  BY <1>1, StampTypesAlways, PTL DEF StampSpec, ResolvedForGood

-----------------------------------------------------------------------------
(* Stamps: the inductive invariant *)

Intact(file) == file \in {Absent, Broken} \/ Sealed(file)
InGiven(run) == [id |-> run.id, cust |-> run.cust] \in given

\* Nobody alters a file before it is shipped.
TreesInv == \A t \in Tree : \A s \in Site : Intact(tree[t][s])

\* A run: the sites it has written hold its stamp, and its row is in the ledger when
\* it got that far on a clean line.
JobInv ==
    job # Idle =>
        /\ InGiven(job)
        /\ \A s \in Site : s <= job.n /\ s < job.next => tree[job.tree][s] = Stamp(job)
        /\ job.keep /\ job.clean /\ job.next = job.n + 2 => RowKept(job.id)

\* The same of a run that was shipped.
CopiesInv ==
    \A copy \in copies :
        /\ InGiven(copy.run)
        /\ \A s \in Site : Intact(copy.files[s])
        /\ \A s \in Site : s <= copy.run.n => copy.files[s] = Stamp(copy.run)
        /\ copy.run.keep /\ copy.run.clean => RowKept(copy.run.id)

\* Rows name who the id was given to.
LedgerInv ==
    \A i \in DOMAIN ledger : ledger[i] \notin {Broken, Fragment} =>
        [id |-> ledger[i].id, cust |-> ledger[i].cust] \in given

\* What was signed by a key of ours as a stamp is a file of a copy.
Source(claims, used) ==
    \E copy \in used : \E r \in Site : Sealed(copy.files[r]) /\ copy.files[r].payload = claims
LeakInv ==
    \A s \in Site : leak[s] \notin {Absent, Broken} =>
        /\ leak[s] \in Document /\ leak[s].signature \in Signature
        /\ leak[s].signature.by \in StampTrust /\ leak[s].signature.over.type = "stamp"
           => Source(leak[s].signature.over, from)

StampInv == StampTypes /\ TreesInv /\ JobInv /\ CopiesInv /\ LedgerInv /\ LeakInv

LEMMA StampInvInit == StampInit => StampInv
  BY StampTypesInit DEF StampInit, StampInv, TreesInv, JobInv, CopiesInv, LedgerInv, LeakInv,
                        Intact

LEMMA TreesKept == StampInv /\ [StampNext]_stampVars => TreesInv'
<1> SUFFICES ASSUME StampInv, [StampNext]_stampVars PROVE TreesInv'
  OBVIOUS
<1>1. /\ tree \in [Tree -> [Site -> File]] /\ job \in Run \cup {Idle}
      /\ TreesInv /\ Sites \in Nat \ {0}
  BY StampTypeSplit, StampAssumption DEF StampInv
<1>2. CASE UNCHANGED tree
  BY <1>1, <1>2 DEF TreesInv, Intact, Sealed
<1>3. CASE /\ Writing
           /\ \E file \in {Stamp(job), Broken} : tree' = [tree EXCEPT ![job.tree][job.next] = file]
  <2>1. job \in Run /\ job.next <= job.n /\ SiteCounts \subseteq 1 .. Sites
    BY <1>1, <1>3, StampAssumption DEF Writing, Site
  <2>b. job.n \in 1 .. Sites /\ job.next \in 1 .. Sites + 2 /\ job.tree \in Tree
    BY <2>1 DEF Run
  <2>a. job.tree \in Tree /\ job.next \in Site
    BY <1>1, <2>1, <2>b DEF Site
  <2>2. PICK file \in {Stamp(job), Broken} : tree' = [tree EXCEPT ![job.tree][job.next] = file]
    BY <1>3
  <2>3. Intact(file)
    BY <2>1, StampIsSealed DEF Intact
  <2>4. \A t \in Tree, s \in Site : tree'[t][s] = file \/ tree'[t][s] = tree[t][s]
    BY <1>1, <2>a, <2>2
  <2> QED
    BY <1>1, <2>3, <2>4 DEF TreesInv, Intact
<1>4. CASE \E t \in Tree : tree' = [tree EXCEPT ![t] = [s \in Site |-> Absent]]
  <2>1. \A t \in Tree, s \in Site : tree'[t][s] = Absent \/ tree'[t][s] = tree[t][s]
    BY <1>1, <1>4
  <2> QED
    BY <1>1, <2>1 DEF TreesInv, Intact
<1>5. \/ UNCHANGED tree
      \/ /\ Writing
         /\ \E file \in {Stamp(job), Broken} : tree' = [tree EXCEPT ![job.tree][job.next] = file]
      \/ \E t \in Tree : tree' = [tree EXCEPT ![t] = [s \in Site |-> Absent]]
  BY DEF StampNext, stampVars, Begin, WriteSite, AppendLedger, Ship, Die, Unpack,
         Publish, Strip, Alter, Forge, Activate, Leaked
<1> QED
  BY <1>2, <1>3, <1>4, <1>5

LEMMA GivenGrows == [StampNext]_stampVars => given \subseteq given'
  BY DEF StampNext, stampVars, Begin, WriteSite, AppendLedger, Ship, Die, Unpack,
         Publish, Strip, Alter, Forge, Activate, Leaked

LEMMA JobKept == StampInv /\ [StampNext]_stampVars => JobInv'
<1> SUFFICES ASSUME StampInv, [StampNext]_stampVars, job' # Idle PROVE JobInv'
  BY DEF JobInv
<1>1. /\ tree \in [Tree -> [Site -> File]] /\ job \in Run \cup {Idle} /\ LedgerTypeOK
      /\ JobInv /\ Sites \in Nat \ {0} /\ SiteCounts \subseteq 1 .. Sites
  BY StampTypeSplit, StampAssumption DEF StampInv, Site
<1>2. CASE UNCHANGED <<job, tree, ledger>>
  <2>1. RowKept(job.id)' <=> RowKept(job.id)
    BY <1>2 DEF RowKept, Rows
  <2> QED
    BY <1>1, <1>2, <2>1, GivenGrows DEF JobInv, InGiven, Stamp
<1>3. CASE \E t \in Tree, id \in DownloadId, cust \in Customer, mode \in Modes,
              n \in SiteCounts : Begin(t, id, cust, mode, n)
  <2>1. PICK t \in Tree, id \in DownloadId, cust \in Customer, mode \in Modes,
             n \in SiteCounts : Begin(t, id, cust, mode, n)
    BY <1>3
  <2>2. job'.next = 1 /\ job'.n \in Nat \ {0} /\ InGiven(job)'
    BY <1>1, <2>1 DEF Begin, InGiven
  <2>3. \A s \in Site : ~(s < 1)
    BY <1>1 DEF Site
  <2> QED
    BY <2>2, <2>3 DEF JobInv
<1>4. CASE WriteSite
  <2>1. /\ job \in Run /\ job # Idle /\ job.next \in Site /\ job.tree \in Tree
        /\ job.n \in 1 .. Sites /\ job.next <= job.n
    BY <1>1, <1>4 DEF WriteSite, Writing, Run, Site
  <2>2. /\ job' = [job EXCEPT !.next = job.next + 1] /\ UNCHANGED given
        /\ tree' = [tree EXCEPT ![job.tree][job.next] = Stamp(job)]
    BY <1>4 DEF WriteSite
  <2>3. /\ job'.n = job.n /\ job'.next = job.next + 1 /\ job'.tree = job.tree
        /\ job'.id = job.id /\ job'.cust = job.cust /\ job'.embed = job.embed
    BY <2>1, <2>2 DEF Run
  <2>4. Stamp(job') = Stamp(job)
    BY <2>3 DEF Stamp
  <2>5. \A s \in Site : tree'[job.tree][s] = IF s = job.next THEN Stamp(job) ELSE tree[job.tree][s]
    BY <1>1, <2>1, <2>2
  <2>6. \A s \in Site : s <= job.n /\ s < job.next + 1 => tree'[job.tree][s] = Stamp(job)
    BY <1>1, <2>1, <2>5 DEF JobInv, Site
  <2>7. ~(job'.next = job'.n + 2)
    BY <2>1, <2>3 DEF Site
  <2>8. InGiven(job)'
    BY <1>1, <2>1, <2>2, <2>3 DEF JobInv, InGiven
  <2> QED
    BY <2>3, <2>4, <2>6, <2>7, <2>8 DEF JobInv
<1>5. CASE AppendLedger
  <2>1. job \in Run /\ job # Idle /\ job.n \in 1 .. Sites /\ job.next = job.n + 1
    BY <1>1, <1>5 DEF AppendLedger, Appending, Run
  <2>2. /\ job' = [job EXCEPT !.next = job.next + 1, !.clean = ~LineIsOpen]
        /\ ledger' = Written(RowOf(job, TRUE)) /\ UNCHANGED <<tree, given>>
    BY <1>5 DEF AppendLedger
  <2>3. /\ job'.n = job.n /\ job'.tree = job.tree /\ job'.clean = ~LineIsOpen
        /\ job'.id = job.id /\ job'.cust = job.cust /\ job'.embed = job.embed
    BY <2>1, <2>2 DEF Run
  <2>4. Stamp(job') = Stamp(job)
    BY <2>3 DEF Stamp
  <2>5. ~LineIsOpen => RowKept(job.id)'
    <3> SUFFICES ASSUME ~LineIsOpen PROVE RowKept(job.id)'
      OBVIOUS
    <3>1. RowOf(job, TRUE) \in Row
      BY <2>1, RowOfType
    <3>2. PICK i \in DOMAIN ledger' : ledger'[i] = RowOf(job, TRUE)
      BY <1>1, <2>2, <3>1, WrittenSays
    <3>3. ledger'[i] \notin {Broken, Fragment}
      BY <3>1, <3>2, RowIsNoMark
    <3>4. ledger'[i].id = job.id /\ ledger'[i].ended = TRUE
      BY <3>2 DEF RowOf
    <3> QED
      BY <2>3, <3>3, <3>4 DEF RowKept, Rows
  <2>6. \A s \in Site : s <= job.n => tree[job.tree][s] = Stamp(job)
    BY <1>1, <2>1 DEF JobInv, Site
  <2>7. InGiven(job)'
    BY <1>1, <2>1, <2>2, <2>3 DEF JobInv, InGiven
  <2> QED
    BY <2>2, <2>3, <2>4, <2>5, <2>6, <2>7 DEF JobInv
<1>6. CASE \E t \in Tree : Unpack(t)
  BY <1>6 DEF Unpack
<1>7. CASE Ship \/ Die
  BY <1>7 DEF Ship, Die
<1>8. \/ UNCHANGED <<job, tree, ledger>>
      \/ \E t \in Tree, id \in DownloadId, cust \in Customer, mode \in Modes,
            n \in SiteCounts : Begin(t, id, cust, mode, n)
      \/ WriteSite \/ AppendLedger \/ Ship \/ Die
      \/ \E t \in Tree : Unpack(t)
  BY DEF StampNext, stampVars, Publish, Strip, Alter, Forge, Activate, Leaked
<1> QED
  BY <1>2, <1>3, <1>4, <1>5, <1>6, <1>7, <1>8

LEMMA CopiesKept == StampInv /\ [StampNext]_stampVars => CopiesInv'
<1> SUFFICES ASSUME StampInv, [StampNext]_stampVars, NEW copy \in copies'
             PROVE  /\ InGiven(copy.run)'
                    /\ \A s \in Site : Intact(copy.files[s])
                    /\ \A s \in Site : s <= copy.run.n => copy.files[s] = Stamp(copy.run)
                    /\ copy.run.keep /\ copy.run.clean => RowKept(copy.run.id)'
  BY DEF CopiesInv
<1>1. /\ tree \in [Tree -> [Site -> File]] /\ job \in Run \cup {Idle}
      /\ CopiesInv /\ JobInv /\ TreesInv /\ StampTypes
  BY StampTypeSplit DEF StampInv
<1>2. CASE copy \in copies
  <2>1. InGiven(copy.run)'
    BY <1>1, <1>2, GivenGrows DEF CopiesInv, InGiven
  <2>2. copy.run.keep /\ copy.run.clean => RowKept(copy.run.id)'
    BY <1>1, <1>2, RowsStay DEF CopiesInv
  <2> QED
    BY <1>1, <1>2, <2>1, <2>2 DEF CopiesInv
<1>3. CASE Ship /\ copy = [run |-> job, files |-> tree[job.tree]]
  <2>1. /\ job # Idle /\ job.next = (IF job.keep THEN job.n + 2 ELSE job.n + 1)
        /\ UNCHANGED <<given, ledger>>
        /\ copy.run = job /\ copy.files = tree[job.tree]
    BY <1>3 DEF Ship, Done
  <2>2. /\ job.tree \in Tree /\ job.keep \in BOOLEAN /\ job.n \in SiteCounts
        /\ job.next \in 1 .. Sites + 2
    BY <1>1, <2>1 DEF Run
  <2>3. job.n \in Site
    BY <2>2, StampAssumption
  <2>4. \A s \in Site : s <= job.n => s < job.next
    BY <2>1, <2>2, <2>3 DEF Site
  <2>5. /\ InGiven(job) /\ \A s \in Site : s <= job.n => tree[job.tree][s] = Stamp(job)
        /\ job.keep /\ job.clean => RowKept(job.id)
    BY <1>1, <2>1, <2>4 DEF JobInv
  <2>6. \A s \in Site : Intact(tree[job.tree][s])
    BY <1>1, <2>2 DEF TreesInv
  <2> QED
    BY <2>1, <2>5, <2>6 DEF InGiven, RowKept, Rows
<1>4. copies' = copies \/ (Ship /\ copies' = copies \cup {[run |-> job, files |-> tree[job.tree]]})
  BY DEF StampNext, stampVars, Begin, WriteSite, AppendLedger, Ship, Die, Unpack,
         Publish, Strip, Alter, Forge, Activate, Leaked
<1> QED
  BY <1>2, <1>3, <1>4

LEMMA LedgerKept == StampInv /\ [StampNext]_stampVars => LedgerInv'
<1> SUFFICES ASSUME StampInv, [StampNext]_stampVars, NEW i \in DOMAIN ledger',
                    ledger'[i] \notin {Broken, Fragment}
             PROVE  [id |-> ledger'[i].id, cust |-> ledger'[i].cust] \in given'
  BY DEF LedgerInv
<1>1. /\ LedgerTypeOK /\ LedgerInv /\ JobInv /\ StampTypes /\ job \in Run \cup {Idle}
  BY StampTypeSplit DEF StampInv
<1>2. CASE i \in DOMAIN ledger /\ ledger'[i] = ledger[i]
  BY <1>1, <1>2, GivenGrows DEF LedgerInv
<1>3. CASE job # Idle /\ UNCHANGED given /\ \E e \in BOOLEAN : ledger' = Written(RowOf(job, e))
  <2>1. PICK e \in BOOLEAN : ledger' = Written(RowOf(job, e))
    BY <1>3
  <2>2. RowOf(job, e) \in Row
    BY <1>1, <1>3, RowOfType
  <2>3. ledger'[i] = RowOf(job, e) \/ (i \in DOMAIN ledger /\ ledger'[i] = ledger[i])
    BY <1>1, <2>1, <2>2, WrittenSays
  <2>4. RowOf(job, e).id = job.id /\ RowOf(job, e).cust = job.cust
    BY DEF RowOf
  <2> QED
    BY <1>1, <1>2, <1>3, <2>3, <2>4 DEF JobInv, InGiven
<1>4. CASE ledger' = Written(Fragment)
  BY <1>1, <1>2, <1>4, WrittenSays
<1>5. CASE UNCHANGED ledger
  BY <1>2, <1>5
<1> QED
  BY <1>1, <1>3, <1>4, <1>5, LedgerSteps

LEMMA LeakKept == StampInv /\ [StampNext]_stampVars => LeakInv'
<1> SUFFICES ASSUME StampInv, [StampNext]_stampVars PROVE LeakInv'
  OBVIOUS
<1> DEFINE Fine(doc) == /\ doc \in Document /\ doc.signature \in Signature
                        /\ doc.signature.by \in StampTrust /\ doc.signature.over.type = "stamp"
                           => Source(doc.signature.over, from')
<1>1. /\ leak \in [Site -> File] /\ LeakInv /\ CopiesInv
      /\ copies \subseteq [run : Run, files : [Site -> File]]
  BY StampTypeSplit DEF StampInv
<1>2. from \subseteq from'
  BY DEF StampNext, stampVars, leakVars, Begin, WriteSite, AppendLedger, Ship, Die, Unpack,
         Publish, Strip, Alter, Forge, Activate, Leaked
<1>3. \A s \in Site : leak[s] \notin {Absent, Broken} => Fine(leak[s])
  BY <1>1, <1>2 DEF LeakInv, Source
<1>4. ASSUME NEW s \in Site, NEW file, leak' = [leak EXCEPT ![s] = file],
             file \notin {Absent, Broken} => Fine(file)
      PROVE LeakInv'
  <2>1. \A r \in Site : leak'[r] = file \/ leak'[r] = leak[r]
    BY <1>1, <1>4
  <2>2. \A r \in Site : leak'[r] \notin {Absent, Broken} => Fine(leak'[r])
    BY <1>3, <1>4, <2>1
  <2> HIDE DEF Source
  <2> QED
    BY <2>2 DEF LeakInv
<1>5. CASE UNCHANGED leak
  <2> HIDE DEF Source
  <2> QED
    BY <1>3, <1>5 DEF LeakInv
<1>6. ASSUME NEW s \in Site, NEW copy \in copies, Publish(copy, s) PROVE LeakInv'
  <2>1. leak' = [leak EXCEPT ![s] = copy.files[s]] /\ copy \in from'
    BY <1>6 DEF Publish, Leaked
  <2>2. Intact(copy.files[s])
    BY <1>1 DEF CopiesInv
  <2>3. copy.files[s] \notin {Absent, Broken} => Fine(copy.files[s])
    BY <2>1, <2>2 DEF Intact, Sealed, Source
  <2> QED
    BY <2>1, <2>3, <1>4
<1>7. ASSUME NEW s \in Site, Strip(s) PROVE LeakInv'
  <2>1. leak' = [leak EXCEPT ![s] = Absent]
    BY <1>7 DEF Strip, Leaked
  <2> QED
    BY <2>1, <1>4
<1>8. ASSUME NEW s \in Site, NEW cust \in Customer \cup {NoCustomer}, Alter(s, cust)
      PROVE LeakInv'
  <2> DEFINE doc == [leak[s] EXCEPT !.payload.cust = cust]
  <2>1. leak' = [leak EXCEPT ![s] = doc] /\ leak[s] \notin {Absent, Broken}
    BY <1>8 DEF Alter, Leaked
  <2>2. Fine(leak[s])
    BY <1>3, <2>1
  <2>3. [leak[s].payload EXCEPT !.cust = cust] \in Claims
    BY <2>2, ClaimsAssumption DEF Document, Claims
  <2>4. doc \in Document /\ doc.signature = leak[s].signature
    BY <2>2, <2>3, ClaimsAssumption DEF Document
  <2>5. Fine(doc)
    BY <2>2, <2>4
  <2> QED
    BY <2>1, <2>5, <1>4
<1>9. ASSUME NEW s \in Site, NEW id \in DownloadId, NEW cust \in Customer, Forge(s, id, cust)
      PROVE LeakInv'
  <2> DEFINE claims == [type |-> "stamp", id |-> id, cust |-> cust]
             doc == Signed(claims, Stranger, StampKey)
  <2>1. claims \in Claims
    BY DEF Claims
  <2>2. Sealed(doc) /\ doc.signature.by = Stranger
    BY <2>1, StampAssumption, SignedIsSealed
  <2>3. Fine(doc)
    BY <2>2, StampAssumption DEF Sealed
  <2>4. leak' = [leak EXCEPT ![s] = doc]
    BY <1>9 DEF Forge, Leaked
  <2> QED
    BY <2>3, <2>4, <1>4
<1>10. ASSUME NEW s \in Site, NEW cust \in Customer, Activate(s, cust) PROVE LeakInv'
  <2> DEFINE claims == [type |-> "license", id |-> cust, cust |-> cust]
             doc == Signed(claims, LicenceKey, LicenceKey)
  <2>1. claims \in Claims
    BY DEF Claims
  <2>2. Sealed(doc) /\ doc.payload.type = "license"
    BY <2>1, StampAssumption, SignedIsSealed
  <2>3. Fine(doc)
    BY <2>2 DEF Sealed
  <2>4. leak' = [leak EXCEPT ![s] = doc]
    BY <1>10 DEF Activate, Leaked
  <2> QED
    BY <2>3, <2>4, <1>4
<1>11. \/ UNCHANGED leak
       \/ \E s \in Site :
            \/ \E copy \in copies : Publish(copy, s)
            \/ Strip(s)
            \/ \E cust \in Customer \cup {NoCustomer} : Alter(s, cust)
            \/ \E id \in DownloadId, cust \in Customer : Forge(s, id, cust)
            \/ \E cust \in Customer : Activate(s, cust)
  BY DEF StampNext, stampVars, leakVars, Begin, WriteSite, AppendLedger, Ship, Die, Unpack
<1> QED
  BY <1>5, <1>6, <1>7, <1>8, <1>9, <1>10, <1>11

LEMMA StampInvInvariant == StampSpec => []StampInv
<1>1. StampInv /\ [StampNext]_stampVars => StampInv'
  BY StampTypesStep, TreesKept, JobKept, CopiesKept, LedgerKept, LeakKept DEF StampInv
<1> QED
  BY <1>1, StampInvInit, PTL DEF StampSpec

-----------------------------------------------------------------------------
(* Stamps: what a copy carries, and what a scan says *)

\* The claims that the run of a copy put at its sites.
LEMMA CopyClaims ==
  ASSUME StampInv, NEW copy \in copies, NEW s \in Site, s <= copy.run.n
  PROVE  /\ copy.run \in Run /\ Sealed(copy.files[s])
         /\ copy.files[s].signature.by = StampKey
         /\ copy.files[s].payload =
              [type |-> "stamp", id |-> copy.run.id,
               cust |-> IF copy.run.embed THEN copy.run.cust ELSE NoCustomer]
<1>1. copy.run \in Run /\ copy.files[s] = Stamp(copy.run)
  BY StampTypeSplit DEF StampInv, CopiesInv
<1> QED
  BY <1>1, StampIsSealed

LEMMA SealedIsNoMark == \A doc : Sealed(doc) => doc \notin {Absent, Broken}
  BY DocumentIsFile DEF Sealed

LEMMA PrivacyHolds == StampInv => PrivacyKept
<1> SUFFICES ASSUME StampInv, NEW copy \in copies, ~copy.run.embed,
                    NEW s \in Site, s <= copy.run.n
             PROVE  /\ copy.files[s] \notin {Absent, Broken}
                    /\ IsOk(copy.files[s]) /\ copy.files[s].payload.cust = NoCustomer
  BY DEF PrivacyKept
<1>1. /\ Sealed(copy.files[s])
      /\ copy.files[s].payload = [type |-> "stamp", id |-> copy.run.id,
                                  cust |-> IF copy.run.embed THEN copy.run.cust ELSE NoCustomer]
  BY CopyClaims
<1>2. copy.files[s].payload.type = "stamp" /\ copy.files[s].payload.cust = NoCustomer
  BY <1>1
<1>3. copy.files[s].signature.by = StampKey
  <2>1. copy.run \in Run /\ copy.files[s] = Stamp(copy.run)
    BY StampTypeSplit DEF StampInv, CopiesInv
  <2> QED
    BY <2>1, StampIsSealed
<1>4. IsOk(copy.files[s])
  BY <1>1, <1>2, <1>3, StampAssumption DEF IsOk, SignedBy, Sealed
<1> QED
  BY <1>1, <1>2, <1>4, SealedIsNoMark

\* A record of a scan that is ok: its claims are those of a copy that was leaked.
LEMMA OkHasSource ==
  ASSUME StampInv, NEW doc \in {leak[s] : s \in Site}, Greps(doc), IsOk(doc)
  PROVE  \E copy \in from : \E r \in Site :
            Sealed(copy.files[r]) /\ copy.files[r].payload = doc.payload
<1>1. PICK s \in Site : doc = leak[s]
  OBVIOUS
<1>2. /\ leak[s] \notin {Absent, Broken} /\ leak[s].payload.type = "stamp"
      /\ leak[s].signature.by \in StampTrust /\ leak[s].signature.over = leak[s].payload
  BY <1>1 DEF Greps, IsOk, SignedBy
<1>3. Source(leak[s].payload, from)
  BY <1>2 DEF StampInv, LeakInv
<1> QED
  BY <1>1, <1>3 DEF Source

\* That copy is of the run the record names, or holds stamps of an earlier one.
LEMMA SourceClaims ==
  ASSUME StampInv, NEW copy \in copies, NEW r \in Site, Sealed(copy.files[r]), ~Leftover(copy)
  PROVE  copy.files[r].payload = [type |-> "stamp", id |-> copy.run.id,
            cust |-> IF copy.run.embed THEN copy.run.cust ELSE NoCustomer]
<1>1. copy.run.n \in Site
  <2>1. copy.run \in Run
    BY StampTypeSplit DEF StampInv
  <2> QED
    BY <2>1, StampAssumption DEF Run
<1>2. copy.run.n \in Int /\ r \in Int
  BY <1>1, StampAssumption DEF Site
<1>3. r <= copy.run.n
  BY <1>2, SealedIsNoMark DEF Leftover
<1> QED
  BY <1>3, CopyClaims

\* Nothing but what an id was given for is in the ledger.
LEMMA LedgerIsGiven ==
  ASSUME StampInv, NEW id, NEW cust, LedgerSays(id, cust)
  PROVE  [id |-> id, cust |-> cust] \in given
  BY DEF LedgerSays, Rows, StampInv, LedgerInv

LEMMA ContributorsNamed == StampInv => OkNamesContributors
<1> SUFFICES ASSUME StampInv, NEW s \in Site, Greps(leak[s]), IsOk(leak[s]),
                    NEW cust \in Customer, Names(leak[s], cust),
                    \A copy \in from : ~Leftover(copy), ~Shared(leak[s].payload.id)
             PROVE  \E copy \in from : copy.run.cust = cust
  BY DEF OkNamesContributors
<1>1. PICK copy \in from, r \in Site :
         Sealed(copy.files[r]) /\ copy.files[r].payload = leak[s].payload
  BY OkHasSource
<1>2. copy \in copies /\ InGiven(copy.run)
  BY StampTypeSplit DEF StampInv, CopiesInv
<1>3. leak[s].payload = [type |-> "stamp", id |-> copy.run.id,
                         cust |-> IF copy.run.embed THEN copy.run.cust ELSE NoCustomer]
  BY <1>1, <1>2, SourceClaims
<1>4. /\ leak[s].payload.id = copy.run.id
      /\ leak[s].payload.cust = IF copy.run.embed THEN copy.run.cust ELSE NoCustomer
  BY <1>3
<1>5. CASE leak[s].payload.cust # NoCustomer /\ cust = leak[s].payload.cust
  BY <1>4, <1>5
<1>6. CASE LedgerSays(leak[s].payload.id, cust)
  <2>1. [id |-> copy.run.id, cust |-> cust] \in given
    BY <1>4, <1>6, LedgerIsGiven
  <2>2. [id |-> copy.run.id, cust |-> copy.run.cust] \in given
    BY <1>2 DEF InGiven
  <2> QED
    BY <1>4, <2>1, <2>2 DEF Shared
<1> QED
  BY <1>5, <1>6 DEF Names

-----------------------------------------------------------------------------
(* Least and greatest elements *)

LEMMA HasLeast ==
  ASSUME NEW S \in SUBSET Nat, S # {}
  PROVE  \E x \in S : \A y \in S : x <= y
<1>a. IsWellFoundedOn(OpToRel(<, Nat), Nat)
  BY NatLessThanWellFounded
<1>b. \E x \in S : \A y \in S : ~(<<y, x>> \in OpToRel(<, Nat))
  BY <1>a, WFMin, Zenon
<1>1. PICK x \in S : \A y \in S : ~(<<y, x>> \in OpToRel(<, Nat))
  BY <1>b
<1>2. \A y \in S : ~(y < x)
  BY <1>1 DEF OpToRel
<1> QED
  BY <1>2

LEMMA HasGreatest ==
  ASSUME NEW n \in Nat, NEW S \in SUBSET (1 .. n), S # {}
  PROVE  \E x \in S : \A y \in S : y <= x
<1> DEFINE T == {n - x : x \in S}
<1>1. T \in SUBSET Nat /\ T # {}
  <2>1. \A x \in S : x \in 1 .. n /\ n - x \in Nat
    OBVIOUS
  <2> QED
    BY <2>1
<1>2. PICK t \in T : \A u \in T : t <= u
  BY <1>1, HasLeast
<1>3. PICK x \in S : t = n - x
  BY <1>2
<1>4. \A y \in S : n - x <= n - y
  BY <1>2, <1>3
<1> QED
  BY <1>4

\* A download id with a row is resolved to a customer it was given to.
LEMMA KeptIsSaid ==
  ASSUME StampInv, NEW id, RowKept(id)
  PROVE  \E cust : LedgerSays(id, cust) /\ [id |-> id, cust |-> cust] \in given
<1>1. ledger \in Seq(Lines)
  BY StampTypeSplit DEF StampInv, LedgerTypeOK, LastIsOpen
<1>2. Rows(id) \subseteq 1 .. Len(ledger) /\ Rows(id) # {} /\ Len(ledger) \in Nat
  BY <1>1 DEF RowKept, Rows
<1>3. PICK i \in Rows(id) : \A j \in Rows(id) : j <= i
  BY <1>2, HasGreatest
<1>4. LedgerSays(id, ledger[i].cust)
  BY <1>3 DEF LedgerSays
<1> QED
  BY <1>4, LedgerIsGiven

LEMMA SurvivorsNamed == StampInv => SurvivorNames
<1> SUFFICES ASSUME StampInv, NEW copy \in from, NEW s \in Site,
                    s <= copy.run.n, leak[s] = copy.files[s], ~Shared(copy.run.id),
                    \A other \in from : ~Leftover(other),
                    \A other \in from : other.run.id = copy.run.id => Traceable(other.run),
                    NEW file \in MetFirst(s)
             PROVE  IsOk(file) /\ Names(file, copy.run.cust)
  BY DEF SurvivorNames
<1>1. /\ \A other \in from : other \in copies
      /\ \A other \in copies : other.run \in Run /\ InGiven(other.run)
  BY StampTypeSplit DEF StampInv, CopiesInv
<1>2. /\ Sealed(leak[s]) /\ leak[s].signature.by = StampKey
      /\ leak[s].payload = [type |-> "stamp", id |-> copy.run.id,
                            cust |-> IF copy.run.embed THEN copy.run.cust ELSE NoCustomer]
  BY <1>1, CopyClaims
<1>3. IsOk(leak[s]) /\ leak[s].payload.id = copy.run.id
  BY <1>2, StampAssumption DEF IsOk, SignedBy, Sealed
<1>4. /\ file \in {leak[q] : q \in Site} /\ Greps(file)
      /\ IsOk(file) /\ file.payload.id = copy.run.id
  BY <1>3 DEF MetFirst, SameRecord
<1>5. PICK other \in from, r \in Site :
         Sealed(other.files[r]) /\ other.files[r].payload = file.payload
  BY <1>4, OkHasSource
<1>6. file.payload = [type |-> "stamp", id |-> other.run.id,
                      cust |-> IF other.run.embed THEN other.run.cust ELSE NoCustomer]
  BY <1>1, <1>5, SourceClaims
<1>7. /\ other.run.id = copy.run.id /\ file.payload.type = "stamp"
      /\ file.payload.cust = IF other.run.embed THEN other.run.cust ELSE NoCustomer
  BY <1>4, <1>6
<1>8. \A cust : [id |-> copy.run.id, cust |-> cust] \in given => cust = copy.run.cust
  <2> SUFFICES ASSUME NEW cust, [id |-> copy.run.id, cust |-> cust] \in given,
                      cust # copy.run.cust
               PROVE  FALSE
    OBVIOUS
  <2>1. [id |-> copy.run.id, cust |-> copy.run.cust] \in given
    BY <1>1 DEF InGiven
  <2> QED
    BY <2>1 DEF Shared
<1>9. CASE other.run.embed
  <2>1. other.run.cust = copy.run.cust
    BY <1>1, <1>7, <1>8 DEF InGiven
  <2>2. other.run.cust \in Customer
    BY <1>1 DEF Run
  <2> QED
    BY <1>4, <1>7, <1>9, <2>1, <2>2, StampAssumption DEF Names
<1>10. CASE ~other.run.embed
  <2>1. other.run.keep /\ other.run.clean
    BY <1>7, <1>10 DEF Traceable
  <2>2. RowKept(copy.run.id)
    BY <1>1, <1>7, <2>1 DEF StampInv, CopiesInv
  <2>3. LedgerSays(copy.run.id, copy.run.cust)
    BY <1>8, <2>2, KeptIsSaid
  <2> QED
    BY <1>4, <1>7, <1>10, <2>3 DEF Names
<1> QED
  BY <1>9, <1>10

\* A privacy copy has a genuine stamp without a customer at every site its run wrote,
\* whatever was there before.
THEOREM PrivacyAlwaysKept == StampSpec => []PrivacyKept
  BY StampInvInvariant, PrivacyHolds, PTL

\* A record reported as ok names only customers whose copies were leaked.
THEOREM OkAlwaysNamesContributors == StampSpec => []OkNamesContributors
  BY StampInvInvariant, ContributorsNamed, PTL

\* One surviving stamp of a traceable copy names its customer.
THEOREM SurvivorsAlwaysName == StampSpec => []SurvivorNames
  BY StampInvInvariant, SurvivorsNamed, PTL

-----------------------------------------------------------------------------
(* SeatReport: types, and what the history says of the lines *)

\* A line and its history are of the same visit.
Linked ==
    \A i \in DOMAIN lines :
        /\ visits[i].lic = lines[i].lic /\ visits[i].fp = lines[i].fp
        /\ visits[i].ts = lines[i].ts
        /\ lines[i].seats \in {None, Bad, visits[i].under.seats}

SeatInv == SeatTypeOK /\ Linked

LEMMA SeatInvInit == SeatInit => SeatInv
  BY SeatAssumption DEF SeatInit, SeatInv, SeatTypeOK, Linked

LEMMA SeatInvStep == SeatInv /\ [SeatNext]_seatVars => SeatInv'
<1> SUFFICES ASSUME SeatInv, [SeatNext]_seatVars PROVE SeatInv'
  OBVIOUS
<1>0. /\ lines \in Seq(Line) /\ visits \in Seq(Visit) /\ Len(visits) = Len(lines)
      /\ today \in 0 .. MaxDay /\ terms \in [Licence -> Terms]
      /\ \A i \in DOMAIN lines : lines[i].ts # None => lines[i].ts <= today
      /\ Linked
  BY DEF SeatInv, SeatTypeOK
<1>a. MaxDay \in Nat /\ None \notin Int /\ Terms \subseteq [tier : Tier, seats : Nat]
  BY SeatAssumption
<1>1. ASSUME NEW lic \in Licence, NEW fp \in Machine \cup {None}, NEW fields \in Fields,
             CheckIn(lic, fp, fields)
      PROVE SeatInv'
  <2> DEFINE ts == IF fields = "undated" THEN None ELSE today
             tier == IF fields = "none" THEN None ELSE terms[lic].tier
             seats == CASE fields \in {"all", "undated"} -> terms[lic].seats
                        [] fields = "text" -> Bad
                        [] fields = "none" -> None
             line == [lic |-> lic, fp |-> fp, tier |-> tier, seats |-> seats, ts |-> ts]
             visit == [lic |-> lic, fp |-> fp, ts |-> ts, under |-> terms[lic]]
  <2>1. lines' = Append(lines, line) /\ visits' = Append(visits, visit)
        /\ UNCHANGED <<today, terms>>
    BY <1>1 DEF CheckIn
  <2>2. terms[lic] \in Terms /\ terms[lic].tier \in Tier /\ terms[lic].seats \in Nat
    BY <1>0, <1>a
  <2>3. seats \in {terms[lic].seats, Bad, None}
    BY SeatAssumption
  <2>4. tier \in Tier \cup {None} /\ ts \in 0 .. MaxDay \cup {None}
    BY <1>0, <2>2
  <2> HIDE DEF ts, tier, seats
  <2>5. line \in Line /\ visit \in Visit
    BY <2>2, <2>3, <2>4 DEF Line, Visit
  <2>6. /\ line.lic = lic /\ line.fp = fp /\ line.ts = ts /\ line.seats = seats
        /\ visit.lic = lic /\ visit.fp = fp /\ visit.ts = ts /\ visit.under.seats = terms[lic].seats
    OBVIOUS
  <2> HIDE DEF line, visit
  <2>7. /\ lines' \in Seq(Line) /\ visits' \in Seq(Visit)
        /\ Len(lines') = Len(lines) + 1 /\ Len(visits') = Len(visits) + 1 /\ Len(lines) \in Nat
        /\ DOMAIN lines = 1 .. Len(lines) /\ DOMAIN lines' = 1 .. Len(lines) + 1
        /\ \A i \in 1 .. Len(lines) : lines'[i] = lines[i] /\ visits'[i] = visits[i]
        /\ lines'[Len(lines) + 1] = line /\ visits'[Len(lines) + 1] = visit
    BY <1>0, <2>1, <2>5
  <2>8. ts # None => ts <= today
    BY <1>0 DEF ts
  <2>9. \A i \in DOMAIN lines' : i \in DOMAIN lines \/ i = Len(lines) + 1
    BY <2>7
  <2>10. \A i \in DOMAIN lines' : lines'[i].ts # None => lines'[i].ts <= today'
    BY <1>0, <2>1, <2>6, <2>7, <2>8, <2>9
  <2>11. Linked'
    <3> SUFFICES ASSUME NEW i \in DOMAIN lines'
                 PROVE  /\ visits'[i].lic = lines'[i].lic /\ visits'[i].fp = lines'[i].fp
                        /\ visits'[i].ts = lines'[i].ts
                        /\ lines'[i].seats \in {None, Bad, visits'[i].under.seats}
      BY DEF Linked
    <3>1. CASE i \in DOMAIN lines
      BY <3>1, <1>0, <2>7 DEF Linked
    <3>2. CASE i = Len(lines) + 1
      BY <3>2, <2>3, <2>6, <2>7
    <3> QED
      BY <3>1, <3>2, <2>9
  <2> QED
    BY <1>0, <2>1, <2>7, <2>10, <2>11 DEF SeatInv, SeatTypeOK
<1>2. ASSUME NEW lic \in Licence, NEW t \in Terms, Renew(lic, t) PROVE SeatInv'
  BY <1>0, <1>2 DEF Renew, SeatInv, SeatTypeOK, Linked
<1>3. ASSUME NextDay PROVE SeatInv'
  <2>1. today' \in 0 .. MaxDay /\ today' = today + 1 /\ UNCHANGED <<lines, visits, terms>>
    BY <1>0, <1>3, <1>a DEF NextDay
  <2>2. \A i \in DOMAIN lines : lines[i].ts # None => lines[i].ts <= today + 1
    <3> SUFFICES ASSUME NEW i \in DOMAIN lines, lines[i].ts # None
                 PROVE  lines[i].ts <= today + 1
      OBVIOUS
    <3>1. lines[i] \in Line
      BY <1>0
    <3>2. lines[i].ts \in 0 .. MaxDay
      BY <3>1 DEF Line
    <3> QED
      BY <1>0, <3>2
  <2> QED
    BY <1>0, <2>1, <2>2 DEF SeatInv, SeatTypeOK, Linked
<1>4. CASE UNCHANGED seatVars
  BY <1>0, <1>4 DEF seatVars, SeatInv, SeatTypeOK, Linked
<1> QED
  BY <1>1, <1>2, <1>3, <1>4 DEF SeatNext

LEMMA SeatInvInvariant == SeatSpec => []SeatInv
  BY SeatInvInit, SeatInvStep, PTL DEF SeatSpec

\* Types of the ledger and its history; no line is from the future.
THEOREM SeatTypeCorrect == SeatSpec => []SeatTypeOK
<1>1. SeatInv => SeatTypeOK
  BY DEF SeatInv
<1> QED
  BY <1>1, SeatInvInvariant, PTL

-----------------------------------------------------------------------------
(* SeatReport: the report *)

LEMMA MinIsIn ==
  ASSUME NEW S \in SUBSET Nat, S # {}
  PROVE  Min(S) \in S
  BY HasLeast DEF Min

LEMMA MaxIsIn ==
  ASSUME NEW n \in Nat, NEW S \in SUBSET (1 .. n), S # {}
  PROVE  Max(S) \in S
<1>1. \E x \in S : \A y \in S : x >= y
  BY HasGreatest
<1> QED
  BY <1>1 DEF Max

LEMMA CountedTypes ==
  ASSUME SeatInv, NEW lic, NEW now
  PROVE  /\ Counted(lic, now) \subseteq DOMAIN lines /\ DOMAIN lines = 1 .. Len(lines)
         /\ Len(lines) \in Nat /\ DOMAIN visits = DOMAIN lines
         /\ \A i \in DOMAIN lines : lines[i] \in Line /\ visits[i] \in Visit
  BY DEF SeatInv, SeatTypeOK, Counted

\* What the report counts are the visits it is about.
LEMMA CountedIsRecent ==
  ASSUME SeatInv, NEW lic, NEW now \in Int \cup {None}
  PROVE  Counted(lic, now) = Recent(lic, now)
<1>1. \A i \in DOMAIN lines : lines[i].ts \in Int \cup {None}
  BY CountedTypes DEF Line
<1>2. Window \in Int
  BY SeatAssumption
<1>3. \A i \in DOMAIN lines : visits[i].lic = lines[i].lic /\ visits[i].ts = lines[i].ts
  BY DEF SeatInv, Linked
<1>4. ASSUME NEW i \in DOMAIN lines
      PROVE Counts(lines[i], lic, now) <=>
              /\ visits[i].lic = lic
              /\ now # None /\ visits[i].ts # None => now - visits[i].ts <= Window
  BY <1>1, <1>2, <1>3 DEF Counts
<1> QED
  BY <1>4, CountedTypes DEF Counted, Recent

\* Unless no line or a malformed one gives the seats, the allowance is that of the
\* terms under which one of the counted lines was sent.
LEMMA AllowanceIsOfLine ==
  ASSUME SeatInv, NEW lic, NEW now,
         \A i \in Counted(lic, now) : lines[i].seats # Bad,
         \E i \in Counted(lic, now) : lines[i].seats # None
  PROVE  \E i \in Counted(lic, now) : AllowanceOf(lic, now) = visits[i].under.seats
<1> DEFINE S == Given(lic, now, "seats")
<1>1. S = {i \in Counted(lic, now) : lines[i].seats # None} /\ S # {}
  BY DEF Given
<1>2. S \in SUBSET Nat
  BY <1>1, CountedTypes
<1>3. Min(S) \in S
  BY <1>1, <1>2, MinIsIn
<1> DEFINE i == Min(S)
<1>4. SeatsOf(lic, now) = lines[i].seats
  BY <1>1 DEF SeatsOf
<1> HIDE DEF i, S
<1>5. i \in Counted(lic, now) /\ lines[i].seats = visits[i].under.seats
  <2>1. i \in Counted(lic, now) /\ lines[i].seats # None /\ lines[i].seats # Bad
    BY <1>1, <1>3 DEF i
  <2> QED
    BY <2>1, CountedTypes DEF SeatInv, Linked
<1>6. visits[i].under.seats \in Nat
  <2>1. visits[i].under \in Terms
    BY <1>5, CountedTypes DEF Visit
  <2> QED
    BY <2>1, SeatAssumption
<1> QED
  BY <1>4, <1>5, <1>6 DEF AllowanceOf, Allowance

LEMMA AllowanceBought == SeatInv => AllowanceWasBought
<1> SUFFICES ASSUME SeatInv, NEW lic \in Licence, NEW now \in {today, None},
                    \A i \in Counted(lic, now) : lines[i].seats # Bad,
                    \E i \in Counted(lic, now) : lines[i].seats # None
             PROVE  \E i \in Recent(lic, now) : AllowanceOf(lic, now) = visits[i].under.seats
  BY DEF AllowanceWasBought
<1>1. now \in Int \cup {None}
  BY DEF SeatInv, SeatTypeOK
<1> QED
  BY <1>1, AllowanceIsOfLine, CountedIsRecent

LEMMA AllowanceType ==
  ASSUME SeatInv, NEW lic, NEW now
  PROVE  AllowanceOf(lic, now) \in Nat
<1> DEFINE S == Given(lic, now, "tier")
<1>1. S = {i \in Counted(lic, now) : lines[i].tier # None}
  BY DEF Given
<1>2. TierOf(lic, now) \in Tier \cup {None}
  <2>1. CASE S = {}
    BY <2>1 DEF TierOf
  <2>2. CASE S # {}
    <3>1. S \in SUBSET (1 .. Len(lines)) /\ Len(lines) \in Nat
      BY <1>1, CountedTypes
    <3>2. Max(S) \in S
      BY <2>2, <3>1, MaxIsIn
    <3>3. TierOf(lic, now) = lines[Max(S)].tier
      BY <2>2 DEF TierOf
    <3> HIDE DEF S
    <3>4. lines[Max(S)] \in Line
      BY <3>1, <3>2, CountedTypes
    <3> QED
      BY <3>3, <3>4 DEF Line
  <2> QED
    BY <2>1, <2>2
<1> QED
  BY <1>2, SeatAssumption DEF AllowanceOf, Allowance

\* Nobody within its seats is on the ladder, and whoever is over them is.
LEMMA OkIffWithin ==
  ASSUME NEW seats \in Nat, NEW distinct \in Nat
  PROVE  Rung(distinct, seats) = 0 <=> seats = 0 \/ distinct <= seats
<1>1. CASE seats = 0 \/ distinct <= seats
  BY <1>1 DEF Rung
<1>2. CASE seats # 0 /\ distinct > seats /\ distinct <= seats + 2
  BY <1>2 DEF Rung
<1>3. CASE seats # 0 /\ distinct > seats + 2 /\ distinct <= ReviewLimit(seats)
  <2>1. Rung(distinct, seats) = 2
    BY <1>3 DEF Rung, ReviewLimit
  <2> QED
    BY <1>3, <2>1
<1>4. CASE seats # 0 /\ distinct > seats + 2 /\ distinct > ReviewLimit(seats)
  <2>1. Rung(distinct, seats) = 3
    BY <1>4 DEF Rung, ReviewLimit
  <2> QED
    BY <1>4, <2>1
<1> QED
  BY <1>1, <1>2, <1>3, <1>4 DEF ReviewLimit

\* The rungs are ordered, and none is jumped over: the lemma of the ladder.
LEMMA LadderClimbs ==
  ASSUME NEW seats \in Nat, NEW distinct \in Nat
  PROVE  /\ Rung(distinct, seats) \in 0 .. 3
         /\ Rung(distinct, seats) <= Rung(distinct + 1, seats)
         /\ Rung(distinct + 1, seats) <= Rung(distinct, seats) + 1
<1> DEFINE limit == ReviewLimit(seats)
           R(d) == IF seats = 0 \/ d <= seats THEN 0
                   ELSE IF d <= seats + 2 THEN 1
                   ELSE IF d <= limit THEN 2 ELSE 3
<1>1. limit \in Nat /\ (seats # 0 => seats + 3 <= limit)
  BY DEF ReviewLimit
<1> HIDE DEF limit
<1>2. \A d \in Nat : Rung(d, seats) = R(d)
  <2> SUFFICES ASSUME NEW d \in Nat PROVE Rung(d, seats) = R(d)
    OBVIOUS
  <2>1. CASE seats = 0 \/ d <= seats
    BY <2>1 DEF Rung
  <2>2. CASE seats # 0 /\ d > seats /\ d <= seats + 2
    BY <2>2 DEF Rung
  <2>3. CASE seats # 0 /\ d > seats + 2 /\ d <= limit
    BY <2>3, <1>1 DEF Rung, limit
  <2>4. CASE seats # 0 /\ d > seats + 2 /\ d > limit
    BY <2>4, <1>1 DEF Rung, limit
  <2> QED
    BY <1>1, <2>1, <2>2, <2>3, <2>4
<1> QED
  BY <1>1, <1>2

LEMMA MachinesFinite ==
  ASSUME SeatInv, NEW lic, NEW now
  PROVE  IsFiniteSet(Machines(lic, now)) /\ Cardinality(Machines(lic, now)) \in Nat
<1> DEFINE C == Counted(lic, now)
           M == {lines[i].fp : i \in C}
           f == [i \in C |-> lines[i].fp]
<1>1. IsFiniteSet(C)
  <2>1. C \in SUBSET (1 .. Len(lines)) /\ Len(lines) \in Nat
    BY CountedTypes
  <2>2. IsFiniteSet(1 .. Len(lines))
    BY <2>1, FS_Interval
  <2> QED
    BY <2>1, <2>2, FS_Subset
<1>2. f \in Surjection(C, M)
  BY DEF Surjection
<1>3. IsFiniteSet(M)
  BY <1>1, <1>2, FS_Surjection, Zenon
<1>4. Machines(lic, now) = M \ {None}
  BY DEF Machines
<1> HIDE DEF M
<1>5. IsFiniteSet(Machines(lic, now))
  BY <1>3, <1>4, FS_Difference
<1> QED
  BY <1>5, FS_CardinalityType

LEMMA OverIsReported == SeatInv => ReportedIffOver
<1> SUFFICES ASSUME SeatInv, NEW lic \in Licence, NEW now \in {today, None},
                    \A i \in Recent(lic, now) :
                        visits[i].under = terms[lic] /\ lines[i].seats # Bad,
                    \E i \in Recent(lic, now) : lines[i].seats # None
             PROVE  LET distinct == Cardinality({visits[i].fp : i \in Recent(lic, now)} \ {None})
                        seats == terms[lic].seats
                    IN  Standing(lic, now) = 0 <=> seats = 0 \/ distinct <= seats
  BY DEF ReportedIffOver
<1>1. now \in Int \cup {None}
  BY DEF SeatInv, SeatTypeOK
<1>2. Counted(lic, now) = Recent(lic, now)
  BY <1>1, CountedIsRecent
<1>3. \A i \in Counted(lic, now) : visits[i].fp = lines[i].fp
  BY CountedTypes DEF SeatInv, Linked
<1>4. {visits[i].fp : i \in Recent(lic, now)} \ {None} = Machines(lic, now)
  BY <1>2, <1>3 DEF Machines
<1>5. AllowanceOf(lic, now) = terms[lic].seats
  <2>1. PICK i \in Counted(lic, now) : AllowanceOf(lic, now) = visits[i].under.seats
    BY <1>2, AllowanceIsOfLine
  <2> QED
    BY <1>2, <2>1
<1>6. AllowanceOf(lic, now) \in Nat /\ Cardinality(Machines(lic, now)) \in Nat
  BY AllowanceType, MachinesFinite
<1> QED
  BY <1>4, <1>5, <1>6, OkIffWithin DEF Standing

\* A check-in adds one machine at most.
LEMMA CheckInAddsOne ==
  ASSUME SeatInv, NEW lic, NEW now, NEW l \in Licence, NEW fp \in Machine \cup {None},
         NEW fields \in Fields, CheckIn(l, fp, fields)
  PROVE  \/ Machines(lic, now)' = Machines(lic, now)
         \/ Machines(lic, now)' = Machines(lic, now) \cup {fp}
<1>1. PICK line : lines' = Append(lines, line) /\ line.fp = fp
  <2>1. \E tier, seats, ts :
          lines' = Append(lines, [lic |-> l, fp |-> fp, tier |-> tier, seats |-> seats, ts |-> ts])
    BY DEF CheckIn
  <2>2. PICK tier, seats, ts :
          lines' = Append(lines, [lic |-> l, fp |-> fp, tier |-> tier, seats |-> seats, ts |-> ts])
    BY <2>1
  <2> QED
    BY <2>2
<1>2. lines \in Seq(Line)
  BY DEF SeatInv, SeatTypeOK
<1>3. /\ Len(lines) \in Nat /\ DOMAIN lines = 1 .. Len(lines)
      /\ DOMAIN lines' = 1 .. Len(lines) + 1
      /\ \A i \in 1 .. Len(lines) : lines'[i] = lines[i]
      /\ lines'[Len(lines) + 1] = line
  BY <1>1, <1>2
<1> DEFINE n == Len(lines) + 1
           C == Counted(lic, now)
           D == {i \in DOMAIN lines' : Counts(lines'[i], lic, now)}
<1>4. C \subseteq 1 .. Len(lines) /\ \A i \in C : lines'[i] = lines[i]
  BY <1>3 DEF Counted
<1>5. \A i \in DOMAIN lines' : i = n \/ i \in DOMAIN lines
  BY <1>3
<1>6. D = C \/ D = C \cup {n}
  <2>1. \A i \in DOMAIN lines : i \in D <=> i \in C
    BY <1>3 DEF Counted
  <2>2. \A i \in D : i = n \/ i \in C
    BY <1>5, <2>1
  <2>3. \A i \in C : i \in D
    BY <1>3, <1>4, <2>1
  <2> QED
    BY <2>2, <2>3
<1>7. Machines(lic, now)' = {lines'[i].fp : i \in D} \ {None}
  BY DEF Machines, Counted
<1>8. {lines'[i].fp : i \in C} = {lines[i].fp : i \in C}
  BY <1>4
<1>9. {lines'[i].fp : i \in C \cup {n}} = {lines[i].fp : i \in C} \cup {fp}
  <2>1. {lines'[i].fp : i \in C \cup {n}} = {lines'[i].fp : i \in C} \cup {lines'[n].fp}
    BY Zenon
  <2> QED
    BY <1>1, <1>3, <1>8, <2>1
<1> HIDE DEF C, D, n
<1>10. CASE D = C
  BY <1>7, <1>8, <1>10 DEF Machines, C
<1>11. CASE D = C \cup {n}
  BY <1>7, <1>9, <1>11 DEF Machines, C
<1> QED
  BY <1>6, <1>10, <1>11

LEMMA OneRung ==
  ASSUME SeatInv, SeatInv', [SeatNext]_seatVars, lines' # lines, NEW lic, NEW now,
         AllowanceOf(lic, now)' = AllowanceOf(lic, now)
  PROVE  /\ Standing(lic, now) <= Standing(lic, now)'
         /\ Standing(lic, now)' <= Standing(lic, now) + 1
<1>1. PICK l \in Licence, fp \in Machine \cup {None}, fields \in Fields : CheckIn(l, fp, fields)
  BY DEF SeatNext, seatVars, Renew, NextDay
<1> DEFINE M == Machines(lic, now)
           seats == AllowanceOf(lic, now)
<1>2. seats \in Nat /\ IsFiniteSet(M) /\ Cardinality(M) \in Nat
  BY AllowanceType, MachinesFinite
<1>3. M' = M \/ M' = M \cup {fp}
  BY <1>1, CheckInAddsOne
<1>4. Cardinality(M') \in {Cardinality(M), Cardinality(M) + 1}
  BY <1>2, <1>3, FS_AddElement
<1>5. /\ Standing(lic, now) = Rung(Cardinality(M), seats)
      /\ Standing(lic, now)' = Rung(Cardinality(M'), seats)
  BY DEF Standing
<1> HIDE DEF M, seats
<1>6. /\ Rung(Cardinality(M), seats) \in 0 .. 3
      /\ Rung(Cardinality(M), seats) <= Rung(Cardinality(M) + 1, seats)
      /\ Rung(Cardinality(M) + 1, seats) <= Rung(Cardinality(M), seats) + 1
  BY <1>2, LadderClimbs
<1> QED
  BY <1>4, <1>5, <1>6

\* A customer is reported exactly when more machines than it bought checked in.
THEOREM ReportedExactlyIfOver == SeatSpec => []ReportedIffOver
  BY SeatInvInvariant, OverIsReported, PTL

\* Over renewals the allowance is always one that was bought.
THEOREM AllowanceAlwaysBought == SeatSpec => []AllowanceWasBought
  BY SeatInvInvariant, AllowanceBought, PTL

\* One check-in moves a licence up one rung at most.
THEOREM AlwaysNotifiedFirst == SeatSpec => NotifyFirst
<1> DEFINE Climbs == \A lic \in Licence, now \in {today, None} :
               lines' # lines /\ AllowanceOf(lic, now)' = AllowanceOf(lic, now)
               => /\ Standing(lic, now) <= Standing(lic, now)'
                  /\ Standing(lic, now)' <= Standing(lic, now) + 1
<1>1. SeatInv /\ SeatInv' /\ [SeatNext]_seatVars => [Climbs]_seatVars
  BY OneRung
<1> QED
  BY <1>1, SeatInvInvariant, PTL DEF SeatSpec, NotifyFirst
=============================================================================
