-------------------------------- MODULE Stamps --------------------------------
(***************************************************************************)
(* tools/stamp_download.py puts a signed stamp at several places of a      *)
(* package tree and a row into the download ledger; tools/attribute_leak.py*)
(* scans a leaked build and names the customers it came from.  Between the *)
(* two: a stamping run may end half-way, trees and download ids are used   *)
(* again, and whoever leaks a build strips, alters and forges stamps.      *)
(***************************************************************************)
EXTENDS Signing, FiniteSets

CONSTANTS
    Tree,          \* package trees on the stamping host
    Sites,         \* number of _DEFAULT_SITES; a site is its position there
    SiteCounts,    \* numbers of sites a run is asked for (--sites, or all)
    Modes,         \* options of a run: customer embedded or not, ledger kept or not
    Customer,      \* values of customer_ref
    DownloadId,    \* download ids
    NoCustomer,    \* a stamp without customer_ref; an attribution to nobody
    StampKey,      \* the key stamps are signed with
    StampTrust,    \* STAMP_TRUST and --stamp-pubkey
    LicenceKey,    \* the key licence tokens are signed with
    LicenceTrust,  \* TRUST
    Stranger,      \* the key of somebody else
    Absent,        \* no file
    Broken,        \* a file, or line of the ledger, that does not parse
    Fragment,      \* a part of a row, at the end of the ledger
    MaxRuns        \* bound: stamping runs

Site == 1 .. Sites

ASSUME StampAssumption ==
    /\ Sites \in Nat \ {0} /\ SiteCounts \subseteq Site
    /\ Modes \subseteq [embed : BOOLEAN, keep : BOOLEAN]
    /\ {StampKey, LicenceKey, Stranger} \subseteq KeyPair
    /\ StampKey \in StampTrust /\ LicenceKey \in LicenceTrust
    /\ Stranger \notin StampTrust \cup LicenceTrust
    /\ NoCustomer \notin Customer
    /\ Absent # Broken /\ {Absent, Broken} \cap Document = {}
    /\ Broken # Fragment
    /\ {Broken, Fragment} \cap [id : DownloadId, cust : Customer, ended : BOOLEAN] = {}
    /\ MaxRuns \in Nat

\* The claims attribution reads; `type` tells a stamp from a licence token.
Claims == [type : {"stamp", "license"}, id : DownloadId \cup Customer,
           cust : Customer \cup {NoCustomer}]
ASSUME ClaimsAssumption == Payload = Claims

VARIABLES
    tree,     \* the files at the sites of each tree
    job,      \* the stamping run in progress
    ledger,   \* the lines of the download ledger
    runs,     \* number of runs begun
    given,    \* history: which customer a download id was given to
    copies,   \* history: what was shipped, by which run
    leak,     \* the leaked build, at the sites a scan looks at
    from      \* history: the copies it was put together from

stampVars == <<tree, job, ledger, runs, given, copies, leak, from>>
leakVars == <<leak, from>>

Idle == [next |-> 0]

StampInit ==
    /\ tree = [t \in Tree |-> [s \in Site |-> Absent]]
    /\ job = Idle
    /\ ledger = <<>>
    /\ runs = 0
    /\ given = {}
    /\ copies = {}
    /\ leak = [s \in Site |-> Absent]
    /\ from = {}

-----------------------------------------------------------------------------
(* stamp_artifact *)

\* The signed stamp of a run.
Stamp(run) ==
    Signed([type |-> "stamp", id |-> run.id,
            cust |-> IF run.embed THEN run.cust ELSE NoCustomer], StampKey, StampKey)

\* A run on tree t: the options of the command line, and the next site to write.
Begin(t, id, cust, mode, n) ==
    /\ job = Idle /\ runs < MaxRuns
    /\ job' = [tree |-> t, id |-> id, cust |-> cust, embed |-> mode.embed, keep |-> mode.keep,
               n |-> n, next |-> 1, clean |-> TRUE]
    /\ runs' = runs + 1
    /\ given' = given \cup {[id |-> id, cust |-> cust]}
    /\ UNCHANGED <<tree, ledger, copies, leakVars>>

Writing == job # Idle /\ job.next <= job.n
Appending == job # Idle /\ job.next = job.n + 1 /\ job.keep
Done == job # Idle /\ job.next = (IF job.keep THEN job.n + 2 ELSE job.n + 1)

\* Mutation of WriteSite: a file that is there already is kept.
WriteSite_KeepsOld ==
    /\ Writing
    /\ tree' = IF tree[job.tree][job.next] = Absent
               THEN [tree EXCEPT ![job.tree][job.next] = Stamp(job)] ELSE tree
    /\ job' = [job EXCEPT !.next = @ + 1]
    /\ UNCHANGED <<ledger, runs, given, copies, leakVars>>

\* _write_sites, one file at a time.
WriteSite ==
    /\ Writing
    /\ tree' = [tree EXCEPT ![job.tree][job.next] = Stamp(job)]
    /\ job' = [job EXCEPT !.next = @ + 1]
    /\ UNCHANGED <<ledger, runs, given, copies, leakVars>>

\* Mutation of RowOf: the row is made of the stamp, which in privacy mode names nobody.
RowOf_Private(run, ended) ==
    [id |-> run.id, cust |-> IF run.embed THEN run.cust ELSE NoCustomer, ended |-> ended]

\* The row of a run; `ended`: with its newline.
RowOf(run, ended) == [id |-> run.id, cust |-> run.cust, ended |-> ended]

Ended(line) == line = Broken \/ (line # Fragment /\ line.ended)
LineIsOpen == ledger # <<>> /\ ~Ended(ledger[Len(ledger)])

\* The ledger with one more write: what follows an open line is glued to it, and
\* two rows on one line do not parse.
Written(text) ==
    IF LineIsOpen THEN [ledger EXCEPT ![Len(ledger)] = IF Ended(text) THEN Broken ELSE Fragment]
                  ELSE Append(ledger, text)

\* Mutation of AppendLedger: the file is opened for writing, not appending.
AppendLedger_Truncates ==
    /\ Appending
    /\ ledger' = <<RowOf(job, TRUE)>>
    /\ job' = [job EXCEPT !.next = @ + 1, !.clean = ~LineIsOpen]
    /\ UNCHANGED <<tree, runs, given, copies, leakVars>>

\* _append_ledger, which names the customer in every mode.
AppendLedger ==
    /\ Appending
    /\ ledger' = Written(RowOf(job, TRUE))
    /\ job' = [job EXCEPT !.next = @ + 1, !.clean = ~LineIsOpen]
    /\ UNCHANGED <<tree, runs, given, copies, leakVars>>

\* The run reports success, and the customer gets the tree.
Ship ==
    /\ Done
    /\ copies' = copies \cup {[run |-> job, files |-> tree[job.tree]]}
    /\ job' = Idle
    /\ UNCHANGED <<tree, ledger, runs, given, leakVars>>

\* The run ends half-way: the disk is full, the host stops.  What it was writing
\* is there in part, or not at all; of a row, all but the newline may be there.
Die ==
    /\ job # Idle
    /\ job' = Idle
    /\ \/ UNCHANGED <<tree, ledger>>
       \/ /\ Writing /\ UNCHANGED ledger
          /\ tree' = [tree EXCEPT ![job.tree][job.next] = Broken]
       \/ /\ Appending /\ UNCHANGED tree
          /\ \E text \in {Fragment, RowOf(job, FALSE)} : ledger' = Written(text)
    /\ UNCHANGED <<runs, given, copies, leakVars>>

\* The package is unpacked afresh.
Unpack(t) ==
    /\ job = Idle /\ runs < MaxRuns
    /\ tree' = [tree EXCEPT ![t] = [s \in Site |-> Absent]]
    /\ UNCHANGED <<job, ledger, runs, given, copies, leakVars>>

-----------------------------------------------------------------------------
(* The leaked build *)

\* A leak reads copies, which a run only adds to at its end: that it grows between
\* runs leaves out no build and no ledger it may be scanned with.
Leaked(s, file) ==
    /\ job = Idle
    /\ leak' = [leak EXCEPT ![s] = file]
    /\ UNCHANGED <<tree, job, ledger, runs, given, copies>>

\* A copy's file goes into the build; or it is removed again.
Publish(copy, s) == Leaked(s, copy.files[s]) /\ from' = from \cup {copy}
Strip(s) == Leaked(s, Absent) /\ UNCHANGED from

\* Another customer, or none, is written into a genuine stamp; the signature stays.
Alter(s, cust) ==
    /\ leak[s] \notin {Absent, Broken} /\ leak[s].signature.by = StampKey
    /\ Leaked(s, [leak[s] EXCEPT !.payload.cust = cust])
    /\ UNCHANGED from

\* A stamp is made up and signed with another key.
Forge(s, id, cust) ==
    /\ Leaked(s, Signed([type |-> "stamp", id |-> id, cust |-> cust], Stranger, StampKey))
    /\ UNCHANGED from

\* A customer's licence token lies in the build since it was activated.
Activate(s, cust) ==
    /\ Leaked(s, Signed([type |-> "license", id |-> cust, cust |-> cust], LicenceKey, LicenceKey))
    /\ UNCHANGED from

StampNext ==
    \/ \E t \in Tree, id \in DownloadId, cust \in Customer, mode \in Modes,
          n \in SiteCounts : Begin(t, id, cust, mode, n)
    \/ WriteSite \/ AppendLedger \/ Ship \/ Die
    \/ \E t \in Tree : Unpack(t)
    \/ \E s \in Site :
         \/ \E copy \in copies : Publish(copy, s)
         \/ Strip(s)
         \/ \E cust \in Customer \cup {NoCustomer} : Alter(s, cust)
         \/ \E id \in DownloadId, cust \in Customer : Forge(s, id, cust)
         \/ \E cust \in Customer : Activate(s, cust)

StampSpec == StampInit /\ [][StampNext]_stampVars

-----------------------------------------------------------------------------
(* attribute_leak.py *)

\* _verify: any trusted key made the signature over these claims.
SignedBy(doc, keys) == doc.signature.by \in keys /\ doc.signature.over = doc.payload

\* _load_ledger: the customer of the last readable row of a download id.
Rows(id) == {i \in DOMAIN ledger : ledger[i] \notin {Broken, Fragment} /\ ledger[i].id = id}
LedgerSays(id, cust) == \E i \in Rows(id) : ledger[i].cust = cust /\ \A j \in Rows(id) : j <= i

\* Mutation of IsOk: the signature need not be over these claims.
IsOk_Unbound(doc) ==
    IF doc.payload.type = "stamp" THEN doc.signature.by \in StampTrust
                                  ELSE doc.signature.by \in LicenceTrust

\* _attribute: `ok`.
IsOk(doc) ==
    IF doc.payload.type = "stamp" THEN SignedBy(doc, StampTrust) ELSE SignedBy(doc, LicenceTrust)

\* _attribute: whom the record names.  A stamp's own customer first, else the row of
\* a genuine one.
Names(doc, cust) ==
    \/ doc.payload.cust # NoCustomer /\ cust = doc.payload.cust
    \/ /\ doc.payload.cust = NoCustomer /\ doc.payload.type = "stamp" /\ IsOk(doc)
       /\ LedgerSays(doc.payload.id, cust)

\* The pattern of _scan admits no brace but those of the signature: all claims of a
\* stamp are text, a licence token has its `entitlements` object (mint_license.py).
Greps(file) == file \notin {Absent, Broken} /\ file.payload.type = "stamp"

\* Mutation of SameRecord: copies are told apart by their id only.
SameRecord_ById(d, e) == d.payload.type = e.payload.type /\ d.payload.id = e.payload.id

\* _scan keeps one record of all copies with this key, that of the copy it met first.
SameRecord(d, e) ==
    /\ d.payload.type = e.payload.type /\ d.payload.id = e.payload.id
    /\ IsOk(d) = IsOk(e)
    /\ IsOk(d) => d.signature.by = e.signature.by

\* Whichever order os.walk takes: the files the record of site s may stand for.
MetFirst(s) == {leak[r] : r \in {q \in Site : Greps(leak[q]) /\ SameRecord(leak[q], leak[s])}}

-----------------------------------------------------------------------------
(* Properties *)

File == Document \cup {Absent, Broken}
Row == [id : DownloadId, cust : Customer, ended : BOOLEAN]
Run == [tree : Tree, id : DownloadId, cust : Customer, embed : BOOLEAN, keep : BOOLEAN,
        n : SiteCounts, next : 1 .. Sites + 2, clean : BOOLEAN]

\* Types.  stamp_download.py l.139 ("Ledger ALWAYS records the customer (even in privacy
\* mode)"): a row that can be read has one, in whatever mode its run was.
StampTypeOK ==
    /\ tree \in [Tree -> [Site -> File]]
    /\ job \in Run \cup {Idle}
    /\ ledger \in Seq(Row \cup {Broken, Fragment})
    /\ runs \in 0 .. MaxRuns
    /\ given \subseteq [id : DownloadId, cust : Customer]
    /\ copies \subseteq [run : Run, files : [Site -> File]]
    /\ leak \in [Site -> File]
    /\ from \subseteq copies

\* A run asked for fewer sites than one before it on the same tree: the rest of the
\* sites hold what that one wrote.
Leftover(copy) == \E s \in Site : s > copy.run.n /\ copy.files[s] # Absent

\* One download id was given to two customers (--download-id).
Shared(id) == \E g, h \in given : g.id = id /\ h.id = id /\ g.cust # h.cust

\* attribute_leak.py l.15-16 ("a forged/edited artefact is reported as such rather
\* than mis-attributed"): whatever was stripped, altered, forged or mixed, and however
\* often stamping died and trees were used again, a record reported as ok names only
\* a customer whose copy went into the build.  Not so, and left out: a build with a copy
\* that holds stamps of an earlier run (Leftover), for it names that run's customer too;
\* and an id given to two customers (Shared), for the ledger names the later one.
OkNamesContributors ==
    \A s \in Site : Greps(leak[s]) /\ IsOk(leak[s]) =>
        \A cust \in Customer : Names(leak[s], cust) =>
            \/ \E copy \in from : copy.run.cust = cust
            \/ \E copy \in from : Leftover(copy)
            \/ Shared(leak[s].payload.id)

\* A copy can be attributed: it carries its customer, or its row is in the ledger.
Traceable(run) == run.embed \/ (run.keep /\ run.clean)

\* stamp_download.py l.71-72 ("stripping one copy does not defeat attribution; the
\* recover side only needs ONE surviving, signature-valid copy"): as long as one stamp
\* of a traceable copy is left, in privacy mode too, its customer is named, whichever
\* copies, forgeries and other stamps lie beside it.  Left out are an id given to two
\* customers (Shared), builds with stamps of an earlier run (Leftover), and copies nothing
\* traces (~Traceable): privacy mode without a ledger, or a row glued to an open line.
SurvivorNames ==
    \A copy \in from, s \in Site :
        /\ s <= copy.run.n /\ leak[s] = copy.files[s]
        /\ ~Shared(copy.run.id)
        /\ \A other \in from : ~Leftover(other)
        /\ \A other \in from : other.run.id = copy.run.id => Traceable(other.run)
        => \A file \in MetFirst(s) : IsOk(file) /\ Names(file, copy.run.cust)

\* What is left of stamp_download.py l.121-123 ("the distributed build contains no
\* customer identity") when trees are used again: a privacy copy has a genuine stamp
\* without a customer at every site its run was asked for, whatever an earlier run, for
\* whomever, left there whole or broken.  The sites it was not asked for are left out:
\* there an earlier customer's identity stays (Leftover), against that text.
PrivacyKept ==
    \A copy \in copies : ~copy.run.embed =>
        \A s \in Site : s <= copy.run.n =>
            /\ copy.files[s] \notin {Absent, Broken}
            /\ IsOk(copy.files[s]) /\ copy.files[s].payload.cust = NoCustomer

\* Attribution may be needed years later: a download id the ledger resolves from a
\* whole row stays resolved, whatever run dies while it appends (_append_ledger).
ResolvedForGood ==
    [][\A id \in DownloadId : (\E i \in Rows(id) : ledger[i].ended) => Rows(id)' # {}]_stampVars

\* attribute_leak.py l.145 ("embedded signed blobs (licence tokens AND download
\* stamps)"), l.21, stamp_download.py l.6: a scan reports the genuine licence tokens
\* of a build.
TokensFound ==
    \A s \in Site :
        leak[s] \notin {Absent, Broken} /\ leak[s].payload.type = "license" /\ IsOk(leak[s])
        => Greps(leak[s])
=============================================================================
