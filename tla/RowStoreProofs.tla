--------------------------- MODULE RowStoreProofs ---------------------------
(***************************************************************************)
(* RowStore for all documents, clients, calls and faults: what is stored   *)
(* is accounted for, and the driver implements StoreContract.  RowInv is   *)
(* the inductive invariant: what each open transaction may rely on         *)
(* (TxOK), what two of them exclude (Apart), and RowsAccounted.            *)
(***************************************************************************)
EXTENDS RowStore, TLAPS

\* The row a transaction has locked is still as its statement found it: what
\* it is about to commit and to answer is what the contract asks of what is
\* there now.
Pending(c) ==
    LET a == calls[c].ask
    IN  /\ a.op \in {"create", "upsert", "delete", "delete_if", "mutate"}
        /\ calls[c].has = {a.key}
        /\ calls[c].answer = Contract!Answer(a, Holds[a.key])
        /\ calls[c].new = Contract!After(a, Holds[a.key])
        /\ Claims(a) \/ row[a.key] # Absent

\* What a transaction may rely on until it ends.
TxOK(c) ==
    LET a == calls[c].ask
    IN  /\ calls[c].pc = "unknown" => Claims(a) /\ calls[c].claim = "none" /\ calls[c].has = {}
        /\ calls[c].pc = "claimed" =>
              Claims(a) /\ calls[c].claim \in {"share", "insert"} /\ calls[c].has = {}
        /\ calls[c].pc \in {"written", "decided"} =>
              calls[c].claim \in IF Claims(a) THEN {"share", "insert"} ELSE {"none"}
        /\ calls[c].pc = "written" => Pending(c)
        /\ calls[c].pc = "decided" => a.op # "purge" /\ calls[c].has = {}
        /\ calls[c].pc = "purging" =>
              /\ a.op = "purge" /\ calls[c].claim = "update"
              /\ calls[c].has \subseteq Of(a.tenant)
        /\ calls[c].pc = "purged" =>
              a.op = "purge" /\ calls[c].answer \in {"done", "absent"} /\ calls[c].found = Absent
        /\ Open(c) /\ calls[c].claim = "share" => TenantOf(c) \in tenants

\* Who has a tenant's row for itself has it alone.
Apart(c, o) ==
    Open(c) /\ Open(o) /\ Exclusive(c) => ~ ClaimedBy(o, TenantOf(c))

RowInv ==
    /\ TypeOK
    /\ \A c \in Clients : TxOK(c)
    /\ \A c, o \in Clients : c # o => Apart(c, o)
    /\ RowsAccounted

-----------------------------------------------------------------------------
(* Records.                                                                *)

\* A call's own record is replaced, and no other.
LEMMA AtType ==
    ASSUME TypeOK, NEW c \in Clients, NEW s \in Calls, At(c, s)
    PROVE  /\ calls' \in [Clients -> Calls] /\ calls'[c] = s
           /\ \A o \in Clients : o # c => calls'[o] = calls[o]
BY DEF At, TypeOK

\* An open transaction's record.
LEMMA OpenCall ==
    ASSUME TypeOK, NEW c \in Clients
    PROVE  /\ calls[c].pc # "idle" => calls[c].ask \in Asks
           /\ Open(c) => /\ calls[c].claim \in {"none", "share", "insert", "update"}
                         /\ calls[c].has \subseteq Keys
                         /\ calls[c].new \in Maybe /\ calls[c].answer \in Answers
                         /\ calls[c].found = Absent
           /\ calls[c].pc \in {"purged", "done"} =>
                 calls[c].answer \in Answers /\ calls[c].found \in Maybe
BY DEF TypeOK, Calls, Open

\* The record of a transaction that goes on.
LEMMA TxType ==
    ASSUME NEW c \in Clients, calls[c].ask \in Asks,
           NEW pc \in {"unknown", "claimed", "written", "decided", "purging"},
           NEW claim \in {"none", "share", "insert", "update"}, NEW has \in SUBSET Keys,
           NEW new \in Maybe, NEW answer \in Answers
    PROVE  Tx(c, pc, claim, has, new, answer) \in Calls /\ Begins(c, pc, claim) \in Calls
BY DEF Tx, Begins, Calls, Maybe, Answers

\* The record of a call that is over.
LEMMA AnsweredType ==
    ASSUME NEW c \in Clients, calls[c].ask \in Asks, NEW answer \in Answers, NEW found \in Maybe
    PROVE  /\ Answered(c, answer, found) \in Calls
           /\ [Answered(c, answer, found) EXCEPT !.pc = "purged"]
                 = [pc |-> "purged", ask |-> calls[c].ask, answer |-> answer, found |-> found]
           /\ [Answered(c, answer, found) EXCEPT !.pc = "purged"] \in Calls
BY DEF Answered, Calls

\* What the assumption says of a call.
LEMMA AskType ==
    ASSUME NEW a \in Asks
    PROVE  /\ a.op \in {"create", "upsert", "delete", "delete_if", "mutate", "get", "purge"}
           /\ a.op = "purge" => a.tenant \in Tenants
           /\ a.op # "purge" => a.key \in Keys /\ a.key.tenant \in Tenants
           /\ a.op \in {"create", "upsert"} => a.doc \in Docs
           /\ a.op = "upsert" => a.key.kind # "entity"
           /\ a.op = "mutate" => a.val \in Nat
BY RowStoreAssumption DEF Tenants

\* Locks and what is pending are told by the record and the row.
LEMMA OwnStep ==
    ASSUME RowInv, NEW c \in Clients, NEW s \in Calls, At(c, s),
           UNCHANGED <<time, row, index>>, tenants \subseteq tenants', tenants' \subseteq Tenants,
           asked' \in 0..MaxCalls, faults' \in 0..MaxFaults,
           TxOK(c)',
           \A o \in Clients \ {c} : Open(c)' /\ Open(o) => calls'[c].has \cap calls[o].has = {},
           \A o \in Clients \ {c} : Apart(c, o)' /\ Apart(o, c)'
    PROVE  RowInv'
<1>. USE DEF RowInv
<1>1. /\ calls' \in [Clients -> Calls] /\ calls'[c] = s
      /\ \A o \in Clients : o # c => calls'[o] = calls[o]
  BY AtType
<1>2. TypeOK'
  BY <1>1 DEF TypeOK, Open
<1>3. ASSUME NEW o \in Clients PROVE TxOK(o)'
  <2>1. CASE o = c
    BY <2>1
  <2>2. CASE o # c
    <3>1. TxOK(o) /\ calls'[o] = calls[o]
      BY <1>1, <2>2
    <3>2. Holds' = Holds
      BY DEF Holds, Gone, Expired
    <3>3. Pending(o)' = Pending(o)
      BY <3>1, <3>2 DEF Pending, Contract!Answer, Contract!After
    <3>. QED
      BY <3>1, <3>3 DEF TxOK, Open, TenantOf, Claims, Of
  <2>. QED
    BY <2>1, <2>2
<1>4. ASSUME NEW o \in Clients, NEW d \in Clients, o # d PROVE Apart(o, d)'
  BY <1>1, <1>4 DEF Apart, Open, Exclusive, ClaimedBy, TenantOf
<1>5. RowsAccounted'
  BY DEF RowsAccounted, index_rows, IsRegistration
<1>. QED
  BY <1>2, <1>3, <1>4, <1>5

\* A call that is not in a transaction holds nothing.
LEMMA OwnClosed ==
    ASSUME RowInv, NEW c \in Clients, NEW s \in Calls, At(c, s), s.pc \in {"idle", "asked", "done"},
           UNCHANGED <<time, row, index>>, tenants \subseteq tenants', tenants' \subseteq Tenants,
           asked' \in 0..MaxCalls, faults' \in 0..MaxFaults
    PROVE  RowInv'
<1>1. calls'[c] = s
  BY AtType DEF RowInv
<1>2. TxOK(c)' /\ ~ Open(c)'
  BY <1>1 DEF TxOK, Open
<1>. QED
  BY <1>2, OwnStep DEF Apart

-----------------------------------------------------------------------------
(* Statements.                                                             *)

OneStatement(c) ==
    Create(c) \/ Upsert(c) \/ Delete(c) \/ delete_if(c) \/ Mutate(c) \/ Get(c)

\* What a statement comes to, whichever it is.  seen is what is there for
\* anybody, and the contract says what becomes of it.
Locking(c, new, answer) ==
    LET a == calls[c].ask
        seen == Holds[a.key]
    IN  /\ RowFree(c, a.key)
        /\ At(c, Tx(c, "written", ClaimOf(c), {a.key}, new, answer))
        /\ new = Contract!After(a, seen) /\ answer = Contract!Answer(a, seen)
        /\ a.op # "get" /\ (Claims(a) \/ row[a.key] # Absent)
Deciding(c, answer) ==
    LET a == calls[c].ask
        seen == Holds[a.key]
    IN  /\ At(c, Tx(c, "decided", ClaimOf(c), {}, Absent, answer))
        /\ Contract!After(a, seen) = seen /\ answer = Contract!Answer(a, seen)
        /\ a.op # "get"
Finding(c, answer, found) ==
    LET a == calls[c].ask
        seen == Holds[a.key]
    IN  /\ At(c, Answered(c, answer, found))
        /\ Contract!After(a, seen) = seen /\ answer = Contract!Answer(a, seen)
        /\ found = Contract!Found(a, seen)

Outcome(c) ==
    \/ \E new \in Maybe, answer \in Answers : Locking(c, new, answer)
    \/ \E answer \in Answers : Deciding(c, answer)
    \/ \E answer \in Answers, found \in Maybe : Finding(c, answer, found)

LEMMA StatementOutcome ==
    ASSUME RowInv, NEW c \in Clients, OneStatement(c)
    PROVE  /\ Outcome(c) /\ calls[c].pc = IF Claims(calls[c].ask) THEN "claimed" ELSE "asked"
           /\ calls[c].ask.op # "purge" /\ UNCHANGED <<time, row, index, tenants, asked, faults>>
<1>. DEFINE a == calls[c].ask
            k == a.key
            d == row[k]
            seen == Holds[k]
<1>. USE DEF RowInv
<1>1. /\ calls[c].pc = IF Claims(a) THEN "claimed" ELSE "asked"
      /\ a.op \in {"create", "upsert", "delete", "delete_if", "mutate", "get"}
  BY DEF OneStatement, Create, Upsert, Delete, delete_if, Mutate, Get, Ready
<1>2. a \in Asks /\ k \in Keys
  BY <1>1, OpenCall, AskType
<1>3. d \in Maybe /\ seen = IF Gone(k) THEN Absent ELSE d
  BY <1>2 DEF TypeOK, Holds
<1>4. ~ Gone(k) => d \in Docs /\ d # Absent /\ seen = d
  BY <1>3 DEF Gone, Maybe
<1>5. UNCHANGED <<time, row, index, tenants, asked, faults>>
  BY DEF OneStatement, Create, Upsert, Delete, delete_if, Mutate, Get, Writes, Decides, Finds
<1>6. Absent \in Maybe /\ {"created", "done", "refused", "absent"} \subseteq Answers
  BY DEF Maybe, Answers
<1>7. ASSUME Create(c) PROVE Outcome(c)
  <2>1. a.op = "create" /\ a.doc \in Docs /\ Claims(a)
    BY <1>7, <1>2, AskType DEF Create, Ready, Claims
  <2>2. CASE Gone(k)
    <3>1. Writes(c, a.doc, "created")
      BY <1>7, <2>2 DEF Create
    <3>2. a.doc = Contract!After(a, seen) /\ "created" = Contract!Answer(a, seen)
      BY <2>1, <2>2, <1>3 DEF Contract!After, Contract!Answer
    <3>. QED
      BY <2>1, <3>1, <3>2, <1>1, <1>2, <1>6 DEF Outcome, Locking, Writes, Maybe
  <2>3. CASE ~ Gone(k)
    <3>1. Decides(c, "refused")
      BY <1>7, <2>3 DEF Create
    <3>2. seen = Contract!After(a, seen) /\ "refused" = Contract!Answer(a, seen)
      BY <2>1, <2>3, <1>4 DEF Contract!After, Contract!Answer
    <3>. QED
      BY <2>1, <3>1, <3>2, <1>1, <1>6 DEF Outcome, Deciding, Decides
  <2>. QED
    BY <2>2, <2>3
<1>8. ASSUME Upsert(c) PROVE Outcome(c)
  <2>. DEFINE said == IF d = Absent THEN "created" ELSE "done"
  <2>1. a.op = "upsert" /\ a.doc \in Docs /\ Claims(a) /\ ~ IsEntity(k)
    BY <1>8, <1>2, AskType DEF Upsert, Ready, Claims, IsEntity
  <2>2. Writes(c, a.doc, said)
    BY <1>8 DEF Upsert
  <2>3. seen = d
    BY <2>1, <1>3 DEF Gone, Expired
  <2>4. a.doc = Contract!After(a, seen) /\ said = Contract!Answer(a, seen)
    BY <2>1, <2>3 DEF Contract!After, Contract!Answer
  <2>5. said \in Answers /\ a.doc \in Maybe
    BY <2>1, <1>6 DEF Maybe
  <2>. HIDE DEF said
  <2>. QED
    BY <2>1, <2>2, <2>4, <2>5, <1>1, <1>2 DEF Outcome, Locking, Writes
<1>9. ASSUME Delete(c) PROVE Outcome(c)
  <2>1. a.op = "delete"
    BY <1>9 DEF Delete, Ready
  <2>2. CASE Gone(k)
    <3>1. Finding(c, "absent", Absent)
      BY <1>3, <1>9, <2>1, <2>2 DEF Delete, Finds, Finding, Contract!After, Contract!Answer, Contract!Found
    <3>. QED
      BY <3>1, <1>6 DEF Outcome
  <2>3. CASE ~ Gone(k)
    <3>1. Writes(c, Absent, "done")
      BY <1>9, <2>3 DEF Delete
    <3>2. Absent = Contract!After(a, seen) /\ "done" = Contract!Answer(a, seen)
      BY <2>1, <2>3, <1>4 DEF Contract!After, Contract!Answer
    <3>. QED
      BY <2>1, <2>3, <3>1, <3>2, <1>1, <1>2, <1>4, <1>6 DEF Outcome, Locking, Writes
  <2>. QED
    BY <2>2, <2>3
<1>10. ASSUME delete_if(c) PROVE Outcome(c)
  <2>1. a.op = "delete_if"
    BY <1>10 DEF delete_if, Ready
  <2>2. CASE Gone(k)
    <3>1. Finding(c, "absent", Absent)
      BY <1>3, <1>10, <2>1, <2>2 DEF delete_if, Finds, Finding, Contract!After, Contract!Answer, Contract!Found
    <3>. QED
      BY <3>1, <1>6 DEF Outcome
  <2>3. CASE ~ Gone(k) /\ d.val \in a.keep
    <3>1. Writes(c, Absent, "done")
      BY <1>10, <2>3 DEF delete_if
    <3>2. Absent = Contract!After(a, seen) /\ "done" = Contract!Answer(a, seen)
      BY <2>1, <2>3, <1>4 DEF Contract!After, Contract!Answer
    <3>. QED
      BY <2>1, <2>3, <3>1, <3>2, <1>1, <1>2, <1>4, <1>6 DEF Outcome, Locking, Writes
  <2>4. CASE ~ Gone(k) /\ d.val \notin a.keep
    <3>1. Decides(c, "absent")
      BY <1>10, <2>4 DEF delete_if
    <3>2. seen = Contract!After(a, seen) /\ "absent" = Contract!Answer(a, seen)
      BY <2>1, <2>4, <1>4 DEF Contract!After, Contract!Answer
    <3>. QED
      BY <2>1, <3>1, <3>2, <1>1, <1>6 DEF Outcome, Deciding, Decides
  <2>. QED
    BY <2>2, <2>3, <2>4
<1>11. ASSUME Mutate(c) PROVE Outcome(c)
  <2>. DEFINE e == [val |-> a.val, till |-> d.till, inst |-> 0]
  <2>1. a.op = "mutate" /\ a.val \in Nat
    BY <1>11, <1>2, AskType DEF Mutate, Ready
  <2>2. CASE Gone(k)
    <3>1. Finding(c, "absent", Absent)
      BY <1>3, <1>11, <2>1, <2>2 DEF Mutate, Finds, Finding, Contract!After, Contract!Answer, Contract!Found
    <3>. QED
      BY <3>1, <1>6 DEF Outcome
  <2>3. CASE ~ Gone(k) /\ d.val \notin a.refuses
    <3>1. Writes(c, e, "done")
      BY <1>11, <2>3 DEF Mutate
    <3>2. e \in Maybe /\ d.inst = 0
      BY <2>1, <2>3, <1>4 DEF Maybe, Docs
    <3>3. e = Contract!After(a, seen) /\ "done" = Contract!Answer(a, seen)
      BY <2>1, <2>3, <3>2, <1>4 DEF Contract!After, Contract!Answer
    <3>. HIDE DEF e
    <3>. QED
      BY <2>1, <2>3, <3>1, <3>2, <3>3, <1>1, <1>2, <1>4, <1>6 DEF Outcome, Locking, Writes
  <2>4. CASE ~ Gone(k) /\ d.val \in a.refuses
    <3>1. Decides(c, "refused")
      BY <1>11, <2>4 DEF Mutate
    <3>2. seen = Contract!After(a, seen) /\ "refused" = Contract!Answer(a, seen)
      BY <2>1, <2>4, <1>4 DEF Contract!After, Contract!Answer
    <3>. QED
      BY <2>1, <3>1, <3>2, <1>1, <1>6 DEF Outcome, Deciding, Decides
  <2>. QED
    BY <2>2, <2>3, <2>4
<1>12. ASSUME Get(c) PROVE Outcome(c)
  <2>. DEFINE said == IF Gone(k) THEN "absent" ELSE "done"
  <2>1. a.op = "get"
    BY <1>12 DEF Get, Ready
  <2>2. Finding(c, said, seen)
    BY <1>3, <1>4, <1>12, <2>1 DEF Get, Finds, Finding, Contract!After, Contract!Answer, Contract!Found
  <2>3. said \in Answers /\ seen \in Maybe
    BY <1>3, <1>6
  <2>. QED
    BY <2>2, <2>3 DEF Outcome
<1>. QED
  BY <1>1, <1>5, <1>7, <1>8, <1>9, <1>10, <1>11, <1>12 DEF OneStatement

-----------------------------------------------------------------------------
(* The invariant.                                                          *)

LEMMA RowStart == Init => RowInv
<1>. SUFFICES ASSUME Init PROVE RowInv
  OBVIOUS
<1>1. TypeOK
  BY RowStoreAssumption DEF Init, TypeOK, Idle, Calls, Open, Maybe, Tenants
<1>2. \A c \in Clients : TxOK(c) /\ ~ Open(c)
  BY DEF Init, Idle, TxOK, Open
<1>3. RowsAccounted
  BY DEF Init, RowsAccounted, index_rows
<1>. QED
  BY <1>1, <1>2, <1>3 DEF RowInv, Apart

\* A statement locks its document's row, decides, or finds nothing to lock.
LEMMA StatementStep ==
    ASSUME RowInv, NEW c \in Clients, OneStatement(c)
    PROVE  RowInv'
<1>. USE DEF RowInv
<1>. DEFINE a == calls[c].ask
<1>1. /\ Outcome(c) /\ calls[c].pc = IF Claims(a) THEN "claimed" ELSE "asked"
      /\ a.op # "purge" /\ UNCHANGED <<time, row, index, tenants, asked, faults>>
  BY StatementOutcome
<1>2. a \in Asks /\ a.key \in Keys /\ calls \in [Clients -> Calls]
      /\ a.op \in {"create", "upsert", "delete", "delete_if", "mutate", "get"}
  BY <1>1, OpenCall, AskType DEF TypeOK
<1>3. /\ ClaimOf(c) \in IF Claims(a) THEN {"share", "insert"} ELSE {"none"}
      /\ Claims(a) => Open(c) /\ ClaimOf(c) = calls[c].claim
  BY <1>1 DEF TxOK, ClaimOf, Open
<1>4. ASSUME NEW s, At(c, s), s.ask = a, s.pc \in {"written", "decided"}, s.claim = ClaimOf(c),
             NEW o \in Clients \ {c}
      PROVE  Apart(c, o)' /\ Apart(o, c)'
  <2>1. calls'[c] = s /\ calls'[o] = calls[o]
    BY <1>2, <1>4 DEF At
  <2>2. Apart(c, o) /\ Apart(o, c)
    OBVIOUS
  <2>3. CASE Claims(a)
    BY <1>1, <1>3, <1>4, <2>1, <2>2, <2>3 DEF Apart, Open, Exclusive, ClaimedBy, TenantOf
  <2>4. CASE ~ Claims(a)
    <3>1. s.claim = "none"
      BY <1>3, <1>4, <2>4
    <3>. QED
      BY <2>1, <3>1 DEF Apart, Exclusive, ClaimedBy
  <2>. QED
    BY <2>3, <2>4
<1>5. ASSUME NEW new \in Maybe, NEW answer \in Answers, Locking(c, new, answer) PROVE RowInv'
  <2>. DEFINE s == Tx(c, "written", ClaimOf(c), {a.key}, new, answer)
  <2>1. At(c, s) /\ RowFree(c, a.key)
    BY <1>5 DEF Locking
  <2>2. s \in Calls
    BY <1>2, <1>3, TxType
  <2>3. calls'[c] = s
    BY <1>2, <2>1 DEF At
  <2>4. /\ s.pc = "written" /\ s.ask = a /\ s.claim = ClaimOf(c) /\ s.has = {a.key}
        /\ s.new = new /\ s.answer = answer
    BY DEF Tx
  <2>5. Pending(c)'
    <3>1. Holds' = Holds
      BY <1>1 DEF Holds, Gone, Expired
    <3>2. calls'[c].ask = a /\ calls'[c].has = {a.key} /\ calls'[c].new = new /\ calls'[c].answer = answer
      BY <2>3, <2>4
    <3>3. Contract!Answer(calls[c].ask, Holds[calls[c].ask.key])' = Contract!Answer(a, Holds[a.key])
      BY <3>1, <3>2 DEF Contract!Answer
    <3>4. Contract!After(calls[c].ask, Holds[calls[c].ask.key])' = Contract!After(a, Holds[a.key])
      BY <3>1, <3>2 DEF Contract!After
    <3>5. /\ new = Contract!After(a, Holds[a.key]) /\ answer = Contract!Answer(a, Holds[a.key])
          /\ a.op \in {"create", "upsert", "delete", "delete_if", "mutate"}
          /\ Claims(a) \/ row[a.key] # Absent
      BY <1>2, <1>5 DEF Locking
    <3>. HIDE DEF a
    <3>. QED
      BY <1>1, <3>2, <3>3, <3>4, <3>5 DEF Pending, Claims
  <2>6. TxOK(c)'
    <3>1. s.claim = "share" => TenantOf(c) \in tenants
      BY <1>1, <1>3, <2>4 DEF TxOK
    <3>2. TenantOf(c)' = TenantOf(c)
      BY <2>3, <2>4 DEF TenantOf
    <3>. QED
      BY <1>1, <1>3, <2>3, <2>4, <2>5, <3>1, <3>2 DEF TxOK, Claims
  <2>7. \A o \in Clients \ {c} : Open(c)' /\ Open(o) => calls'[c].has \cap calls[o].has = {}
    BY <2>1, <2>3, <2>4 DEF RowFree, Others
  <2>8. \A o \in Clients \ {c} : Apart(c, o)' /\ Apart(o, c)'
    BY <1>4, <2>1, <2>4
  <2>. HIDE DEF s
  <2>. QED
    BY <1>1, <2>1, <2>2, <2>6, <2>7, <2>8, OwnStep DEF TypeOK
<1>6. ASSUME NEW answer \in Answers, Deciding(c, answer) PROVE RowInv'
  <2>. DEFINE s == Tx(c, "decided", ClaimOf(c), {}, Absent, answer)
  <2>1. At(c, s)
    BY <1>6 DEF Deciding
  <2>2. s \in Calls
    BY <1>2, <1>3, TxType DEF Maybe
  <2>3. calls'[c] = s
    BY <1>2, <2>1 DEF At
  <2>4. s.pc = "decided" /\ s.ask = a /\ s.claim = ClaimOf(c) /\ s.has = {}
    BY DEF Tx
  <2>6. TxOK(c)'
    <3>1. s.claim = "share" => TenantOf(c) \in tenants
      BY <1>1, <1>3, <2>4 DEF TxOK
    <3>2. TenantOf(c)' = TenantOf(c)
      BY <2>3, <2>4 DEF TenantOf
    <3>. QED
      BY <1>1, <1>3, <2>3, <2>4, <3>1, <3>2 DEF TxOK, Claims
  <2>7. \A o \in Clients \ {c} : Open(c)' /\ Open(o) => calls'[c].has \cap calls[o].has = {}
    BY <2>3, <2>4
  <2>8. \A o \in Clients \ {c} : Apart(c, o)' /\ Apart(o, c)'
    BY <1>4, <2>1, <2>4
  <2>. HIDE DEF s
  <2>. QED
    BY <1>1, <2>1, <2>2, <2>6, <2>7, <2>8, OwnStep DEF TypeOK
<1>7. ASSUME NEW answer \in Answers, NEW found \in Maybe, Finding(c, answer, found) PROVE RowInv'
  <2>1. At(c, Answered(c, answer, found)) /\ Answered(c, answer, found) \in Calls
    BY <1>2, <1>7, AnsweredType DEF Finding
  <2>2. Answered(c, answer, found).pc = "done"
    BY DEF Answered
  <2>. QED
    BY <1>1, <2>1, <2>2, OwnClosed DEF TypeOK
<1>. QED
  BY <1>1, <1>5, <1>6, <1>7 DEF Outcome

\* What a transaction is about to commit stays right as long as the row it
\* has locked stays.
LEMMA PendingStays ==
    ASSUME NEW o \in Clients, calls'[o] = calls[o], time' = time, Pending(o),
           calls[o].ask.key \in Keys, row'[calls[o].ask.key] = row[calls[o].ask.key]
    PROVE  Pending(o)'
<1>. DEFINE a == calls[o].ask
<1>1. Holds'[a.key] = Holds[a.key] /\ calls'[o].ask = a
  BY DEF Holds, Gone, Expired, IsEntity
<1>2. Contract!Answer(calls[o].ask, Holds[calls[o].ask.key])' = Contract!Answer(a, Holds[a.key])
  BY <1>1 DEF Contract!Answer
<1>3. Contract!After(calls[o].ask, Holds[calls[o].ask.key])' = Contract!After(a, Holds[a.key])
  BY <1>1 DEF Contract!After
<1>. QED
  BY <1>1, <1>2, <1>3 DEF Pending, Claims

\* A transaction's end, or the reaper, changes rows and frees what others do
\* not have: what they rely on stays.
LEMMA RowsStep ==
    ASSUME RowInv, NEW c \in Clients, NEW S \in SUBSET Keys, TypeOK', time' = time,
           \A o \in Clients \ {c} : calls'[o] = calls[o],
           \A k \in Keys \ S : row'[k] = row[k],
           \A o \in Clients \ {c} : Open(o) => calls[o].has \cap S = {},
           \A o \in Clients \ {c} : Open(o) /\ calls[o].claim = "share" => TenantOf(o) \in tenants',
           TxOK(c)', ~ Open(c)', RowsAccounted'
    PROVE  RowInv'
<1>1. ASSUME NEW o \in Clients \ {c} PROVE TxOK(o)'
  <2>1. /\ Open(o)' = Open(o) /\ TenantOf(o)' = TenantOf(o) /\ calls'[o] = calls[o]
        /\ Claims(calls[o].ask)' = Claims(calls[o].ask) /\ Of(calls[o].ask.tenant)' = Of(calls[o].ask.tenant)
    BY DEF Open, TenantOf, Claims, Of
  <2>2. calls[o].pc = "written" => Pending(o)'
    <3>1. SUFFICES ASSUME calls[o].pc = "written" PROVE Pending(o)'
      OBVIOUS
    <3>2. Pending(o) /\ calls[o].has = {calls[o].ask.key} /\ Open(o)
      BY <3>1 DEF RowInv, TxOK, Pending, Open
    <3>3. calls[o].ask.key \in Keys \ S
      <4>1. calls[o].has \subseteq Keys
        BY <3>2, OpenCall DEF RowInv
      <4>. QED
        BY <3>2, <4>1
    <3>. QED
      BY <3>2, <3>3, PendingStays
  <2>3. TxOK(o)
    BY DEF RowInv
  <2>. QED
    BY <2>1, <2>2, <2>3 DEF TxOK
<1>2. ASSUME NEW o \in Clients, NEW d \in Clients, o # d PROVE Apart(o, d)'
  <2>1. CASE o = c \/ d = c
    BY <2>1 DEF Apart
  <2>2. CASE o # c /\ d # c
    <3>1. Apart(o, d) /\ calls'[o] = calls[o] /\ calls'[d] = calls[d]
      BY <1>2, <2>2 DEF RowInv
    <3>. QED
      BY <3>1 DEF Apart, Open, Exclusive, ClaimedBy, TenantOf
  <2>. QED
    BY <2>1, <2>2
<1>. QED
  BY <1>1, <1>2 DEF RowInv

\* Commit: the row, its match rows and the tenant's row at once.
LEMMA CommitStep ==
    ASSUME RowInv, NEW c \in Clients, Commit(c)
    PROVE  RowInv'
<1>. DEFINE a == calls[c].ask
            k == a.key
            new == calls[c].new
            s == Answered(c, calls[c].answer, Absent)
<1>1. /\ calls[c].pc = "written" /\ Open(c) /\ At(c, s) /\ row' = [row EXCEPT ![k] = new]
      /\ index' = [index EXCEPT ![k] =
             IF a.op = "mutate" /\ index_rows(k, row[k]) = index_rows(k, new)
             THEN @ ELSE index_rows(k, new)]
      /\ tenants' = Claimed(c) /\ UNCHANGED <<time, asked, faults>>
  BY DEF Commit, Open
<1>2. TypeOK /\ RowsAccounted /\ TxOK(c)
  BY DEF RowInv
<1>3. Pending(c) /\ calls[c].has = {k} /\ a.op # "purge" /\ a \in Asks /\ new \in Maybe
      /\ calls[c].answer \in Answers
  BY <1>1, <1>2, OpenCall DEF TxOK, Pending
<1>4. k \in Keys /\ TenantOf(c) = k.tenant /\ k.tenant \in Tenants
  BY <1>3, AskType DEF TenantOf
<1>5. s \in Calls /\ s.pc = "done"
  BY <1>3, AnsweredType DEF Answered, Maybe
<1>6. /\ calls' \in [Clients -> Calls] /\ calls'[c] = s
      /\ \A o \in Clients : o # c => calls'[o] = calls[o]
  BY <1>1, <1>2, <1>5, AtType
<1>7. tenants \subseteq tenants' /\ tenants' \subseteq Tenants
  BY <1>1, <1>2, <1>4 DEF Claimed, TypeOK
<1>8. index_rows(k, new) \in Nat \cup {Absent}
  BY <1>3 DEF index_rows, Maybe, Docs
<1>9. TxOK(c)' /\ ~ Open(c)'
  BY <1>5, <1>6 DEF TxOK, Open
<1>10. ASSUME NEW o \in Clients \ {c}, Open(o) PROVE calls[o].has \cap {k} = {}
  BY <1>1, <1>2, <1>3, <1>10 DEF TypeOK
<1>11. TypeOK'
  <2>1. row' \in [Keys -> Maybe] /\ index' \in [Keys -> Nat \cup {Absent}]
    BY <1>1, <1>2, <1>3, <1>8 DEF TypeOK
  <2>2. ASSUME NEW o \in Clients, NEW d \in Clients, o # d, Open(o)', Open(d)'
        PROVE  calls'[o].has \cap calls'[d].has = {}
    <3>1. o # c /\ d # c
      BY <2>2, <1>9
    <3>. QED
      BY <2>2, <3>1, <1>2, <1>6 DEF TypeOK, Open
  <2>. QED
    BY <2>1, <2>2, <1>1, <1>2, <1>6, <1>7 DEF TypeOK
<1>12. RowsAccounted'
  <2>1. new # Absent => k.tenant \in tenants'
    <3>1. CASE Claims(a)
      BY <3>1, <1>1, <1>2, <1>4 DEF TxOK, Claimed
    <3>2. CASE ~ Claims(a)
      BY <3>2, <1>2, <1>3, <1>4, <1>7 DEF Pending, RowsAccounted
    <3>. QED
      BY <3>1, <3>2
  <2>2. ASSUME NEW j \in Keys, row'[j] # Absent PROVE j.tenant \in tenants'
    BY <2>1, <2>2, <1>1, <1>2, <1>4, <1>7 DEF TypeOK, RowsAccounted
  <2>3. ASSUME NEW j \in Keys PROVE index'[j] = index_rows(j, row'[j])
    <3>1. CASE j = k
      BY <3>1, <1>1, <1>2, <1>4 DEF TypeOK, RowsAccounted
    <3>2. CASE j # k
      BY <3>2, <1>1, <1>2, <1>4 DEF TypeOK, RowsAccounted
    <3>. QED
      BY <3>1, <3>2
  <2>. QED
    BY <2>2, <2>3 DEF RowsAccounted, index_rows, IsRegistration
<1>13. \A o \in Clients \ {c} : Open(o) /\ calls[o].claim = "share" => TenantOf(o) \in tenants'
  BY <1>7 DEF RowInv, TxOK
<1>14. \A j \in Keys \ {k} : row'[j] = row[j]
  BY <1>1, <1>2 DEF TypeOK
<1>. HIDE DEF k
<1>. QED
  BY <1>1, <1>4, <1>6, <1>9, <1>10, <1>11, <1>12, <1>13, <1>14, RowsStep

\* The purge's commit: nobody who counts on the tenant is under way.
LEMMA PurgeCommitStep ==
    ASSUME RowInv, NEW c \in Clients, PurgeCommit(c)
    PROVE  RowInv'
<1>. DEFINE a == calls[c].ask
            t == TenantOf(c)
            S == calls[c].has
            s == [Answered(c, "done", Absent) EXCEPT !.pc = "purged"]
<1>1. /\ calls[c].pc = "purging" /\ Open(c) /\ At(c, s)
      /\ \A k \in Of(t) : row[k] # Absent => k \in S
      /\ row' = [k \in Keys |-> IF k \in S THEN Absent ELSE row[k]]
      /\ index' = [k \in Keys |-> IF k \in S THEN Absent ELSE index[k]]
      /\ tenants' = tenants \ ({t} \ {Default}) /\ UNCHANGED <<time, asked, faults>>
  BY DEF PurgeCommit, Open
<1>2. TypeOK /\ RowsAccounted /\ TxOK(c)
  BY DEF RowInv
<1>3. /\ a.op = "purge" /\ a \in Asks /\ Exclusive(c) /\ t = a.tenant /\ S \subseteq Of(t)
  BY <1>1, <1>2, OpenCall DEF TxOK, Exclusive, TenantOf
<1>4. /\ s \in Calls
      /\ s = [pc |-> "purged", ask |-> a, answer |-> "done", found |-> Absent]
  BY <1>3, AnsweredType DEF Answers, Maybe
<1>5. /\ calls' \in [Clients -> Calls] /\ calls'[c] = s
      /\ \A o \in Clients : o # c => calls'[o] = calls[o]
  BY <1>1, <1>2, <1>4, AtType
<1>6. TxOK(c)' /\ ~ Open(c)'
  BY <1>3, <1>4, <1>5 DEF TxOK, Open
<1>7. ASSUME NEW o \in Clients \ {c}, Open(o) PROVE calls[o].has \cap S = {}
  BY <1>1, <1>2, <1>7 DEF TypeOK
<1>8. ASSUME NEW o \in Clients \ {c}, Open(o), calls[o].claim = "share" PROVE TenantOf(o) \in tenants'
  <2>1. TxOK(o) /\ Apart(c, o)
    BY DEF RowInv
  <2>. QED
    BY <2>1, <1>1, <1>3, <1>8 DEF TxOK, Apart, ClaimedBy
<1>9. TypeOK'
  <2>1. row' \in [Keys -> Maybe] /\ index' \in [Keys -> Nat \cup {Absent}] /\ tenants' \subseteq Tenants
    BY <1>1, <1>2 DEF TypeOK, Maybe
  <2>2. ASSUME NEW o \in Clients, NEW d \in Clients, o # d, Open(o)', Open(d)'
        PROVE  calls'[o].has \cap calls'[d].has = {}
    <3>1. o # c /\ d # c
      BY <2>2, <1>6
    <3>. QED
      BY <2>2, <3>1, <1>2, <1>5 DEF TypeOK, Open
  <2>. QED
    BY <2>1, <2>2, <1>1, <1>2, <1>5 DEF TypeOK
<1>10. RowsAccounted'
  <2>1. ASSUME NEW k \in Keys, row'[k] # Absent PROVE k.tenant \in tenants'
    <3>1. k \notin S /\ row[k] # Absent /\ k.tenant \in tenants
      BY <2>1, <1>1, <1>2 DEF RowsAccounted
    <3>2. k.tenant # t
      BY <3>1, <1>1 DEF Of
    <3>. QED
      BY <3>1, <3>2, <1>1
  <2>2. ASSUME NEW k \in Keys PROVE index'[k] = index_rows(k, row'[k])
    BY <1>1, <1>2 DEF RowsAccounted, index_rows
  <2>. QED
    BY <2>1, <2>2 DEF RowsAccounted, index_rows, IsRegistration
<1>11. S \in SUBSET Keys /\ \A k \in Keys \ S : row'[k] = row[k]
  BY <1>1, <1>3 DEF Of
<1>. HIDE DEF S
<1>. QED
  BY <1>1, <1>5, <1>6, <1>7, <1>8, <1>9, <1>10, <1>11, RowsStep

\* The reaper takes no row that a transaction has.
LEMMA ReapStep ==
    ASSUME RowInv, NEW k \in Keys, Reap(k)
    PROVE  RowInv'
<1>1. /\ IsEntity(k) /\ row' = [row EXCEPT ![k] = Absent]
      /\ \A c \in Clients : Open(c) => k \notin calls[c].has
      /\ UNCHANGED <<time, index, tenants, calls, asked, faults>>
  BY DEF Reap, Expired
<1>2. TypeOK /\ RowsAccounted
  BY DEF RowInv
<1>3. TypeOK'
  BY <1>1, <1>2 DEF TypeOK, Maybe, Open
<1>4. RowsAccounted'
  BY <1>1, <1>2 DEF RowsAccounted, TypeOK, index_rows, IsRegistration, IsEntity
<1>5. ASSUME NEW c \in Clients PROVE TxOK(c)'
  <2>1. TxOK(c)
    BY DEF RowInv
  <2>2. calls[c].pc = "written" => Pending(c)'
    <3>1. SUFFICES ASSUME calls[c].pc = "written" PROVE Pending(c)'
      OBVIOUS
    <3>2. Pending(c) /\ Open(c)
      BY <2>1, <3>1 DEF TxOK, Open
    <3>3. calls[c].ask.key \in Keys \ {k}
      <4>1. calls[c].has = {calls[c].ask.key} /\ calls[c].has \subseteq Keys
        BY <1>2, <3>2, OpenCall DEF Pending
      <4>. QED
        BY <1>1, <3>2, <4>1
    <3>4. row'[calls[c].ask.key] = row[calls[c].ask.key] /\ calls'[c] = calls[c] /\ time' = time
      BY <1>1, <1>2, <3>3 DEF TypeOK
    <3>. QED
      BY <3>2, <3>3, <3>4, PendingStays
  <2>. QED
    BY <1>1, <2>1, <2>2 DEF TxOK, Open, TenantOf, Claims, Of
<1>6. ASSUME NEW c \in Clients, NEW o \in Clients, c # o PROVE Apart(c, o)'
  BY <1>1, <1>6 DEF RowInv, Apart, Open, Exclusive, ClaimedBy, TenantOf
<1>. QED
  BY <1>3, <1>4, <1>5, <1>6 DEF RowInv

\* A transaction that goes on without touching rows.
LEMMA ClaimSteps ==
    ASSUME RowInv, NEW c \in Clients,
           claim_tenant(c) \/ insert_tenant(c) \/ Purge(c) \/ (\E k \in Keys : PurgeRow(c, k))
    PROVE  RowInv'
<1>. DEFINE a == calls[c].ask
            t == TenantOf(c)
<1>1. TypeOK /\ TxOK(c) /\ tenants' = tenants /\ UNCHANGED <<time, row, index, asked, faults>>
  BY DEF RowInv, claim_tenant, insert_tenant, Purge, PurgeRow
<1>2. calls[c].pc # "idle" /\ a \in Asks
  <2>1. calls[c].pc # "idle"
    BY DEF claim_tenant, insert_tenant, Purge, PurgeRow
  <2>. QED
    BY <1>1, <2>1, OpenCall
<1>3. ASSUME NEW s \in Calls, At(c, s), s.ask = a,
             TxOK(c)', s.has = {},
             s.claim = "share" => MayShare(c, t), s.claim \in {"insert", "update"} => MayOwn(c, t)
      PROVE  RowInv'
  <2>1. calls'[c] = s /\ \A o \in Clients : o # c => calls'[o] = calls[o]
    BY <1>1, <1>3, AtType
  <2>2. TenantOf(c)' = t
    BY <2>1, <1>3 DEF TenantOf
  <2>3. ASSUME NEW o \in Clients \ {c} PROVE Apart(c, o)' /\ Apart(o, c)'
    <3>1. Open(o)' = Open(o) /\ TenantOf(o)' = TenantOf(o) /\ ClaimedBy(o, t)' = ClaimedBy(o, t)
          /\ Exclusive(o)' = Exclusive(o)
      BY <2>1, <2>2 DEF Open, TenantOf, ClaimedBy, Exclusive
    <3>2. Apart(c, o)'
      BY <1>3, <2>1, <2>2, <3>1 DEF Apart, Exclusive, ClaimedBy, MayOwn, Others
    <3>3. Apart(o, c)'
      <4>1. SUFFICES ASSUME Open(o), Exclusive(o), calls'[c].claim # "none", TenantOf(o) = t, Open(c)'
                     PROVE  FALSE
        BY <2>2, <3>1 DEF Apart, ClaimedBy
      <4>2. ClaimedBy(o, t)
        BY <4>1 DEF ClaimedBy, Exclusive
      <4>3. s.claim \in {"share", "insert", "update"}
        BY <4>1, <2>1, <1>3 DEF Calls, Open
      <4>. QED
        BY <4>1, <4>2, <4>3, <1>3 DEF MayShare, MayOwn, Others
    <3>. QED
      BY <3>2, <3>3
  <2>4. \A o \in Clients \ {c} : Open(c)' /\ Open(o) => calls'[c].has \cap calls[o].has = {}
    BY <2>1, <1>3
  <2>. QED
    BY <1>1, <1>3, <2>3, <2>4, OwnStep DEF TypeOK
<1>4. ASSUME NEW pc \in {"unknown", "claimed", "purging"},
             NEW claim \in {"none", "share", "insert", "update"}, At(c, Begins(c, pc, claim))
      PROVE  LET s == Begins(c, pc, claim)
             IN  /\ s \in Calls /\ s.pc = pc /\ s.ask = a /\ s.claim = claim /\ s.has = {}
                 /\ calls'[c] = s /\ TenantOf(c)' = t
  <2>1. Begins(c, pc, claim) \in Calls
    BY <1>2, TxType DEF Maybe, Answers
  <2>2. calls'[c] = Begins(c, pc, claim)
    BY <1>1, <1>4, <2>1, AtType
  <2>3. /\ Begins(c, pc, claim).pc = pc /\ Begins(c, pc, claim).ask = a
        /\ Begins(c, pc, claim).claim = claim /\ Begins(c, pc, claim).has = {}
    BY DEF Begins, Tx
  <2>. QED
    BY <2>1, <2>2, <2>3 DEF TenantOf
<1>5. ASSUME claim_tenant(c) PROVE RowInv'
  <2>1. CASE t \in tenants /\ MayShare(c, t) /\ At(c, Begins(c, "claimed", "share"))
    <3>1. TxOK(c)'
      BY <1>1, <1>4, <1>5, <2>1 DEF TxOK, claim_tenant, Claims
    <3>. QED
      BY <1>3, <1>4, <2>1, <3>1
  <2>2. CASE At(c, Begins(c, "unknown", "none"))
    <3>1. TxOK(c)'
      BY <1>1, <1>4, <1>5, <2>2 DEF TxOK, claim_tenant, Claims
    <3>. QED
      BY <1>3, <1>4, <2>2, <3>1
  <2>. QED
    BY <1>5, <2>1, <2>2 DEF claim_tenant
<1>6. ASSUME insert_tenant(c) PROVE RowInv'
  <2>1. At(c, Begins(c, "claimed", "insert")) /\ MayOwn(c, t) /\ Claims(a)
    BY <1>1, <1>6 DEF insert_tenant, TxOK
  <2>2. TxOK(c)'
    BY <1>1, <1>4, <2>1 DEF TxOK, Claims
  <2>. QED
    BY <1>3, <1>4, <2>1, <2>2
<1>7. ASSUME Purge(c) PROVE RowInv'
  <2>1. a.op = "purge" /\ t = a.tenant
    BY <1>7 DEF Purge, TenantOf
  <2>2. CASE At(c, [Answered(c, "absent", Absent) EXCEPT !.pc = "purged"])
    <3>. DEFINE s == [Answered(c, "absent", Absent) EXCEPT !.pc = "purged"]
    <3>1. s \in Calls /\ s = [pc |-> "purged", ask |-> a, answer |-> "absent", found |-> Absent]
      BY <1>2, AnsweredType DEF Answers, Maybe
    <3>2. calls'[c] = s
      BY <1>1, <2>2, <3>1, AtType
    <3>3. TxOK(c)' /\ ~ Open(c)'
      BY <2>1, <3>1, <3>2 DEF TxOK, Open
    <3>. HIDE DEF s
    <3>. QED
      BY <1>1, <2>2, <3>1, <3>3, OwnStep DEF TypeOK, Apart, s
  <2>3. CASE MayOwn(c, t) /\ At(c, Begins(c, "purging", "update"))
    <3>1. TxOK(c)'
      BY <1>1, <1>4, <2>1, <2>3 DEF TxOK, Of
    <3>. QED
      BY <1>3, <1>4, <2>3, <3>1
  <2>. QED
    BY <1>7, <2>2, <2>3 DEF Purge
<1>8. ASSUME NEW k \in Keys, PurgeRow(c, k) PROVE RowInv'
  <2>. DEFINE s == [calls[c] EXCEPT !.has = @ \cup {k}]
  <2>1. /\ calls[c].pc = "purging" /\ k \in Of(t) /\ RowFree(c, k) /\ At(c, s)
        /\ calls[c] \in Calls /\ a.op = "purge" /\ calls[c].claim = "update" /\ calls[c].has \subseteq Of(t)
    BY <1>1, <1>8 DEF PurgeRow, TypeOK, TxOK, TenantOf
  <2>2. /\ s \in Calls /\ s.pc = "purging" /\ s.ask = a /\ s.claim = "update"
        /\ s.has = calls[c].has \cup {k}
    BY <2>1 DEF Calls
  <2>3. calls'[c] = s /\ \A o \in Clients : o # c => calls'[o] = calls[o]
    BY <1>1, <2>1, <2>2, AtType
  <2>4. TxOK(c)'
    BY <1>1, <2>1, <2>2, <2>3 DEF TxOK, Of, TenantOf
  <2>5. ASSUME NEW o \in Clients \ {c}, Open(o) PROVE calls'[c].has \cap calls[o].has = {}
    <3>1. calls[c].has \cap calls[o].has = {}
      BY <1>1, <2>1, <2>5 DEF TypeOK, Open
    <3>. QED
      BY <2>1, <2>2, <2>3, <2>5, <3>1 DEF RowFree, Others
  <2>6. ASSUME NEW o \in Clients \ {c} PROVE Apart(c, o)' /\ Apart(o, c)'
    <3>1. Apart(c, o) /\ Apart(o, c)
      BY DEF RowInv
    <3>. QED
      BY <2>1, <2>2, <2>3, <3>1 DEF Apart, Open, Exclusive, ClaimedBy, TenantOf
  <2>. HIDE DEF s
  <2>. QED
    BY <1>1, <2>1, <2>2, <2>4, <2>5, <2>6, OwnStep DEF TypeOK
<1>. QED
  BY <1>5, <1>6, <1>7, <1>8

\* RowInv is inductive.
LEMMA RowStep == RowInv /\ [Next]_vars => RowInv'
<1>. SUFFICES ASSUME RowInv, [Next]_vars PROVE RowInv'
  OBVIOUS
<1>1. CASE UNCHANGED vars
  <2>1. ASSUME NEW c \in Clients PROVE TxOK(c)'
    <3>1. TxOK(c) /\ TypeOK
      BY DEF RowInv
    <3>2. calls[c].pc = "written" => Pending(c)'
      <4>1. SUFFICES ASSUME calls[c].pc = "written" PROVE Pending(c)'
        OBVIOUS
      <4>2. Pending(c) /\ calls[c].has = {calls[c].ask.key} /\ Open(c)
        BY <3>1, <4>1 DEF TxOK, Pending, Open
      <4>3. calls[c].ask.key \in Keys
        BY <3>1, <4>2, OpenCall
      <4>. QED
        BY <1>1, <4>2, <4>3, PendingStays DEF vars
    <3>. QED
      BY <1>1, <3>1, <3>2 DEF vars, TxOK, Open, TenantOf, Claims, Of
  <2>. QED
    BY <1>1, <2>1 DEF RowInv, vars, TypeOK, RowsAccounted, Apart, Open, Exclusive, ClaimedBy, TenantOf,
                      index_rows, IsRegistration
<1>2. TypeOK
  BY DEF RowInv
<1>3. ASSUME NEW c \in Clients, Ask(c) PROVE RowInv'
  <2>1. PICK a \in Asks : At(c, [pc |-> "asked", ask |-> a])
    BY <1>3 DEF Ask
  <2>2. [pc |-> "asked", ask |-> a] \in Calls
    BY DEF Calls
  <2>3. asked' \in 0..MaxCalls /\ UNCHANGED <<time, row, index, tenants, faults>>
    BY <1>2, <1>3, RowStoreAssumption DEF Ask, TypeOK
  <2>. QED
    BY <1>2, <2>1, <2>2, <2>3, OwnClosed DEF TypeOK
<1>4. ASSUME NEW c \in Clients, Refused(c) PROVE RowInv'
  <2>1. /\ calls[c].pc = "decided" /\ Open(c) /\ At(c, Answered(c, calls[c].answer, Absent))
        /\ tenants' = Claimed(c) /\ UNCHANGED <<time, row, index, asked, faults>>
    BY <1>4 DEF Refused, Open
  <2>2. TxOK(c)
    BY DEF RowInv
  <2>3. calls[c].ask \in Asks /\ calls[c].ask.op # "purge" /\ calls[c].answer \in Answers
    BY <1>2, <2>1, <2>2, OpenCall DEF TxOK
  <2>4. Answered(c, calls[c].answer, Absent) \in Calls /\ Answered(c, calls[c].answer, Absent).pc = "done"
    BY <2>3, AnsweredType DEF Answered, Maybe
  <2>5. TenantOf(c) \in Tenants
    BY <2>3, AskType DEF TenantOf
  <2>6. tenants \subseteq tenants' /\ tenants' \subseteq Tenants
    BY <1>2, <2>1, <2>5 DEF Claimed, TypeOK
  <2>. QED
    BY <1>2, <2>1, <2>4, <2>6, OwnClosed DEF TypeOK
<1>5. ASSUME NEW c \in Clients, Reply(c) PROVE RowInv'
  <2>1. At(c, Idle) /\ Idle \in Calls /\ Idle.pc = "idle"
    BY <1>5 DEF Reply, Idle, Calls
  <2>2. UNCHANGED <<time, row, index, tenants, asked, faults>>
    BY <1>5 DEF Reply
  <2>. QED
    BY <1>2, <2>1, <2>2, OwnClosed DEF TypeOK
<1>6. ASSUME NEW c \in Clients, Lost(c) PROVE RowInv'
  <2>1. At(c, Idle) /\ Idle \in Calls /\ Idle.pc = "idle"
    BY <1>6 DEF Lost, Idle, Calls
  <2>2. UNCHANGED <<time, row, index, tenants, asked>> /\ faults' \in 0..MaxFaults
    BY <1>2, <1>6, RowStoreAssumption DEF Lost, TypeOK
  <2>. QED
    BY <1>2, <2>1, <2>2, OwnClosed DEF TypeOK
<1>7. ASSUME NEW c \in Clients, PurgeReply(c) PROVE RowInv'
  <2>. DEFINE s == [calls[c] EXCEPT !.pc = "done"]
  <2>1. calls[c].pc = "purged" /\ At(c, s) /\ UNCHANGED <<time, row, index, tenants, asked, faults>>
    BY <1>7 DEF PurgeReply
  <2>2. s \in Calls /\ s.pc = "done"
    BY <1>2, <2>1 DEF TypeOK, Calls
  <2>. HIDE DEF s
  <2>. QED
    BY <1>2, <2>1, <2>2, OwnClosed DEF TypeOK
<1>8. ASSUME Tick PROVE RowInv'
  <2>1. /\ \A c \in Clients : ~ Open(c)
        /\ time < MaxTime /\ time' = time + 1
        /\ UNCHANGED <<row, index, tenants, calls, asked, faults>>
    BY <1>8 DEF Tick
  <2>2. \A c \in Clients : ~ Open(c)' /\ calls'[c] = calls[c]
    BY <2>1 DEF Open
  <2>3. TypeOK'
    <3>1. time' \in 0..MaxTime
      BY <1>2, <2>1, RowStoreAssumption DEF TypeOK
    <3>. QED
      BY <1>2, <2>1, <2>2, <3>1 DEF TypeOK
  <2>4. ASSUME NEW c \in Clients PROVE TxOK(c)'
    <3>1. TxOK(c)
      BY DEF RowInv
    <3>. QED
      BY <2>1, <2>2, <3>1 DEF TxOK, Open
  <2>5. RowsAccounted'
    BY <2>1 DEF RowInv, RowsAccounted, index_rows, IsRegistration
  <2>. QED
    BY <2>2, <2>3, <2>4, <2>5 DEF RowInv, Apart
<1>. QED
  BY <1>1, <1>3, <1>4, <1>5, <1>6, <1>7, <1>8, StatementStep, ClaimSteps, CommitStep, PurgeCommitStep,
     ReapStep DEF Next, Call, OneStatement

-----------------------------------------------------------------------------
(* The contract.                                                           *)

\* One client's step is seen as that client's.
LEMMA ViewStep ==
    ASSUME TypeOK, NEW c \in Clients, NEW s \in Calls, At(c, s)
    PROVE  Views' = [Views EXCEPT ![c] = View(c)']
<1>1. calls'[c] = s /\ \A o \in Clients : o # c => calls'[o] = calls[o]
  BY AtType
<1>2. ASSUME NEW o \in Clients, o # c PROVE View(o)' = View(o)
  BY <1>1, <1>2 DEF View, TenantOf, Of
<1>. QED
  BY <1>2 DEF Views

\* A committed document is what anybody may see of it.
LEMMA LiveHolds ==
    ASSUME TypeOK, NEW k \in Keys
    PROVE  /\ Holds[k] \in Maybe /\ Contract!Live(k, Holds[k], time + 1) = Holds[k]
           /\ \A d \in Maybe :
                  Contract!Live(k, d, time + 1)
                    = IF IsEntity(k) /\ d # Absent /\ d.till # 0 /\ d.till <= time THEN Absent ELSE d
<1>1. ASSUME NEW d \in Maybe
      PROVE  Contract!Live(k, d, time + 1)
               = IF IsEntity(k) /\ d # Absent /\ d.till # 0 /\ d.till <= time THEN Absent ELSE d
  <2>1. CASE d = Absent
    BY <2>1 DEF Contract!Live
  <2>2. CASE d # Absent
    <3>1. d \in Docs /\ time \in Nat
      BY <2>2, RowStoreAssumption DEF Maybe, TypeOK
    <3>2. d.inst = 0 /\ d = [val |-> d.val, till |-> d.till, inst |-> 0] /\ d.till \in Nat
      BY <3>1 DEF Docs
    <3>3. (d.till < time + 1) <=> (d.till <= time)
      BY <3>1, <3>2
    <3>. QED
      BY <2>2, <3>2, <3>3 DEF Contract!Live, Contract!Past, IsEntity
  <2>. QED
    BY <2>1, <2>2
<1>2. Holds[k] = IF Gone(k) THEN Absent ELSE row[k]
  BY DEF Holds
<1>3. row[k] \in Maybe /\ Holds[k] \in Maybe
  BY <1>2 DEF TypeOK, Maybe
<1>4. Contract!Live(k, Holds[k], time + 1) = Holds[k]
  BY <1>1, <1>2, <1>3 DEF Gone, Expired
<1>. QED
  BY <1>1, <1>3, <1>4

LEMMA StartRefines == Init => Contract!Init
<1>. SUFFICES ASSUME Init PROVE Contract!Init
  OBVIOUS
<1>1. time + 1 = 1
  BY DEF Init
<1>2. Holds = [k \in Keys |-> Absent]
  BY DEF Init, Holds
<1>3. Views = [c \in Clients |-> Contract!Idle]
  BY DEF Init, Views, View, Idle, Contract!Idle
<1>. QED
  BY <1>1, <1>2, <1>3 DEF Contract!Init

\* A call takes effect: c was asked, and what becomes of its document and its
\* answer are the contract's.
LEMMA Takes ==
    ASSUME TypeOK, NEW c \in Clients, NEW a, NEW s \in Calls, At(c, s), a = calls[c].ask,
           a.op # "purge", a.key \in Keys, time' = time,
           View(c) = [pc |-> "asked", ask |-> a, met |-> {}],
           View(c)' = [pc |-> "taken", ask |-> a, answer |-> Contract!Answer(a, Holds[a.key]),
                       found |-> Contract!Found(a, Holds[a.key])],
           Holds' = [Holds EXCEPT ![a.key] =
                        Contract!Live(a.key, Contract!After(a, Holds[a.key]), time + 1)]
    PROVE  Contract!Take(c)
<1>. DEFINE v == [pc |-> "taken", ask |-> a, answer |-> Contract!Answer(a, Holds[a.key]),
                  found |-> Contract!Found(a, Holds[a.key])]
<1>1. Views[c] = [pc |-> "asked", ask |-> a, met |-> {}]
  BY DEF Views
<1>2. Views[c].pc = "asked" /\ Views[c].ask = a
  BY <1>1
<1>3. Views' = [Views EXCEPT ![c] = v]
  BY ViewStep
<1>4. time + 1 = (time + 1)'
  OBVIOUS
<1>. QED
  BY <1>2, <1>3, <1>4 DEF Contract!Take

\* A purge meets all of the tenant's documents at once.
LEMMA PurgeMeets ==
    ASSUME TypeOK, NEW c \in Clients, NEW a, NEW s \in Calls, At(c, s),
           a.op = "purge", time' = time,
           View(c) = [pc |-> "asked", ask |-> a, met |-> {}],
           View(c)' = [pc |-> "asked", ask |-> a, met |-> Of(a.tenant)],
           Holds' = [k \in Keys |-> IF k \in Of(a.tenant) THEN Absent ELSE Holds[k]]
    PROVE  Contract!Purge(c)
<1>1. Views[c] = [pc |-> "asked", ask |-> a, met |-> {}]
  BY DEF Views
<1>2. Views[c].pc = "asked" /\ Views[c].ask = a
  BY <1>1
<1>3. [Views[c] EXCEPT !.met = @ \cup Of(a.tenant)] = [pc |-> "asked", ask |-> a, met |-> Of(a.tenant)]
  BY <1>1
<1>4. Views' = [Views EXCEPT ![c].met = @ \cup Of(a.tenant)]
  BY <1>3, ViewStep
<1>5. Of(a.tenant) \in SUBSET Contract!Of(Views[c].ask.tenant)
  BY <1>2 DEF Of, Contract!Of
<1>. QED
  BY <1>2, <1>4, <1>5 DEF Contract!Purge

\* Every step is one of the contract's, or none.
LEMMA StepRefines ==
    ASSUME RowInv, [Next]_vars
    PROVE  [Contract!Next]_(Contract!vars)
<1>0. CASE UNCHANGED vars
  BY <1>0 DEF vars, Contract!vars, Holds, Views, View, Gone, Expired, IsEntity, TenantOf, Of
<1>. SUFFICES ASSUME Next PROVE [Contract!Next]_(Contract!vars)
  BY <1>0
<1>1. TypeOK /\ RowsAccounted /\ time \in Nat /\ calls \in [Clients -> Calls] /\ row \in [Keys -> Maybe]
  BY RowStoreAssumption DEF RowInv, TypeOK
<1>2. ASSUME UNCHANGED <<time, row>> PROVE Holds' = Holds
  BY <1>2 DEF Holds, Gone, Expired, IsEntity
<1>3. ASSUME NEW c \in Clients, NEW s \in Calls, At(c, s), View(c)' = View(c), UNCHANGED <<time, row>>
      PROVE  UNCHANGED Contract!vars
  <2>1. Views' = [Views EXCEPT ![c] = View(c)]
    BY <1>1, <1>3, ViewStep
  <2>2. Views' = Views
    BY <2>1 DEF Views
  <2>. QED
    BY <1>2, <1>3, <2>2 DEF Contract!vars
<1>4. ASSUME NEW c \in Clients, Ask(c) PROVE Contract!Ask(c)
  <2>1. PICK a \in Asks : At(c, [pc |-> "asked", ask |-> a])
    BY <1>4 DEF Ask
  <2>2. [pc |-> "asked", ask |-> a] \in Calls
    BY DEF Calls
  <2>3. View(c)' = [pc |-> "asked", ask |-> a, met |-> {}]
    <3>1. calls'[c].pc = "asked" /\ calls'[c].ask = a
      BY <1>1, <2>1, <2>2, AtType
    <3>. QED
      BY <3>1 DEF View
  <2>4. Views[c] = Contract!Idle
    BY <1>4 DEF Ask, Views, View, Idle, Contract!Idle
  <2>5. Views' = [Views EXCEPT ![c] = [pc |-> "asked", ask |-> a, met |-> {}]]
    BY <1>1, <2>1, <2>2, <2>3, ViewStep
  <2>. QED
    BY <1>2, <1>4, <2>4, <2>5 DEF Ask, Contract!Ask
<1>5. ASSUME NEW c \in Clients, claim_tenant(c) \/ insert_tenant(c) PROVE UNCHANGED Contract!vars
  <2>1. calls[c].pc \in {"asked", "unknown"} /\ UNCHANGED <<time, row>>
    BY <1>5 DEF claim_tenant, insert_tenant
  <2>2. calls[c].ask \in Asks
    BY <1>1, <2>1, OpenCall
  <2>3. PICK pc \in {"unknown", "claimed"}, claim \in {"none", "share", "insert"} : At(c, Begins(c, pc, claim))
    BY <1>5 DEF claim_tenant, insert_tenant
  <2>4. Begins(c, pc, claim) \in Calls
    BY <2>2, TxType DEF Maybe, Answers
  <2>5. View(c)' = View(c)
    <3>1. calls'[c] = Begins(c, pc, claim)
      BY <1>1, <2>3, <2>4, AtType
    <3>2. calls'[c].pc = pc /\ calls'[c].ask = calls[c].ask
      BY <3>1 DEF Begins, Tx
    <3>. QED
      BY <2>1, <3>2 DEF View
  <2>. QED
    BY <1>3, <2>1, <2>3, <2>4, <2>5
<1>6. ASSUME NEW c \in Clients, OneStatement(c) PROVE [Contract!Next]_(Contract!vars)
  <2>. DEFINE a == calls[c].ask
              seen == Holds[a.key]
  <2>1. /\ Outcome(c) /\ calls[c].pc = IF Claims(a) THEN "claimed" ELSE "asked"
        /\ a.op # "purge" /\ UNCHANGED <<time, row, index, tenants, asked, faults>>
    BY <1>6, StatementOutcome
  <2>2. calls[c].pc \in {"asked", "claimed"} /\ a \in Asks /\ a.key \in Keys
    BY <1>1, <2>1, OpenCall, AskType
  <2>3. ClaimOf(c) \in {"none", "share", "insert", "update"}
    BY <1>1, OpenCall DEF ClaimOf, Open
  <2>4. View(c) = [pc |-> "asked", ask |-> a, met |-> {}]
    BY <2>2 DEF View
  <2>5. Contract!Live(a.key, seen, time + 1) = seen /\ Holds' = Holds
    BY <1>1, <1>2, <2>1, <2>2, LiveHolds
  <2>6. ASSUME NEW s \in Calls, At(c, s), Contract!After(a, seen) = seen,
               View(c)' = [pc |-> "taken", ask |-> a, answer |-> Contract!Answer(a, seen),
                           found |-> Contract!Found(a, seen)]
        PROVE  Contract!Take(c)
    <3>1. Holds' = [Holds EXCEPT ![a.key] = Contract!Live(a.key, Contract!After(a, seen), time + 1)]
      BY <2>2, <2>5, <2>6 DEF Holds
    <3>. QED
      BY <1>1, <2>1, <2>2, <2>4, <2>6, <3>1, Takes
  <2>7. ASSUME NEW new \in Maybe, NEW answer \in Answers, Locking(c, new, answer)
        PROVE  UNCHANGED Contract!vars
    <3>. DEFINE s == Tx(c, "written", ClaimOf(c), {a.key}, new, answer)
    <3>1. At(c, s) /\ s \in Calls
      BY <2>2, <2>3, <2>7, TxType DEF Locking
    <3>2. s.pc = "written" /\ s.ask = a
      BY DEF Tx
    <3>3. View(c)' = View(c)
      BY <1>1, <2>4, <3>1, <3>2, AtType DEF View
    <3>. HIDE DEF s
    <3>. QED
      BY <1>3, <2>1, <3>1, <3>3
  <2>8. ASSUME NEW answer \in Answers, Deciding(c, answer) PROVE Contract!Take(c)
    <3>. DEFINE s == Tx(c, "decided", ClaimOf(c), {}, Absent, answer)
    <3>1. At(c, s) /\ s \in Calls
      BY <2>2, <2>3, <2>8, TxType DEF Deciding, Maybe
    <3>2. s.pc = "decided" /\ s.ask = a /\ s.answer = answer
      BY DEF Tx
    <3>3. answer = Contract!Answer(a, seen) /\ Contract!After(a, seen) = seen
          /\ Absent = Contract!Found(a, seen)
      BY <2>8 DEF Deciding, Contract!Found
    <3>4. View(c)' = [pc |-> "taken", ask |-> a, answer |-> answer, found |-> Absent]
      BY <1>1, <3>1, <3>2, AtType DEF View
    <3>. HIDE DEF s, seen
    <3>. QED
      BY <2>6, <3>1, <3>3, <3>4
  <2>9. ASSUME NEW answer \in Answers, NEW found \in Maybe, Finding(c, answer, found)
        PROVE  Contract!Take(c)
    <3>. DEFINE s == Answered(c, answer, found)
    <3>1. At(c, s) /\ s \in Calls
      BY <2>2, <2>9, AnsweredType DEF Finding
    <3>2. s.pc = "done" /\ s.ask = a /\ s.answer = answer /\ s.found = found
      BY DEF Answered
    <3>3. answer = Contract!Answer(a, seen) /\ Contract!After(a, seen) = seen
          /\ found = Contract!Found(a, seen)
      BY <2>9 DEF Finding
    <3>4. View(c)' = [pc |-> "taken", ask |-> a, answer |-> answer, found |-> found]
      BY <1>1, <3>1, <3>2, AtType DEF View
    <3>. HIDE DEF s, seen
    <3>. QED
      BY <2>6, <3>1, <3>3, <3>4
  <2>. QED
    BY <2>1, <2>7, <2>8, <2>9 DEF Outcome, Contract!Next
<1>7. ASSUME NEW c \in Clients, Commit(c) PROVE Contract!Take(c)
  <2>. DEFINE a == calls[c].ask
              k == a.key
              seen == Holds[k]
              s == Answered(c, calls[c].answer, Absent)
  <2>1. /\ calls[c].pc = "written" /\ Open(c) /\ At(c, s) /\ time' = time
        /\ row' = [row EXCEPT ![k] = calls[c].new]
    BY <1>7 DEF Commit, Open
  <2>2. TxOK(c)
    BY DEF RowInv
  <2>3. /\ a.op \in {"create", "upsert", "delete", "delete_if", "mutate"}
        /\ calls[c].answer = Contract!Answer(a, seen) /\ calls[c].new = Contract!After(a, seen)
    BY <2>1, <2>2 DEF TxOK, Pending
  <2>4. a \in Asks /\ k \in Keys /\ calls[c].answer \in Answers /\ calls[c].new \in Maybe
    BY <1>1, <2>1, <2>3, OpenCall, AskType
  <2>5. s \in Calls /\ s.pc = "done" /\ s.ask = a /\ s.answer = calls[c].answer /\ s.found = Absent
    BY <2>4, AnsweredType DEF Answered, Maybe
  <2>6. Absent = Contract!Found(a, seen)
    BY <2>3 DEF Contract!Found
  <2>7. View(c)' = [pc |-> "taken", ask |-> a, answer |-> Contract!Answer(a, seen),
                    found |-> Contract!Found(a, seen)]
    <3>1. View(c)' = [pc |-> "taken", ask |-> a, answer |-> calls[c].answer, found |-> Absent]
      BY <1>1, <2>1, <2>5, AtType DEF View
    <3>. QED
      BY <2>3, <2>6, <3>1
  <2>8. View(c) = [pc |-> "asked", ask |-> a, met |-> {}]
    BY <2>1 DEF View
  <2>9. Holds' = [Holds EXCEPT ![k] = Contract!Live(k, calls[c].new, time + 1)]
    <3>1. ASSUME NEW j \in Keys, j # k PROVE Holds'[j] = Holds[j]
      BY <1>1, <2>1, <2>4, <3>1 DEF Holds, Gone, Expired, IsEntity
    <3>2. row'[k] = calls[c].new
      BY <1>1, <2>1, <2>4
    <3>3. ASSUME NEW j \in Keys, row'[j] \in Maybe PROVE Holds'[j] = Contract!Live(j, row'[j], time + 1)
      BY <1>1, <2>1, <3>3, LiveHolds DEF Holds, Gone, Expired, IsEntity
    <3>4. Holds'[k] = Contract!Live(k, calls[c].new, time + 1)
      BY <2>4, <3>2, <3>3
    <3>. QED
      BY <2>4, <3>1, <3>4 DEF Holds
  <2>. HIDE DEF s, seen
  <2>10. Holds' = [Holds EXCEPT ![k] = Contract!Live(k, Contract!After(a, seen), time + 1)]
    BY <2>3, <2>9
  <2>. QED
    BY <1>1, <2>1, <2>3, <2>4, <2>5, <2>7, <2>8, <2>10, Takes DEF seen
<1>8. ASSUME NEW c \in Clients, Refused(c) PROVE UNCHANGED Contract!vars
  <2>. DEFINE s == Answered(c, calls[c].answer, Absent)
  <2>1. calls[c].pc = "decided" /\ Open(c) /\ At(c, s) /\ UNCHANGED <<time, row>>
    BY <1>8 DEF Refused, Open
  <2>2. calls[c].ask \in Asks /\ calls[c].answer \in Answers
    BY <1>1, <2>1, OpenCall
  <2>3. /\ s \in Calls /\ s.pc = "done" /\ s.ask = calls[c].ask /\ s.answer = calls[c].answer
        /\ s.found = Absent
    BY <2>2, AnsweredType DEF Answered, Maybe
  <2>4. View(c)' = View(c)
    BY <1>1, <2>1, <2>3, AtType DEF View
  <2>. HIDE DEF s
  <2>. QED
    BY <1>3, <2>1, <2>3, <2>4
<1>9. ASSUME NEW c \in Clients, Reply(c) PROVE Contract!Answered(c)
  <2>1. calls[c].pc = "done" /\ At(c, Idle) /\ Idle \in Calls /\ UNCHANGED <<time, row>>
    BY <1>9 DEF Reply, Idle, Calls
  <2>2. View(c)' = Contract!Idle
    BY <1>1, <2>1, AtType DEF View, Idle, Contract!Idle
  <2>3. Views' = [Views EXCEPT ![c] = Contract!Idle]
    BY <1>1, <2>1, <2>2, ViewStep
  <2>4. Views[c].pc = "taken"
    BY <2>1 DEF Views, View
  <2>. QED
    BY <1>2, <2>1, <2>3, <2>4 DEF Contract!Answered
<1>10. ASSUME NEW c \in Clients, Purge(c) PROVE [Contract!Next]_(Contract!vars)
  <2>. DEFINE a == calls[c].ask
              t == a.tenant
              s == [Answered(c, "absent", Absent) EXCEPT !.pc = "purged"]
  <2>1. /\ calls[c].pc = "asked" /\ a.op = "purge" /\ TenantOf(c) = t /\ UNCHANGED <<time, row>>
    BY <1>10 DEF Purge, TenantOf
  <2>2. a \in Asks
    BY <1>1, <2>1, OpenCall
  <2>3. View(c) = [pc |-> "asked", ask |-> a, met |-> {}]
    BY <2>1 DEF View
  <2>4. CASE t \notin tenants /\ At(c, s)
    <3>1. s \in Calls /\ s = [pc |-> "purged", ask |-> a, answer |-> "absent", found |-> Absent]
      BY <2>2, AnsweredType DEF Answers, Maybe
    <3>2. calls'[c] = s
      BY <1>1, <2>4, <3>1, AtType
    <3>3. View(c)' = [pc |-> "asked", ask |-> a, met |-> Of(t)]
      <4>1. calls'[c].pc = "purged" /\ calls'[c].ask = a
        BY <3>1, <3>2
      <4>2. Of(TenantOf(c))' = Of(t)
        BY <2>1, <4>1 DEF TenantOf, Of
      <4>. QED
        BY <4>1, <4>2 DEF View
    <3>4. ASSUME NEW k \in Of(t) PROVE Holds[k] = Absent
      BY <1>1, <2>4 DEF Of, RowsAccounted, Holds, Gone
    <3>5. Holds' = [k \in Keys |-> IF k \in Of(t) THEN Absent ELSE Holds[k]]
      BY <1>2, <2>1, <3>4 DEF Holds
    <3>. HIDE DEF s
    <3>6. Contract!Purge(c)
      BY <1>1, <2>1, <2>3, <2>4, <3>1, <3>3, <3>5, PurgeMeets
    <3>. QED
      BY <3>6 DEF Contract!Next
  <2>5. CASE At(c, Begins(c, "purging", "update"))
    <3>1. Begins(c, "purging", "update") \in Calls
      BY <2>2, TxType DEF Maybe, Answers
    <3>2. calls'[c].pc = "purging" /\ calls'[c].ask = a
      BY <1>1, <2>5, <3>1, AtType DEF Begins, Tx
    <3>3. View(c)' = View(c)
      BY <2>3, <3>2 DEF View
    <3>. QED
      BY <1>3, <2>1, <2>5, <3>1, <3>3
  <2>. QED
    BY <1>10, <2>1, <2>4, <2>5 DEF Purge
<1>11. ASSUME NEW c \in Clients, NEW k \in Keys, PurgeRow(c, k) PROVE UNCHANGED Contract!vars
  <2>. DEFINE s == [calls[c] EXCEPT !.has = @ \cup {k}]
  <2>1. calls[c].pc = "purging" /\ At(c, s) /\ UNCHANGED <<time, row>>
    BY <1>11 DEF PurgeRow
  <2>2. s \in Calls /\ s.pc = "purging" /\ s.ask = calls[c].ask
    BY <1>1, <2>1 DEF Calls
  <2>3. View(c)' = View(c)
    BY <1>1, <2>1, <2>2, AtType DEF View
  <2>. HIDE DEF s
  <2>. QED
    BY <1>3, <2>1, <2>2, <2>3
<1>12. ASSUME NEW c \in Clients, PurgeCommit(c) PROVE Contract!Purge(c)
  <2>. DEFINE a == calls[c].ask
              t == a.tenant
              s == [Answered(c, "done", Absent) EXCEPT !.pc = "purged"]
  <2>1. /\ calls[c].pc = "purging" /\ Open(c) /\ At(c, s) /\ time' = time
        /\ \A k \in Of(TenantOf(c)) : row[k] # Absent => k \in calls[c].has
        /\ row' = [k \in Keys |-> IF k \in calls[c].has THEN Absent ELSE row[k]]
    BY <1>12 DEF PurgeCommit, Open
  <2>2. TxOK(c)
    BY DEF RowInv
  <2>3. a.op = "purge" /\ TenantOf(c) = t /\ calls[c].has \subseteq Of(t) /\ a \in Asks
    BY <1>1, <2>1, <2>2, OpenCall DEF TxOK, TenantOf
  <2>4. s \in Calls /\ s = [pc |-> "purged", ask |-> a, answer |-> "done", found |-> Absent]
    BY <2>3, AnsweredType DEF Answers, Maybe
  <2>5. calls'[c] = s
    BY <1>1, <2>1, <2>4, AtType
  <2>6. View(c)' = [pc |-> "asked", ask |-> a, met |-> Of(t)]
    <3>1. calls'[c].pc = "purged" /\ calls'[c].ask = a
      BY <2>4, <2>5
    <3>2. Of(TenantOf(c))' = Of(t)
      BY <2>3, <3>1 DEF TenantOf, Of
    <3>. QED
      BY <3>1, <3>2 DEF View
  <2>7. View(c) = [pc |-> "asked", ask |-> a, met |-> {}]
    BY <2>1 DEF View
  <2>8. ASSUME NEW k \in Keys PROVE Holds'[k] = IF k \in Of(t) THEN Absent ELSE Holds[k]
    <3>1. CASE k \in Of(t)
      BY <2>1, <2>3, <3>1 DEF Holds, Gone
    <3>2. CASE k \notin Of(t)
      BY <2>1, <2>3, <3>2 DEF Holds, Gone, Expired, IsEntity
    <3>. QED
      BY <3>1, <3>2
  <2>9. Holds' = [k \in Keys |-> IF k \in Of(t) THEN Absent ELSE Holds[k]]
    BY <2>8 DEF Holds
  <2>. HIDE DEF s
  <2>. QED
    BY <1>1, <2>1, <2>3, <2>4, <2>6, <2>7, <2>9, PurgeMeets
<1>13. ASSUME NEW c \in Clients, PurgeReply(c) PROVE Contract!Purged(c)
  <2>. DEFINE a == calls[c].ask
              s == [calls[c] EXCEPT !.pc = "done"]
              v == [pc |-> "taken", ask |-> a, answer |-> calls[c].answer, found |-> Absent]
  <2>1. calls[c].pc = "purged" /\ At(c, s) /\ UNCHANGED <<time, row>>
    BY <1>13 DEF PurgeReply
  <2>2. TxOK(c)
    BY DEF RowInv
  <2>3. a.op = "purge" /\ calls[c].answer \in {"done", "absent"} /\ calls[c].found = Absent
        /\ TenantOf(c) = a.tenant
    BY <2>1, <2>2 DEF TxOK, TenantOf
  <2>4. s \in Calls /\ s.pc = "done" /\ s.ask = a /\ s.answer = calls[c].answer /\ s.found = Absent
    BY <1>1, <2>1, <2>3 DEF Calls
  <2>5. View(c)' = v
    BY <1>1, <2>1, <2>4, AtType DEF View
  <2>6. Views' = [Views EXCEPT ![c] = v]
    BY <1>1, <2>1, <2>4, <2>5, ViewStep
  <2>7. Views[c] = [pc |-> "asked", ask |-> a, met |-> Contract!Of(a.tenant)]
    BY <2>1, <2>3 DEF Views, View, Of, Contract!Of
  <2>8. Views[c].pc = "asked" /\ Views[c].ask = a /\ Views[c].met = Contract!Of(a.tenant)
    BY <2>7
  <2>. QED
    BY <1>2, <2>1, <2>3, <2>6, <2>8 DEF Contract!Purged
<1>14. ASSUME NEW c \in Clients, Lost(c) PROVE Contract!Lose
  <2>1. At(c, Idle) /\ Idle \in Calls /\ UNCHANGED <<time, row>>
    BY <1>14 DEF Lost, Idle, Calls
  <2>2. View(c)' = Contract!Idle
    BY <1>1, <2>1, AtType DEF View, Idle, Contract!Idle
  <2>3. Views' = [Views EXCEPT ![c] = Contract!Idle]
    BY <1>1, <2>1, <2>2, ViewStep
  <2>4. Views' = [o \in Clients |-> IF o \in {c} THEN Contract!Idle ELSE Views[o]]
    BY <2>3 DEF Views
  <2>. QED
    BY <1>2, <2>1, <2>4 DEF Contract!Lose
<1>15. ASSUME NEW k \in Keys, Reap(k) PROVE UNCHANGED Contract!vars
  <2>1. Expired(k) /\ row' = [row EXCEPT ![k] = Absent] /\ UNCHANGED <<time, calls>>
    BY <1>15 DEF Reap
  <2>2. ASSUME NEW j \in Keys PROVE Holds'[j] = Holds[j]
    BY <1>1, <2>1 DEF Holds, Gone, Expired, IsEntity
  <2>3. Holds' = Holds
    BY <2>2 DEF Holds
  <2>4. Views' = Views
    BY <2>1 DEF Views, View, TenantOf, Of
  <2>. QED
    BY <2>1, <2>3, <2>4 DEF Contract!vars
<1>16. ASSUME Tick PROVE Contract!Tick
  <2>1. time < MaxTime /\ time' = time + 1 /\ UNCHANGED <<row, calls>>
    BY <1>16 DEF Tick
  <2>2. Views' = Views
    BY <2>1 DEF Views, View, TenantOf, Of
  <2>3. ASSUME NEW k \in Keys PROVE Holds'[k] = Contract!Live(k, Holds[k], (time + 1)')
    <3>1. Holds[k] = IF Gone(k) THEN Absent ELSE row[k]
      BY DEF Holds
    <3>2. Holds'[k] = IF Gone(k)' THEN Absent ELSE row[k]
      BY <2>1 DEF Holds
    <3>3. time \in Nat /\ row[k] \in Maybe /\ (row[k] # Absent => row[k].till \in Nat /\ row[k] \in Docs)
      BY <1>1 DEF Maybe, Docs
    <3>4. CASE Gone(k)
      <4>1. Gone(k)'
        BY <2>1, <3>3, <3>4 DEF Gone, Expired, IsEntity
      <4>. QED
        BY <3>1, <3>2, <3>4, <4>1 DEF Contract!Live
    <3>5. CASE ~ Gone(k)
      <4>1. row[k] # Absent /\ row[k].till \in Nat /\ row[k] = [val |-> row[k].val, till |-> row[k].till, inst |-> 0]
            /\ row[k].inst = 0
        BY <3>3, <3>5 DEF Gone, Docs
      <4>2. Gone(k)' <=> IsEntity(k) /\ row[k].till # 0 /\ row[k].till < time' + 1
        BY <2>1, <3>3, <4>1 DEF Gone, Expired, IsEntity
      <4>3. Contract!Live(k, row[k], time' + 1) = IF Gone(k)' THEN Absent ELSE row[k]
        BY <4>1, <4>2 DEF Contract!Live, Contract!Past, IsEntity
      <4>. QED
        BY <3>1, <3>2, <3>5, <4>3
    <3>. QED
      BY <3>4, <3>5
  <2>4. Holds' = [k \in Keys |-> Contract!Live(k, Holds[k], (time + 1)')]
    BY <2>3 DEF Holds
  <2>5. time + 1 < MaxTime + 1
    BY <1>1, <2>1, RowStoreAssumption
  <2>. QED
    BY <2>1, <2>2, <2>4, <2>5 DEF Contract!Tick
<1>. QED
  BY <1>4, <1>5, <1>6, <1>7, <1>8, <1>9, <1>10, <1>11, <1>12, <1>13, <1>14, <1>15, <1>16
     DEF Next, Call, OneStatement, Contract!Next

-----------------------------------------------------------------------------
(* What follows for every behaviour.                                       *)

\* RowInv holds throughout.
LEMMA RowsAlways == Spec => []RowInv
BY RowStart, RowStep, PTL DEF Spec

\* TypeOK: the state is well formed, and no two transactions have one row
\* (set_tenant, the row locks of INSERT, UPDATE and FOR UPDATE).
THEOREM RowsTyped == Spec => []TypeOK
<1>1. RowInv => TypeOK
  BY DEF RowInv
<1>. QED
  BY <1>1, RowsAlways, PTL

\* RowsAccounted: nothing is stored for a tenant the inventory does not name,
\* and the match rows are those of the document, whatever purges, first
\* writes, lost connections and expiries meet (claim_tenant, purge_tenant,
\* rebuild_csource_index).
THEOREM AlwaysAccounted == Spec => []RowsAccounted
<1>1. RowInv => RowsAccounted
  BY DEF RowInv
<1>. QED
  BY <1>1, RowsAlways, PTL

\* RowsKeepContract: under Postgres' default isolation every call still takes
\* effect at one instant between being made and being answered.
THEOREM KeepsContract == Spec => RowsKeepContract
<1>1. Init => Contract!Init
  BY StartRefines
<1>2. RowInv /\ [Next]_vars => [Contract!Next]_(Contract!vars)
  BY StepRefines
<1>. QED
  BY <1>1, <1>2, RowsAlways, PTL DEF Spec, RowsKeepContract, Contract!Spec
=============================================================================
