--------------------------- MODULE FileStoreProofs ---------------------------
(***************************************************************************)
(* FileStore for all documents, clients, calls and faults: the driver      *)
(* implements StoreContract, and the hook is told the truth.  StoreInv is  *)
(* the inductive invariant; its parts say which call holds which lock, and *)
(* that maps and file differ only under a purge.                           *)
(*                                                                         *)
(* After it, Snapshots, whose documents and copies the drivers hold:       *)
(* proved about as an instance.                                            *)
(***************************************************************************)
EXTENDS FileStore, FiniteSetTheorems, TLAPS

Maybe == Docs \cup {Absent}

\* Who holds emit_order and the section is at work with them, and what the
\* hook is about to be told is what is stored.
CallInv ==
    \A c \in Clients :
        /\ calls[c].pc = "ordered" => order = c
        /\ calls[c].pc \in {"purging", "purged"} => calls[c].ask.op = "purge"
        /\ calls[c].pc = "purging" => section.what \in {"purge", "contexts"} /\ section.who = c
        /\ calls[c].pc = "done" /\ calls[c].event =>
              /\ order = c /\ calls[c].ask.key \in Keys /\ IsEntity(calls[c].ask.key)
              /\ \/ calls[c].ask.key \in gap
                 \/ Read(calls[c].ask.key, calls[c].image, time)
                      = Read(calls[c].ask.key, mem[calls[c].ask.key], time)

\* Maps and file differ only in what a purge has still to commit.
MapsInv ==
    /\ \A k \in Keys : mem[k] = file[k] \/ (section.what = "purge" /\ k \in section.todo)
    /\ section.what = "purge" => \A k \in section.todo : mem[k] = Absent
    /\ section.what = "purge" => section.todo \subseteq DocsOf(calls[section.who].ask.tenant)
    /\ section.what = "contexts" => section.todo \subseteq ContextsOf(calls[section.who].ask.tenant)
    /\ section.what = "sweep" => section.now <= time

StoreInv == TypeOK /\ CallInv /\ MapsInv

-----------------------------------------------------------------------------
(* Expiry.                                                                 *)

\* Reading keeps to documents, and finds nothing where there is nothing.
LEMMA ReadType ==
    ASSUME NEW k, NEW d \in Maybe, NEW t
    PROVE  /\ Read(k, d, t) \in Maybe /\ strip_expired(d, t) \in Maybe
           /\ Read(k, Absent, t) = Absent
BY FileStoreAssumption DEF Read, strip_expired, Maybe, Docs

\* What expired earlier has expired later.
LEMMA StripTwice ==
    ASSUME NEW d \in Maybe, NEW n \in Nat, NEW t \in Nat, n <= t
    PROVE  strip_expired(strip_expired(d, n), t) = strip_expired(d, t)
<1>1. CASE d = Absent \/ expired_at(d.till, n)
  BY <1>1, FileStoreAssumption DEF strip_expired, Maybe, Docs, expired_at
<1>2. CASE d # Absent /\ ~ expired_at(d.till, n)
  <2>. DEFINE e == [val |-> d.val, till |-> d.till,
                    inst |-> IF expired_at(d.inst, n) THEN 0 ELSE d.inst]
  <2>1. d \in Docs /\ e \in Docs /\ e.till = d.till /\ e # Absent
    BY <1>2, FileStoreAssumption DEF Maybe, Docs
  <2>2. strip_expired(d, n) = e
    BY <1>2 DEF strip_expired
  <2>3. (IF expired_at(e.inst, t) THEN 0 ELSE e.inst) = (IF expired_at(d.inst, t) THEN 0 ELSE d.inst)
    BY <2>1 DEF expired_at, Docs
  <2>. QED
    BY <1>2, <2>1, <2>2, <2>3 DEF strip_expired
<1>. QED
  BY <1>1, <1>2

\* A reader sees no more later than it saw before, and no less than what a
\* sweep leaves.
LEMMA ReadTwice ==
    ASSUME NEW k, NEW d \in Maybe, NEW n \in Nat, NEW t \in Nat, n <= t
    PROVE  Read(k, Read(k, d, n), t) = Read(k, d, t)
BY StripTwice DEF Read

\* The contract means the same by what is there.
LEMMA LiveIsRead ==
    ASSUME NEW k, NEW d, NEW t
    PROVE  Contract!Live(k, d, t) = Read(k, d, t)
BY DEF Contract!Live, Contract!Past, Read, strip_expired, expired_at, IsEntity

-----------------------------------------------------------------------------
(* Every call on one document.                                             *)

\* What a call on one document does, whichever it is: the contract's effect
\* on what is seen there, with an event where it changed.
Commits(c, doc, answer, found, event) ==
    LET k == calls[c].ask.key
        seen == Read(k, mem[k], time)
    IN  /\ Leaves(c, doc, answer, found, event)
        /\ section.what = "free" /\ calls[c].pc \in {"asked", "ordered"}
        /\ NeedsOrder(calls[c].ask) => calls[c].pc = "ordered"
        /\ IsEntity(k) /\ event => NeedsOrder(calls[c].ask)
        /\ calls[c].ask.op # "purge" /\ k \in Keys
        /\ event \/ doc = mem[k]
        /\ Read(k, doc, time) = Read(k, Contract!After(calls[c].ask, seen), time)
        /\ answer = Contract!Answer(calls[c].ask, seen)
        /\ found = Contract!Found(calls[c].ask, seen)
        /\ known' \subseteq Tenants

OneDocument(c) ==
    Create(c) \/ Upsert(c) \/ Delete(c) \/ delete_if(c) \/ Mutate(c) \/ Get(c)

\* Every such call commits something.
LEMMA CallCommits ==
    ASSUME StoreInv, NEW c \in Clients, OneDocument(c)
    PROVE  \E doc \in Maybe, answer \in Answers, found \in Maybe, event \in BOOLEAN :
               Commits(c, doc, answer, found, event)
<1>. DEFINE a == calls[c].ask
            k == a.key
            seen == Read(k, mem[k], time)
<1>1. a \in Asks /\ time \in Nat
  <2>1. calls[c].pc \in {"asked", "ordered"}
    BY DEF OneDocument, Create, Upsert, Delete, delete_if, Mutate, Get, Ready
  <2>2. calls[c] \in Calls
    BY DEF StoreInv, TypeOK
  <2>3. a \in Asks
    BY <2>1, <2>2 DEF Calls
  <2>. QED
    BY <2>3, FileStoreAssumption DEF StoreInv, TypeOK
<1>2. a.op \in Writes \cup {"get"} /\ a.op # "purge"
  BY DEF OneDocument, Create, Upsert, Delete, delete_if, Mutate, Get, Ready, Writes
<1>3. k \in Keys /\ mem[k] \in Maybe /\ k.tenant \in Tenants
  BY <1>1, <1>2, FileStoreAssumption DEF StoreInv, TypeOK, Maybe, Tenants
<1>4. /\ a.op \in {"create", "upsert"} => a.doc \in Docs
      /\ a.op = "mutate" => a.val \in Nat
  BY <1>1, <1>2, FileStoreAssumption
<1>5. seen \in Maybe /\ Absent \in Maybe /\ (mem[k] # Absent => mem[k] \in Docs)
  BY <1>3, ReadType DEF Maybe
<1>6. (seen = Absent) <=> (mem[k] = Absent \/ is_expired(k))
  BY <1>3, FileStoreAssumption DEF Read, strip_expired, is_expired, Maybe, Docs
<1>7. seen # Absent => seen.val = mem[k].val /\ mem[k] \in Docs
  BY <1>3, FileStoreAssumption DEF Read, strip_expired, Maybe, Docs
<1>8. Read(k, seen, time) = seen
  BY <1>1, <1>3, ReadTwice
<1>9. known \subseteq Tenants
  BY DEF StoreInv, TypeOK
<1>10. known \cup {k.tenant} \subseteq Tenants
  BY <1>3, <1>9
<1>11. Read(k, Absent, time) = Absent
  BY <1>5, ReadType
<1>12. ASSUME Create(c) PROVE \E doc \in Maybe, answer \in Answers, found \in Maybe, event \in BOOLEAN :
               Commits(c, doc, answer, found, event)
  <2>1. Ready(c, "create") /\ a.op = "create" /\ Enters(k)
    BY <1>12 DEF Create, Ready
  <2>2. known' \subseteq Tenants
    BY <2>1, <1>9, <1>10 DEF Enters
  <2>3. CASE seen # Absent
    <3>1. Leaves(c, mem[k], "refused", Absent, FALSE)
      BY <2>3, <1>6, <1>12 DEF Create, Refuses
    <3>2. Contract!After(a, seen) = seen /\ Contract!Answer(a, seen) = "refused"
          /\ Contract!Found(a, seen) = Absent
      BY <2>1, <2>3 DEF Contract!After, Contract!Answer, Contract!Found
    <3>3. Commits(c, mem[k], "refused", Absent, FALSE)
      BY <2>1, <2>2, <3>1, <3>2, <1>2, <1>3, <1>8 DEF Commits, Ready
    <3>. QED
      BY <3>3, <1>3, <1>5 DEF Answers
  <2>4. CASE seen = Absent
    <3>1. Leaves(c, a.doc, "created", Absent, TRUE)
      BY <2>4, <1>6, <1>12 DEF Create
    <3>2. Contract!After(a, seen) = a.doc /\ Contract!Answer(a, seen) = "created"
          /\ Contract!Found(a, seen) = Absent
      BY <2>1, <2>4 DEF Contract!After, Contract!Answer, Contract!Found
    <3>3. Commits(c, a.doc, "created", Absent, TRUE)
      BY <2>1, <2>2, <3>1, <3>2, <1>2, <1>3 DEF Commits, Ready, NeedsOrder, Writes
    <3>. QED
      BY <3>3, <2>1, <1>4, <1>5 DEF Answers, Maybe
  <2>. QED
    BY <2>3, <2>4
<1>13. ASSUME Upsert(c) PROVE \E doc \in Maybe, answer \in Answers, found \in Maybe, event \in BOOLEAN :
               Commits(c, doc, answer, found, event)
  <2>. DEFINE said == IF seen # Absent THEN "done" ELSE "created"
  <2>1. Ready(c, "upsert") /\ a.op = "upsert" /\ Enters(k)
    BY <1>13 DEF Upsert, Ready
  <2>2. known' \subseteq Tenants
    BY <2>1, <1>9, <1>10 DEF Enters
  <2>3. Leaves(c, a.doc, said, Absent, TRUE)
    BY <1>6, <1>13 DEF Upsert
  <2>4. Contract!After(a, seen) = a.doc /\ Contract!Answer(a, seen) = said
        /\ Contract!Found(a, seen) = Absent
    BY <2>1 DEF Contract!After, Contract!Answer, Contract!Found
  <2>5. Commits(c, a.doc, said, Absent, TRUE)
    BY <2>1, <2>2, <2>3, <2>4, <1>2, <1>3 DEF Commits, Ready, NeedsOrder, Writes
  <2>. QED
    BY <2>5, <2>1, <1>4, <1>5 DEF Answers, Maybe
<1>14. ASSUME Delete(c) PROVE \E doc \in Maybe, answer \in Answers, found \in Maybe, event \in BOOLEAN :
               Commits(c, doc, answer, found, event)
  <2>1. Ready(c, "delete") /\ a.op = "delete" /\ known' = known
    BY <1>14 DEF Delete, Ready, NobodyEnters
  <2>2. CASE seen = Absent
    <3>1. Leaves(c, mem[k], "absent", Absent, FALSE)
      BY <2>2, <1>6, <1>14 DEF Delete, Refuses
    <3>2. Contract!After(a, seen) = Absent /\ Contract!Answer(a, seen) = "absent"
          /\ Contract!Found(a, seen) = Absent
      BY <2>1, <2>2 DEF Contract!After, Contract!Answer, Contract!Found
    <3>3. Commits(c, mem[k], "absent", Absent, FALSE)
      BY <2>1, <2>2, <3>1, <3>2, <1>2, <1>3, <1>8, <1>9 DEF Commits, Ready
    <3>. QED
      BY <3>3, <1>3, <1>5 DEF Answers
  <2>3. CASE seen # Absent
    <3>1. Leaves(c, Absent, "done", Absent, TRUE)
      BY <2>3, <1>6, <1>14 DEF Delete
    <3>2. Contract!After(a, seen) = Absent /\ Contract!Answer(a, seen) = "done"
          /\ Contract!Found(a, seen) = Absent
      BY <2>1, <2>3 DEF Contract!After, Contract!Answer, Contract!Found
    <3>3. Commits(c, Absent, "done", Absent, TRUE)
      BY <2>1, <3>1, <3>2, <1>2, <1>3, <1>9 DEF Commits, Ready, NeedsOrder, Writes
    <3>. QED
      BY <3>3, <1>5 DEF Answers
  <2>. QED
    BY <2>2, <2>3
<1>15. ASSUME delete_if(c) PROVE \E doc \in Maybe, answer \in Answers, found \in Maybe, event \in BOOLEAN :
               Commits(c, doc, answer, found, event)
  <2>1. Ready(c, "delete_if") /\ a.op = "delete_if" /\ known' = known
    BY <1>15 DEF delete_if, Ready, NobodyEnters
  <2>2. CASE seen = Absent \/ seen.val \notin a.keep
    <3>1. Leaves(c, mem[k], "absent", Absent, FALSE)
      BY <2>2, <1>15 DEF delete_if, Refuses
    <3>2. Contract!After(a, seen) = seen /\ Contract!Answer(a, seen) = "absent"
          /\ Contract!Found(a, seen) = Absent
      BY <2>1, <2>2 DEF Contract!After, Contract!Answer, Contract!Found
    <3>3. Commits(c, mem[k], "absent", Absent, FALSE)
      BY <2>1, <3>1, <3>2, <1>2, <1>3, <1>8, <1>9 DEF Commits, Ready
    <3>. QED
      BY <3>3, <1>3, <1>5 DEF Answers
  <2>3. CASE seen # Absent /\ seen.val \in a.keep
    <3>1. Leaves(c, Absent, "done", Absent, TRUE)
      BY <2>3, <1>15 DEF delete_if
    <3>2. Contract!After(a, seen) = Absent /\ Contract!Answer(a, seen) = "done"
          /\ Contract!Found(a, seen) = Absent
      BY <2>1, <2>3 DEF Contract!After, Contract!Answer, Contract!Found
    <3>3. Commits(c, Absent, "done", Absent, TRUE)
      BY <2>1, <3>1, <3>2, <1>2, <1>3, <1>9 DEF Commits, Ready, NeedsOrder, Writes
    <3>. QED
      BY <3>3, <1>5 DEF Answers
  <2>. QED
    BY <2>2, <2>3
<1>16. ASSUME Mutate(c) PROVE \E doc \in Maybe, answer \in Answers, found \in Maybe, event \in BOOLEAN :
               Commits(c, doc, answer, found, event)
  <2>. DEFINE d == mem[k]
              e == [val |-> a.val, till |-> d.till, inst |-> d.inst]
  <2>1. Ready(c, "mutate") /\ a.op = "mutate" /\ known' = known
    BY <1>16 DEF Mutate, Ready, NobodyEnters
  <2>2. CASE seen = Absent
    <3>1. Leaves(c, d, "absent", Absent, FALSE)
      BY <2>2, <1>6, <1>16 DEF Mutate, Refuses
    <3>2. Contract!After(a, seen) = seen /\ Contract!Answer(a, seen) = "absent"
          /\ Contract!Found(a, seen) = Absent
      BY <2>1, <2>2 DEF Contract!After, Contract!Answer, Contract!Found
    <3>3. Commits(c, d, "absent", Absent, FALSE)
      BY <2>1, <3>1, <3>2, <1>2, <1>3, <1>8, <1>9 DEF Commits, Ready
    <3>. QED
      BY <3>3, <1>3, <1>5 DEF Answers
  <2>3. CASE seen # Absent /\ d.val \in a.refuses
    <3>1. Leaves(c, d, "refused", Absent, FALSE)
      BY <2>3, <1>6, <1>16 DEF Mutate, Refuses
    <3>2. Contract!After(a, seen) = seen /\ Contract!Answer(a, seen) = "refused"
          /\ Contract!Found(a, seen) = Absent
      BY <2>1, <2>3, <1>7 DEF Contract!After, Contract!Answer, Contract!Found
    <3>3. Commits(c, d, "refused", Absent, FALSE)
      BY <2>1, <3>1, <3>2, <1>2, <1>3, <1>8, <1>9 DEF Commits, Ready
    <3>. QED
      BY <3>3, <1>3, <1>5 DEF Answers
  <2>4. CASE seen # Absent /\ d.val \notin a.refuses
    <3>1. Leaves(c, e, "done", Absent, d.val # a.val)
      BY <2>4, <1>6, <1>16 DEF Mutate
    <3>2. Contract!After(a, seen) = [val |-> a.val, till |-> seen.till, inst |-> seen.inst] /\ Contract!Answer(a, seen) = "done"
          /\ Contract!Found(a, seen) = Absent
      BY <2>1, <2>4, <1>7 DEF Contract!After, Contract!Answer, Contract!Found
    <3>3. d \in Docs /\ e \in Docs /\ (d.val = a.val => e = d)
      BY <2>1, <2>4, <1>4, <1>7 DEF Docs
    <3>4. Read(k, e, time) = [val |-> a.val, till |-> seen.till, inst |-> seen.inst]
      <4>1. CASE ~ IsEntity(k)
        BY <4>1 DEF Read
      <4>2. CASE IsEntity(k)
        BY <2>4, <3>3, <4>2, FileStoreAssumption DEF Read, strip_expired, Docs
      <4>. QED
        BY <4>1, <4>2
    <3>5. Read(k, Read(k, e, time), time) = Read(k, e, time)
      BY <3>3, <1>1, ReadTwice DEF Maybe
    <3>6. Commits(c, e, "done", Absent, d.val # a.val)
      BY <2>1, <3>1, <3>2, <3>3, <3>4, <3>5, <1>2, <1>3, <1>9 DEF Commits, Ready, NeedsOrder, Writes
    <3>7. e \in Maybe /\ (d.val # a.val) \in BOOLEAN
      BY <3>3 DEF Maybe
    <3>. QED
      BY <3>6, <3>7, <1>5 DEF Answers
  <2>. QED
    BY <2>2, <2>3, <2>4
<1>17. ASSUME Get(c) PROVE \E doc \in Maybe, answer \in Answers, found \in Maybe, event \in BOOLEAN :
               Commits(c, doc, answer, found, event)
  <2>. DEFINE said == IF seen = Absent THEN "absent" ELSE "done"
  <2>1. Ready(c, "get") /\ a.op = "get" /\ known' = known
    BY <1>17 DEF Get, Ready, NobodyEnters
  <2>2. Leaves(c, mem[k], said, seen, FALSE)
    BY <1>17 DEF Get
  <2>3. Contract!After(a, seen) = seen /\ Contract!Answer(a, seen) = said
        /\ Contract!Found(a, seen) = seen
    BY <2>1 DEF Contract!After, Contract!Answer, Contract!Found
  <2>4. Commits(c, mem[k], said, seen, FALSE)
    BY <2>1, <2>2, <2>3, <1>2, <1>3, <1>8, <1>9 DEF Commits, Ready
  <2>. QED
    BY <2>4, <1>3, <1>5 DEF Answers
<1>. QED
  BY <1>12, <1>13, <1>14, <1>15, <1>16, <1>17 DEF OneDocument

-----------------------------------------------------------------------------
(* Types and locks.                                                        *)

\* A call's own record is replaced, and no other.
LEMMA AtType ==
    ASSUME TypeOK, NEW c \in Clients, NEW s \in Calls, At(c, s)
    PROVE  /\ calls' \in [Clients -> Calls] /\ calls'[c] = s
           /\ \A d \in Clients : d # c => calls'[d] = calls[d]
BY DEF At, TypeOK

\* Every step of a client keeps the types.
LEMMA CallType ==
    ASSUME StoreInv, NEW c \in Clients, Call(c) \/ HangUp(c), stayed' \subseteq Keys
    PROVE  TypeOK'
<1>. USE DEF StoreInv
<1>1. Idle \in Calls /\ Free \in Sections
  BY DEF Idle, Free, Calls, Sections
<1>2. calls[c] \in Calls /\ Nobody # c
  BY FileStoreAssumption DEF TypeOK
<1>3. ASSUME Ask(c) PROVE TypeOK'
  <2>1. PICK a \in Asks : At(c, [pc |-> "asked", ask |-> a])
    BY <1>3 DEF Ask
  <2>2. [pc |-> "asked", ask |-> a] \in Calls
    BY DEF Calls
  <2>3. asked' \in 0..MaxCalls
    BY <1>3, FileStoreAssumption DEF Ask, TypeOK
  <2>4. order # Nobody => order # c
    BY <1>3 DEF Ask, TypeOK
  <2>. QED
    BY <2>1, <2>2, <2>3, <2>4, <1>3, AtType DEF Ask, TypeOK, CallInv, Sections
<1>4. ASSUME emit_ordered(c) PROVE TypeOK'
  <2>1. [pc |-> "ordered", ask |-> calls[c].ask] \in Calls
    BY <1>2, <1>4 DEF Calls, emit_ordered
  <2>. QED
    BY <2>1, <1>4, AtType DEF emit_ordered, TypeOK, CallInv, Sections
<1>5. ASSUME OneDocument(c) PROVE TypeOK'
  <2>1. PICK doc \in Maybe, answer \in Answers, found \in Maybe, event \in BOOLEAN :
            Commits(c, doc, answer, found, event)
    BY <1>5, CallCommits
  <2>. DEFINE k == calls[c].ask.key
              s == [pc |-> "done", ask |-> calls[c].ask, answer |-> answer, found |-> found,
                    event |-> IsEntity(k) /\ event, image |-> doc]
  <2>2. calls[c].ask \in Asks /\ k \in Keys
    BY <2>1, <1>2 DEF Commits, Calls
  <2>3. s \in Calls
    BY <2>2 DEF Calls, Maybe, IsEntity
  <2>4. At(c, s)
    BY <2>1 DEF Commits, Leaves
  <2>5. mem' \in [Keys -> Docs \cup {Absent}] /\ file' \in [Keys -> Docs \cup {Absent}]
    BY <2>1, <2>2 DEF Commits, Leaves, TypeOK, Maybe
  <2>6. gap' \subseteq Keys
    BY <2>1, <2>2 DEF Commits, Leaves, TypeOK
  <2>7. calls' \in [Clients -> Calls] /\ calls'[c].pc = "done" /\ (\A o \in Clients \ {c} : calls'[o] = calls[o])
    BY <2>3, <2>4, AtType DEF TypeOK
  <2>8. /\ known' \subseteq Tenants /\ UNCHANGED <<time, section, order, told, walk, asked, faults>>
        /\ section.what = "free"
    BY <2>1, <2>2 DEF Commits, Leaves, TypeOK
  <2>9. order # Nobody => calls'[order].pc \in {"ordered", "done"}
    BY <2>7 DEF TypeOK
  <2>. QED
    BY <2>5, <2>6, <2>7, <2>8, <2>9 DEF TypeOK
<1>6. ASSUME emit(c) PROVE TypeOK'
  <2>1. At(c, Idle)
    BY <1>6 DEF emit
  <2>2. calls[c].event \in BOOLEAN /\ calls[c].image \in Docs \cup {Absent}
    BY <1>2, <1>6 DEF Calls, emit
  <2>3. told' \in [Keys -> Docs \cup {Absent}]
    BY <2>2, <1>6 DEF emit, TypeOK, CallInv
  <2>. QED
    BY <2>1, <2>3, <1>1, <1>6, AtType DEF emit, TypeOK, CallInv, Sections
<1>7. ASSUME purge_kinds(c) PROVE TypeOK'
  <2>. DEFINE t == calls[c].ask.tenant
              s == [pc |-> "purging", ask |-> calls[c].ask,
                    answer |-> IF t \in known THEN "done" ELSE "absent"]
              todo == {k \in DocsOf(t) : Held(k)}
  <2>1. calls[c].pc = "asked" /\ section.what = "free"
    BY <1>7 DEF purge_kinds, Ready, NeedsOrder, Writes
  <2>2. s \in Calls /\ At(c, s)
    BY <2>1, <1>2, <1>7 DEF purge_kinds, Calls, Answers
  <2>3. section' = [who |-> c, what |-> "purge", todo |-> todo] /\ todo \in SUBSET Keys
    BY <1>7 DEF purge_kinds, DocsOf
  <2>4. section' \in Sections /\ section'.who = c
    BY <2>3 DEF Sections
  <2>5. mem' \in [Keys -> Docs \cup {Absent}] /\ gap' \subseteq Keys
    BY <1>7 DEF purge_kinds, TypeOK, DocsOf
  <2>6. calls' \in [Clients -> Calls] /\ calls'[c].pc = "purging"
        /\ \A d \in Clients : d # c => calls'[d] = calls[d]
    BY <2>2, AtType
  <2>7. order # c
    BY <2>1, <1>2 DEF TypeOK
  <2>8. UNCHANGED <<time, file, order, told, walk, asked, faults>>
        /\ known' \subseteq Tenants
    BY <1>7 DEF purge_kinds, TypeOK
  <2>. QED
    BY <2>4, <2>5, <2>6, <2>7, <2>8 DEF TypeOK
<1>8. ASSUME purge_contexts(c) PROVE TypeOK'
  <2>. DEFINE t == calls[c].ask.tenant
              s == [pc |-> "purging", ask |-> calls[c].ask, answer |-> calls[c].answer]
              todo == {k \in ContextsOf(t) : Held(k)}
  <2>1. s \in Calls /\ At(c, s) /\ calls[c].pc = "purged"
    BY <1>2, <1>8 DEF purge_contexts, Calls, Answers
  <2>2. section' = [who |-> c, what |-> "contexts", todo |-> todo] /\ todo \in SUBSET Keys
    BY <1>8 DEF purge_contexts, ContextsOf
  <2>3. section' \in Sections /\ section'.who = c
    BY <2>2 DEF Sections
  <2>4. calls' \in [Clients -> Calls] /\ calls'[c].pc = "purging"
        /\ \A d \in Clients : d # c => calls'[d] = calls[d]
    BY <2>1, AtType
  <2>5. order # c
    BY <2>1, <1>2 DEF TypeOK
  <2>6. UNCHANGED <<time, mem, file, known, order, told, gap, walk, asked, faults>>
    BY <1>8 DEF purge_contexts
  <2>. QED
    BY <2>3, <2>4, <2>5, <2>6 DEF TypeOK
<1>9. ASSUME LeavePurge(c) PROVE TypeOK'
  <2>1. calls[c].pc = "purging" /\ section.who = c
    BY <1>9 DEF LeavePurge, TypeOK
  <2>2. calls[c].ask \in Asks /\ calls[c].answer \in {"done", "absent"}
    BY <2>1, <1>2 DEF Calls
  <2>3. PICK s \in Calls : At(c, s)
    <3>1. CASE section.what = "purge"
      <4>1. [pc |-> "purged", ask |-> calls[c].ask, answer |-> calls[c].answer] \in Calls
        BY <2>2 DEF Calls
      <4>. QED
        BY <4>1, <3>1, <1>9 DEF LeavePurge
    <3>2. CASE section.what # "purge"
      <4>1. [pc |-> "done", ask |-> calls[c].ask, answer |-> calls[c].answer,
              found |-> Absent, event |-> FALSE, image |-> Absent] \in Calls
        BY <2>2 DEF Calls, Answers
      <4>. QED
        BY <4>1, <3>2, <1>9 DEF LeavePurge
    <3>. QED
      BY <3>1, <3>2
  <2>4. calls' \in [Clients -> Calls] /\ \A d \in Clients : d # c => calls'[d] = calls[d]
    BY <2>3, AtType
  <2>5. order # c
    BY <2>1, <1>2 DEF TypeOK
  <2>6. section' = Free /\ UNCHANGED <<time, mem, file, known, order, told, gap, walk, asked, faults>>
    BY <1>9 DEF LeavePurge
  <2>. QED
    BY <2>4, <2>5, <2>6, <1>1 DEF TypeOK, Free
<1>10. ASSUME HangUp(c) PROVE TypeOK'
  <2>1. At(c, Idle) /\ calls[c].pc \in {"asked", "done"}
    BY <1>10 DEF HangUp
  <2>2. gap' \subseteq Keys
    BY <1>10 DEF HangUp, TypeOK, CallInv
  <2>3. faults' \in 0..MaxFaults
    BY <1>10, FileStoreAssumption DEF HangUp, Fault, TypeOK
  <2>. QED
    BY <2>1, <2>2, <2>3, <1>1, <1>10, AtType DEF HangUp, TypeOK, CallInv, Sections
<1>. QED
  BY <1>3, <1>4, <1>5, <1>6, <1>7, <1>8, <1>9, <1>10 DEF Call, OneDocument

\* So does every other step.
LEMMA TypeStep ==
    ASSUME StoreInv, [Next]_vars
    PROVE  TypeOK'
<1>. USE DEF StoreInv
<1>1. CASE UNCHANGED vars
  BY <1>1 DEF vars, coreVars, TypeOK
<1>. SUFFICES ASSUME Next PROVE TypeOK'
  BY <1>1
<1>2. stayed' \subseteq Keys
  BY DEF Next, TypeOK, EntitiesOf
<1>3. ASSUME NEW c \in Clients, Call(c) \/ HangUp(c) PROVE TypeOK'
  BY <1>2, <1>3, CallType
<1>4. ASSUME NEW k \in Keys, PersistPurge(k) PROVE TypeOK'
  <2>1. section.what \in {"purge", "contexts"} /\ section \in Sections
    BY <1>4 DEF PersistPurge, TypeOK
  <2>2. section' = [section EXCEPT !.todo = @ \ {k}]
    BY <1>4 DEF PersistPurge
  <2>3. section' \in Sections /\ section'.who = section.who /\ section'.what = section.what
    BY <2>1, <2>2 DEF Sections
  <2>. QED
    BY <2>3, <1>2, <1>4 DEF PersistPurge, TypeOK
<1>5. ASSUME NEW k \in Keys, Reap(k) PROVE TypeOK'
  <2>1. strip_expired(mem[k], section.now) \in Docs \cup {Absent}
    BY ReadType DEF TypeOK, Maybe
  <2>. QED
    BY <2>1, <1>2, <1>5 DEF Reap, TypeOK
<1>6. ASSUME Sweep PROVE TypeOK'
  <2>1. section' \in Sections /\ section'.what = "sweep"
    BY <1>6, FileStoreAssumption DEF Sweep, Sections, TypeOK
  <2>. QED
    BY <2>1, <1>2, <1>6 DEF Sweep, TypeOK
<1>7. ASSUME LeaveSweep PROVE TypeOK'
  BY <1>2, <1>7 DEF LeaveSweep, TypeOK, Sections, Free
<1>8. ASSUME NEW t \in Tenants, BeginWalk(t) PROVE TypeOK'
  <2>1. walk' \in [pc : {"walking", "walked"}, tenant : Tenants, after : Nat, got : SUBSET Keys]
    BY <1>8 DEF BeginWalk
  <2>. QED
    BY <2>1, <1>2, <1>8 DEF BeginWalk, TypeOK, coreVars
<1>9. ASSUME list_page PROVE TypeOK'
  <2>. DEFINE rows == Rows(walk.tenant, walk.after)
  <2>1. walk \in [pc : {"walking", "walked"}, tenant : Tenants, after : Nat, got : SUBSET Keys]
    BY <1>9 DEF list_page, TypeOK
  <2>2. rows \subseteq Keys /\ \A last : UpTo(rows, last) \subseteq Keys
    BY DEF Rows, EntitiesOf, UpTo
  <2>3. walk' \in [pc : {"walking", "walked"}, tenant : Tenants, after : Nat, got : SUBSET Keys]
    <3>1. CASE walk' = [walk EXCEPT !.got = @ \cup rows, !.pc = "walked"]
      BY <2>1, <2>2, <3>1
    <3>2. CASE \E last \in rows : walk' = [walk EXCEPT !.got = @ \cup UpTo(rows, last), !.after = last.id]
      <4>1. PICK last \in rows : walk' = [walk EXCEPT !.got = @ \cup UpTo(rows, last), !.after = last.id]
        BY <3>2
      <4>2. last.id \in Nat
        BY <2>2, FileStoreAssumption
      <4>. QED
        BY <2>1, <2>2, <4>1, <4>2
    <3>. QED
      BY <3>1, <3>2, <1>9 DEF list_page
  <2>. QED
    BY <2>3, <1>2, <1>9 DEF list_page, TypeOK, coreVars
<1>10. ASSUME Crash PROVE TypeOK'
  <2>1. known' \subseteq Tenants
    BY <1>10 DEF Crash, Tenants
  <2>2. calls' \in [Clients -> Calls] /\ section' \in Sections /\ section'.what = "free"
    BY <1>10 DEF Crash, Calls, Sections, Idle, Free
  <2>3. faults' \in 0..MaxFaults
    BY <1>10, FileStoreAssumption DEF Crash, Fault, TypeOK
  <2>. QED
    BY <2>1, <2>2, <2>3, <1>2, <1>10 DEF Crash, TypeOK, Still
<1>11. ASSUME Tick PROVE TypeOK'
  BY <1>2, <1>11, FileStoreAssumption DEF Tick, TypeOK
<1>. QED
  BY <1>3, <1>4, <1>5, <1>6, <1>7, <1>8, <1>9, <1>10, <1>11 DEF Next, Step

-----------------------------------------------------------------------------
(* The strengthening.                                                      *)

\* It holds at the start.
LEMMA StoreStart ==
    ASSUME Init
    PROVE  StoreInv /\ FeedTrue
<1>1. TypeOK
  <2>1. Idle \in Calls /\ Free \in Sections /\ Still \in [pc : {"still"}]
    BY DEF Idle, Free, Still, Calls, Sections
  <2>2. Idle.pc = "idle" /\ Free.what = "free" /\ Nobody \notin Clients
    BY FileStoreAssumption DEF Idle, Free
  <2>. QED
    BY <2>1, <2>2, FileStoreAssumption DEF Init, TypeOK
<1>2. CallInv
  BY DEF Init, CallInv, Idle
<1>3. MapsInv
  BY DEF Init, MapsInv, Free
<1>4. FeedTrue
  BY DEF Init, FeedTrue
<1>. QED
  BY <1>1, <1>2, <1>3, <1>4 DEF StoreInv

\* The locks, step by step.
LEMMA CallStep ==
    ASSUME StoreInv, [Next]_vars
    PROVE  CallInv'
<1>. USE DEF StoreInv
<1>. DEFINE Good(d) ==
        /\ calls[d].pc = "ordered" => order = d
        /\ calls[d].pc \in {"purging", "purged"} => calls[d].ask.op = "purge"
        /\ calls[d].pc = "purging" => section.what \in {"purge", "contexts"} /\ section.who = d
        /\ calls[d].pc = "done" /\ calls[d].event =>
              /\ order = d /\ calls[d].ask.key \in Keys /\ IsEntity(calls[d].ask.key)
              /\ \/ calls[d].ask.key \in gap
                 \/ Read(calls[d].ask.key, calls[d].image, time)
                      = Read(calls[d].ask.key, mem[calls[d].ask.key], time)
<1>1. CASE UNCHANGED vars
  BY <1>1 DEF vars, coreVars, CallInv
<1>. SUFFICES ASSUME Next, NEW d \in Clients PROVE Good(d)'
  BY <1>1 DEF CallInv
<1>2. Good(d) /\ calls[d] \in Calls /\ time \in Nat /\ mem \in [Keys -> Maybe]
  BY FileStoreAssumption DEF CallInv, TypeOK, Maybe
<1>3. ASSUME NEW c \in Clients, Ask(c) PROVE Good(d)'
  BY <1>2, <1>3, AtType DEF Ask, At, TypeOK
<1>4. ASSUME NEW c \in Clients, emit_ordered(c) PROVE Good(d)'
  BY <1>2, <1>4, FileStoreAssumption DEF emit_ordered, At, TypeOK, CallInv
<1>5. ASSUME NEW c \in Clients, OneDocument(c) PROVE Good(d)'
  <2>1. PICK doc \in Maybe, answer \in Answers, found \in Maybe, event \in BOOLEAN :
            Commits(c, doc, answer, found, event)
    BY <1>5, CallCommits
  <2>. DEFINE k == calls[c].ask.key
  <2>2. /\ calls' = [calls EXCEPT ![c] = [pc |-> "done", ask |-> calls[c].ask, answer |-> answer,
                        found |-> found, event |-> IsEntity(k) /\ event, image |-> doc]]
        /\ mem' = [mem EXCEPT ![k] = doc]
        /\ gap' = (IF IsEntity(k) /\ event THEN gap \ {k} ELSE gap)
        /\ UNCHANGED <<time, section, order>>
    BY <2>1 DEF Commits, Leaves, At
  <2>3. calls[c].pc \in {"asked", "ordered"} /\ k \in Keys
        /\ (IsEntity(k) /\ event => calls[c].pc = "ordered" /\ order = c)
        /\ (event \/ doc = mem[k])
    BY <2>1 DEF Commits, CallInv
  <2>4. CASE d = c
    <3>1. calls'[d].pc = "done" /\ calls'[d].ask = calls[c].ask /\ calls'[d].image = doc
          /\ calls'[d].event = (IsEntity(k) /\ event)
      BY <2>2, <2>4 DEF TypeOK
    <3>2. mem'[k] = doc
      BY <2>2, <2>3, <1>2
    <3>. QED
      BY <3>1, <3>2, <2>2, <2>3, <2>4
  <2>5. CASE d # c
    <3>1. calls'[d] = calls[d]
      BY <2>2, <2>5 DEF TypeOK
    <3>2. CASE calls[d].pc = "done" /\ calls[d].event
      <4>1. order = d /\ ~ (IsEntity(k) /\ event)
        BY <3>2, <1>2, <2>3, <2>5
      <4>2. gap' = gap /\ mem'[calls[d].ask.key] = mem[calls[d].ask.key]
        <5>1. CASE event
          BY <3>2, <4>1, <5>1, <1>2, <2>2, <2>3
        <5>2. CASE ~ event
          BY <3>2, <5>2, <1>2, <2>2, <2>3
        <5>. QED
          BY <5>1, <5>2
      <4>. QED
        BY <4>1, <4>2, <3>1, <3>2, <1>2, <2>2
    <3>3. CASE ~ (calls[d].pc = "done" /\ calls[d].event)
      BY <3>1, <3>3, <1>2, <2>2
    <3>. QED
      BY <3>2, <3>3
  <2>. QED
    BY <2>4, <2>5
<1>6. ASSUME NEW c \in Clients, emit(c) PROVE Good(d)'
  BY <1>2, <1>6 DEF emit, At, TypeOK, Idle, CallInv
<1>7. ASSUME NEW c \in Clients, purge_kinds(c) PROVE Good(d)'
  <2>. DEFINE t == calls[c].ask.tenant
  <2>1. calls[c].ask.op = "purge" /\ section.what = "free"
    BY <1>7 DEF purge_kinds, Ready
  <2>2. /\ section' = [who |-> c, what |-> "purge", todo |-> {k \in DocsOf(t) : Held(k)}]
        /\ mem' = [k \in Keys |-> IF k \in DocsOf(t) THEN Absent ELSE mem[k]]
        /\ gap' = gap \cup {k \in DocsOf(t) : IsEntity(k)}
        /\ calls' = [calls EXCEPT ![c] = [pc |-> "purging", ask |-> calls[c].ask,
                        answer |-> IF t \in known THEN "done" ELSE "absent"]]
        /\ UNCHANGED <<time, order>>
    BY <1>7 DEF purge_kinds, At
  <2>3. CASE d = c
    BY <2>1, <2>2, <2>3 DEF TypeOK
  <2>4. CASE d # c
    <3>1. calls'[d] = calls[d] /\ calls[d].pc # "purging"
      BY <2>1, <2>2, <2>4, <1>2 DEF TypeOK
    <3>2. CASE calls[d].pc = "done" /\ calls[d].event
      <4>. DEFINE k == calls[d].ask.key
      <4>1. k \in Keys /\ order = d
        BY <3>2, <1>2
      <4>2. CASE k \in DocsOf(t)
        <5>1. k \in gap'
          BY <4>2, <3>2, <1>2, <2>2
        <5>. QED
          BY <4>1, <5>1, <3>1, <3>2, <1>2, <2>2
      <4>3. CASE k \notin DocsOf(t)
        BY <4>1, <4>3, <3>1, <3>2, <1>2, <2>2
      <4>. QED
        BY <4>2, <4>3
    <3>3. CASE ~ (calls[d].pc = "done" /\ calls[d].event)
      BY <3>1, <3>3, <1>2, <2>2
    <3>. QED
      BY <3>2, <3>3
  <2>. QED
    BY <2>3, <2>4
<1>8. ASSUME NEW c \in Clients, purge_contexts(c) PROVE Good(d)'
  BY <1>2, <1>8 DEF purge_contexts, At, TypeOK, CallInv
<1>9. ASSUME NEW c \in Clients, LeavePurge(c) PROVE Good(d)'
  BY <1>2, <1>9 DEF LeavePurge, At, TypeOK, CallInv, Free
<1>10. ASSUME NEW c \in Clients, HangUp(c) PROVE Good(d)'
  BY <1>2, <1>10 DEF HangUp, At, TypeOK, Idle, CallInv
<1>11. ASSUME NEW k \in Keys, PersistPurge(k) PROVE Good(d)'
  <2>1. /\ mem' = [mem EXCEPT ![k] = Absent] /\ section' = [section EXCEPT !.todo = @ \ {k}]
        /\ section.what \in {"purge", "contexts"} /\ k \in section.todo
        /\ UNCHANGED <<time, order, calls, gap>>
    BY <1>11 DEF PersistPurge
  <2>2. section'.what = section.what /\ section'.who = section.who
    BY <2>1 DEF TypeOK, Sections
  <2>3. ASSUME calls[d].pc = "done" /\ calls[d].event
        PROVE  mem'[calls[d].ask.key] = mem[calls[d].ask.key]
    <3>1. calls[d].ask.key \in Keys /\ IsEntity(calls[d].ask.key)
      BY <1>2, <2>3
    <3>2. CASE section.what = "purge"
      <4>1. mem[k] = Absent
        BY <3>2, <2>1 DEF MapsInv
      <4>. QED
        BY <3>1, <4>1, <2>1, <1>2
    <3>3. CASE section.what = "contexts"
      <4>1. ~ IsEntity(k)
        BY <3>3, <2>1 DEF MapsInv, ContextsOf, IsContext, IsEntity
      <4>. QED
        BY <3>1, <4>1, <2>1, <1>2
    <3>. QED
      BY <3>2, <3>3, <2>1
  <2>. QED
    BY <2>1, <2>2, <2>3, <1>2
<1>12. ASSUME NEW k \in Keys, Reap(k) PROVE Good(d)'
  <2>1. /\ mem' = [mem EXCEPT ![k] = strip_expired(mem[k], section.now)]
        /\ section.what = "sweep" /\ IsEntity(k)
        /\ UNCHANGED <<time, section, order, calls, gap>>
    BY <1>12 DEF Reap
  <2>2. section.now \in Nat /\ section.now <= time
    BY <2>1, FileStoreAssumption DEF TypeOK, Sections, MapsInv
  <2>3. Read(k, mem'[k], time) = Read(k, mem[k], time)
    BY <2>1, <2>2, <1>2, StripTwice DEF Read
  <2>4. \A j \in Keys : Read(j, mem'[j], time) = Read(j, mem[j], time)
    BY <2>1, <2>3, <1>2
  <2>. QED
    BY <2>1, <2>4, <1>2
<1>13. ASSUME Tick PROVE Good(d)'
  <2>1. time' = time + 1 /\ UNCHANGED <<mem, section, order, calls, gap>>
    BY <1>13 DEF Tick
  <2>2. ASSUME calls[d].pc = "done" /\ calls[d].event, calls[d].ask.key \notin gap
        PROVE  Read(calls[d].ask.key, calls[d].image, time')
                 = Read(calls[d].ask.key, mem[calls[d].ask.key], time')
    <3>. DEFINE k == calls[d].ask.key
    <3>1. calls[d].image \in Maybe /\ mem[k] \in Maybe
          /\ Read(k, calls[d].image, time) = Read(k, mem[k], time)
      BY <2>2, <1>2 DEF Calls, Maybe
    <3>2. /\ Read(k, Read(k, calls[d].image, time), time') = Read(k, calls[d].image, time')
          /\ Read(k, Read(k, mem[k], time), time') = Read(k, mem[k], time')
      BY <3>1, <2>1, <1>2, ReadTwice
    <3>. QED
      BY <3>1, <3>2
  <2>. QED
    BY <2>1, <2>2, <1>2
<1>14. ASSUME Sweep PROVE Good(d)'
  BY <1>2, <1>14 DEF Sweep
<1>15. ASSUME LeaveSweep PROVE Good(d)'
  BY <1>2, <1>15 DEF LeaveSweep
<1>16. ASSUME (\E t \in Tenants : BeginWalk(t)) \/ list_page PROVE Good(d)'
  BY <1>2, <1>16 DEF BeginWalk, list_page, coreVars
<1>17. ASSUME Crash PROVE Good(d)'
  BY <1>17 DEF Crash, Idle
<1>. QED
  BY <1>3, <1>4, <1>5, <1>6, <1>7, <1>8, <1>9, <1>10, <1>11, <1>12, <1>13, <1>14, <1>15, <1>16, <1>17
     DEF Next, Step, Call, OneDocument

\* Nobody is in a purge while another holds the section, or nobody does.
LEMMA Alone ==
    ASSUME StoreInv, NEW c \in Clients, calls[c].pc \notin {"purging"}
    PROVE  section.what \in {"purge", "contexts"} => section.who # c
BY DEF StoreInv, TypeOK

\* Maps and file, step by step.
LEMMA MapsStep ==
    ASSUME StoreInv, [Next]_vars
    PROVE  MapsInv'
<1>. USE DEF StoreInv
<1>1. CASE UNCHANGED vars
  BY <1>1 DEF vars, coreVars, MapsInv, DocsOf, ContextsOf
<1>. SUFFICES ASSUME Next PROVE MapsInv'
  BY <1>1
<1>2. /\ mem \in [Keys -> Maybe] /\ file \in [Keys -> Maybe] /\ time \in Nat /\ section \in Sections
      /\ \A c \in Clients : calls[c] \in Calls
      /\ calls \in [Clients -> Calls]
  BY FileStoreAssumption DEF TypeOK, Maybe
<1>3. ASSUME NEW c \in Clients, NEW s, At(c, s), calls[c].pc # "purging",
             UNCHANGED <<mem, file, section, time>>
      PROVE  MapsInv'
  <2>1. section.what \in {"purge", "contexts"} => section.who # c /\ section.who \in Clients
    BY <1>2, <1>3, Alone DEF Sections
  <2>2. section.what \in {"purge", "contexts"} => calls'[section.who] = calls[section.who]
    BY <2>1, <1>2, <1>3 DEF At
  <2>. QED
    BY <2>2, <1>3 DEF MapsInv, DocsOf, ContextsOf
<1>4. ASSUME NEW c \in Clients, Ask(c) PROVE MapsInv'
  <2>1. PICK a \in Asks : At(c, [pc |-> "asked", ask |-> a])
    BY <1>4 DEF Ask
  <2>. QED
    BY <2>1, <1>3, <1>4 DEF Ask
<1>5. ASSUME NEW c \in Clients, emit_ordered(c) PROVE MapsInv'
  BY <1>3, <1>5 DEF emit_ordered
<1>6. ASSUME NEW c \in Clients, OneDocument(c) PROVE MapsInv'
  <2>1. PICK doc \in Maybe, answer \in Answers, found \in Maybe, event \in BOOLEAN :
            Commits(c, doc, answer, found, event)
    BY <1>6, CallCommits
  <2>. DEFINE k == calls[c].ask.key
  <2>2. /\ mem' = [mem EXCEPT ![k] = doc] /\ file' = [file EXCEPT ![k] = doc]
        /\ section' = section /\ section.what = "free"
    BY <2>1 DEF Commits, Leaves
  <2>. QED
    BY <2>2, <1>2 DEF MapsInv
<1>7. ASSUME NEW c \in Clients, emit(c) PROVE MapsInv'
  BY <1>3, <1>7 DEF emit
<1>8. ASSUME NEW c \in Clients, purge_kinds(c) PROVE MapsInv'
  <2>. DEFINE t == calls[c].ask.tenant
              todo == {k \in DocsOf(t) : Held(k)}
  <2>1. /\ section.what = "free" /\ section' = [who |-> c, what |-> "purge", todo |-> todo]
        /\ mem' = [k \in Keys |-> IF k \in DocsOf(t) THEN Absent ELSE mem[k]]
        /\ file' = file
        /\ calls' = [calls EXCEPT ![c] = [pc |-> "purging", ask |-> calls[c].ask,
                        answer |-> IF t \in known THEN "done" ELSE "absent"]]
    BY <1>8 DEF purge_kinds, Ready, At
  <2>2. calls'[c].ask.tenant = t
    BY <2>1, <1>2
  <2>3. todo \subseteq DocsOf(t) /\ DocsOf(t) \subseteq Keys /\ DocsOf(t)' = DocsOf(t)
        /\ \A k \in todo : mem'[k] = Absent
    BY <2>1 DEF DocsOf
  <2>4. \A k \in Keys : mem'[k] = file'[k] \/ k \in todo
    <3>. SUFFICES ASSUME NEW k \in Keys, k \notin todo PROVE mem'[k] = file'[k]
      OBVIOUS
    <3>1. mem[k] = file[k]
      BY <2>1 DEF MapsInv
    <3>. QED
      BY <3>1, <2>1 DEF Held
  <2>5. calls'[section'.who].ask.tenant = t /\ section'.todo = todo /\ section'.what = "purge"
    BY <2>1, <2>2
  <2>6. DocsOf(calls[section.who].ask.tenant)' = DocsOf(t)
    BY <2>5 DEF DocsOf
  <2>. QED
    BY <2>3, <2>4, <2>5, <2>6 DEF MapsInv
<1>9. ASSUME NEW c \in Clients, purge_contexts(c) PROVE MapsInv'
  <2>. DEFINE t == calls[c].ask.tenant
              todo == {k \in ContextsOf(t) : Held(k)}
  <2>1. /\ section.what = "free" /\ section' = [who |-> c, what |-> "contexts", todo |-> todo]
        /\ UNCHANGED <<mem, file>>
        /\ calls' = [calls EXCEPT ![c] = [pc |-> "purging", ask |-> calls[c].ask,
                        answer |-> calls[c].answer]]
    BY <1>9 DEF purge_contexts, At
  <2>2. calls'[section'.who].ask.tenant = t /\ section'.todo = todo /\ section'.what = "contexts"
    BY <2>1, <1>2
  <2>3. ContextsOf(calls[section.who].ask.tenant)' = ContextsOf(t)
    BY <2>2 DEF ContextsOf
  <2>. QED
    BY <2>1, <2>2, <2>3 DEF MapsInv
<1>10. ASSUME NEW c \in Clients, LeavePurge(c) PROVE MapsInv'
  BY <1>10 DEF LeavePurge, MapsInv, Free
<1>11. ASSUME NEW c \in Clients, HangUp(c) PROVE MapsInv'
  BY <1>3, <1>11 DEF HangUp
<1>12. ASSUME NEW k \in Keys, PersistPurge(k) PROVE MapsInv'
  <2>1. /\ file' = [file EXCEPT ![k] = Absent] /\ mem' = [mem EXCEPT ![k] = Absent]
        /\ section' = [section EXCEPT !.todo = @ \ {k}]
        /\ section.what \in {"purge", "contexts"} /\ UNCHANGED calls
    BY <1>12 DEF PersistPurge
  <2>2. section'.what = section.what /\ section'.who = section.who /\ section'.todo = section.todo \ {k}
    BY <2>1, <1>2 DEF Sections
  <2>3. \A j \in Keys : mem'[j] = file'[j] \/ (section'.what = "purge" /\ j \in section'.todo)
    BY <2>1, <2>2, <1>2 DEF MapsInv
  <2>4. section'.what = "purge" => \A j \in section'.todo : mem'[j] = Absent
    <3>. SUFFICES ASSUME section'.what = "purge", NEW j \in section'.todo PROVE mem'[j] = Absent
      OBVIOUS
    <3>1. j \in section.todo /\ j # k /\ mem[j] = Absent /\ section.todo \in SUBSET Keys
      BY <2>1, <2>2, <1>2 DEF MapsInv, Sections
    <3>. QED
      BY <3>1, <2>1, <1>2
  <2>5. /\ DocsOf(calls[section.who].ask.tenant)' = DocsOf(calls[section.who].ask.tenant)
        /\ ContextsOf(calls[section.who].ask.tenant)' = ContextsOf(calls[section.who].ask.tenant)
    BY <2>1, <2>2 DEF DocsOf, ContextsOf
  <2>. QED
    BY <2>1, <2>2, <2>3, <2>4, <2>5 DEF MapsInv
<1>13. ASSUME NEW k \in Keys, Reap(k) PROVE MapsInv'
  <2>1. /\ section.what = "sweep" /\ UNCHANGED <<section, time>>
        /\ file' = [file EXCEPT ![k] = strip_expired(mem[k], section.now)]
        /\ mem' = [mem EXCEPT ![k] = strip_expired(mem[k], section.now)]
    BY <1>13 DEF Reap
  <2>. QED
    BY <2>1, <1>2 DEF MapsInv
<1>14. ASSUME Sweep PROVE MapsInv'
  BY <1>2, <1>14 DEF Sweep, MapsInv
<1>15. ASSUME LeaveSweep PROVE MapsInv'
  BY <1>15 DEF LeaveSweep, MapsInv, Free
<1>16. ASSUME (\E t \in Tenants : BeginWalk(t)) \/ list_page PROVE MapsInv'
  BY <1>16 DEF BeginWalk, list_page, coreVars, MapsInv, DocsOf, ContextsOf
<1>17. ASSUME Crash PROVE MapsInv'
  BY <1>17 DEF Crash, MapsInv, Free
<1>18. ASSUME Tick PROVE MapsInv'
  BY <1>2, <1>18, FileStoreAssumption DEF Tick, MapsInv, DocsOf, ContextsOf, Sections
<1>. QED
  BY <1>4, <1>5, <1>6, <1>7, <1>8, <1>9, <1>10, <1>11, <1>12, <1>13, <1>14, <1>15, <1>16, <1>17, <1>18
     DEF Next, Step, Call, OneDocument

\* StoreInv is inductive.
LEMMA StoreStep ==
    ASSUME StoreInv, [Next]_vars
    PROVE  StoreInv'
BY TypeStep, CallStep, MapsStep DEF StoreInv

-----------------------------------------------------------------------------
(* What the hook is told.                                                  *)

\* The hook's word stays true, step by step.
LEMMA FeedStep ==
    ASSUME StoreInv, FeedTrue, [Next]_vars
    PROVE  FeedTrue'
<1>. USE DEF StoreInv
<1>. DEFINE Pending(c, k) == calls[c].pc = "done" /\ calls[c].event /\ calls[c].ask.key = k
            True(k) == \/ ~ IsEntity(k) \/ k \in gap
                       \/ \E c \in Clients : Pending(c, k)
                       \/ Read(k, told[k], time) = Read(k, mem[k], time)
<1>1. CASE UNCHANGED vars
  BY <1>1 DEF vars, coreVars, FeedTrue
<1>. SUFFICES ASSUME Next, NEW k \in Keys, IsEntity(k) PROVE True(k)'
  BY <1>1 DEF FeedTrue, IsEntity
<1>2. /\ mem \in [Keys -> Maybe] /\ told \in [Keys -> Maybe] /\ calls \in [Clients -> Calls]
      /\ time \in Nat /\ True(k)
  BY FileStoreAssumption DEF TypeOK, Maybe, FeedTrue
<1>3. ASSUME NEW c \in Clients, NEW s, At(c, s), calls[c].pc # "done",
             UNCHANGED <<mem, told, gap, time>>
      PROVE  True(k)'
  <2>1. ASSUME NEW d \in Clients, Pending(d, k) PROVE Pending(d, k)'
    BY <2>1, <1>2, <1>3 DEF At
  <2>. QED
    BY <2>1, <1>2, <1>3
<1>4. ASSUME NEW c \in Clients, Ask(c) PROVE True(k)'
  <2>1. PICK a \in Asks : At(c, [pc |-> "asked", ask |-> a])
    BY <1>4 DEF Ask
  <2>. QED
    BY <2>1, <1>3, <1>4 DEF Ask
<1>5. ASSUME NEW c \in Clients, emit_ordered(c) PROVE True(k)'
  BY <1>3, <1>5 DEF emit_ordered
<1>6. ASSUME NEW c \in Clients, OneDocument(c) PROVE True(k)'
  <2>1. PICK doc \in Maybe, answer \in Answers, found \in Maybe, event \in BOOLEAN :
            Commits(c, doc, answer, found, event)
    BY <1>6, CallCommits
  <2>. DEFINE j == calls[c].ask.key
              s == [pc |-> "done", ask |-> calls[c].ask, answer |-> answer, found |-> found,
                    event |-> IsEntity(j) /\ event, image |-> doc]
  <2>2. /\ mem' = [mem EXCEPT ![j] = doc]
        /\ calls' = [calls EXCEPT ![c] = s]
        /\ gap' = (IF IsEntity(j) /\ event THEN gap \ {j} ELSE gap)
        /\ calls[c].pc # "done" /\ j \in Keys /\ (event \/ doc = mem[j])
        /\ UNCHANGED <<told, time>>
    BY <2>1 DEF Commits, Leaves, At
  <2>3. ASSUME NEW d \in Clients, Pending(d, k) PROVE Pending(d, k)'
    BY <2>3, <2>2, <1>2
  <2>4. CASE j = k /\ event
    BY <2>2, <2>4, <1>2
  <2>5. CASE ~ (j = k /\ event)
    <3>1. mem'[k] = mem[k] /\ (k \in gap => k \in gap')
      BY <2>2, <2>5, <1>2
    <3>. QED
      BY <3>1, <2>2, <2>3, <1>2
  <2>. QED
    BY <2>4, <2>5
<1>7. ASSUME NEW c \in Clients, emit(c) PROVE True(k)'
  <2>1. /\ calls[c].pc = "done" /\ calls' = [calls EXCEPT ![c] = Idle]
        /\ told' = (IF calls[c].event
                    THEN [told EXCEPT ![calls[c].ask.key] = calls[c].image] ELSE told)
        /\ UNCHANGED <<mem, gap, time>>
    BY <1>7 DEF emit, At
  <2>2. CASE Pending(c, k)
    BY <2>1, <2>2, <1>2 DEF CallInv
  <2>3. CASE ~ Pending(c, k)
    <3>1. told'[k] = told[k]
      BY <2>1, <2>3, <1>2
    <3>2. ASSUME NEW d \in Clients, Pending(d, k) PROVE Pending(d, k)'
      BY <2>1, <2>3, <3>2, <1>2
    <3>. QED
      BY <3>1, <3>2, <2>1, <1>2
  <2>. QED
    BY <2>2, <2>3
<1>8. ASSUME NEW c \in Clients, purge_kinds(c) PROVE True(k)'
  <2>. DEFINE t == calls[c].ask.tenant
  <2>1. /\ calls[c].pc # "done"
        /\ calls' = [calls EXCEPT ![c] = [pc |-> "purging", ask |-> calls[c].ask,
                        answer |-> IF t \in known THEN "done" ELSE "absent"]]
        /\ mem' = [i \in Keys |-> IF i \in DocsOf(t) THEN Absent ELSE mem[i]]
        /\ gap' = gap \cup {i \in DocsOf(t) : IsEntity(i)}
        /\ UNCHANGED <<told, time>>
    BY <1>8 DEF purge_kinds, Ready, At, NeedsOrder, Writes
  <2>2. ASSUME NEW d \in Clients, Pending(d, k) PROVE Pending(d, k)'
    BY <2>2, <2>1, <1>2
  <2>. QED
    BY <2>1, <2>2, <1>2
<1>9. ASSUME NEW c \in Clients, purge_contexts(c) PROVE True(k)'
  BY <1>3, <1>9 DEF purge_contexts
<1>10. ASSUME NEW c \in Clients, LeavePurge(c) PROVE True(k)'
  <2>1. calls[c].pc = "purging"
    BY <1>10 DEF LeavePurge, TypeOK
  <2>2. \E s : At(c, s)
    BY <1>10 DEF LeavePurge
  <2>. QED
    BY <2>1, <2>2, <1>3, <1>10 DEF LeavePurge
<1>11. ASSUME NEW c \in Clients, HangUp(c) PROVE True(k)'
  <2>1. /\ calls' = [calls EXCEPT ![c] = Idle]
        /\ gap' = (IF calls[c].pc = "done" /\ calls[c].event
                   THEN gap \cup {calls[c].ask.key} ELSE gap)
        /\ UNCHANGED <<mem, told, time>>
    BY <1>11 DEF HangUp, At
  <2>2. ASSUME NEW d \in Clients, Pending(d, k) PROVE Pending(d, k)' \/ k \in gap'
    BY <2>1, <2>2, <1>2
  <2>. QED
    BY <2>1, <2>2, <1>2
<1>12. ASSUME NEW j \in Keys, PersistPurge(j) PROVE True(k)'
  <2>1. /\ mem' = [mem EXCEPT ![j] = Absent] /\ j \in section.todo
        /\ section.what \in {"purge", "contexts"} /\ UNCHANGED <<calls, told, gap, time>>
    BY <1>12 DEF PersistPurge
  <2>2. mem'[k] = mem[k]
    <3>1. CASE section.what = "purge"
      BY <3>1, <2>1, <1>2 DEF MapsInv
    <3>2. CASE section.what = "contexts"
      BY <3>2, <2>1, <1>2 DEF MapsInv, ContextsOf, IsContext, IsEntity
    <3>. QED
      BY <3>1, <3>2, <2>1
  <2>. QED
    BY <2>1, <2>2, <1>2
<1>13. ASSUME NEW j \in Keys, Reap(j) PROVE True(k)'
  <2>1. /\ mem' = [mem EXCEPT ![j] = strip_expired(mem[j], section.now)]
        /\ section.what = "sweep" /\ IsEntity(j) /\ UNCHANGED <<calls, told, gap, time>>
    BY <1>13 DEF Reap
  <2>2. section.now \in Nat /\ section.now <= time
    BY <2>1, FileStoreAssumption DEF TypeOK, Sections, MapsInv
  <2>3. Read(k, mem'[k], time) = Read(k, mem[k], time)
    BY <2>1, <2>2, <1>2, StripTwice DEF Read
  <2>. QED
    BY <2>1, <2>3, <1>2
<1>14. ASSUME Tick PROVE True(k)'
  <2>1. time' = time + 1 /\ UNCHANGED <<mem, calls, told, gap>>
    BY <1>14 DEF Tick
  <2>2. /\ Read(k, Read(k, told[k], time), time') = Read(k, told[k], time')
        /\ Read(k, Read(k, mem[k], time), time') = Read(k, mem[k], time')
    BY <2>1, <1>2, ReadTwice
  <2>. QED
    BY <2>1, <2>2, <1>2
<1>15. ASSUME Sweep \/ LeaveSweep PROVE True(k)'
  BY <1>2, <1>15 DEF Sweep, LeaveSweep
<1>16. ASSUME (\E t \in Tenants : BeginWalk(t)) \/ list_page PROVE True(k)'
  BY <1>2, <1>16 DEF BeginWalk, list_page, coreVars
<1>17. ASSUME Crash PROVE True(k)'
  BY <1>17 DEF Crash
<1>. QED
  BY <1>4, <1>5, <1>6, <1>7, <1>8, <1>9, <1>10, <1>11, <1>12, <1>13, <1>14, <1>15, <1>16, <1>17
     DEF Next, Step, Call, OneDocument

-----------------------------------------------------------------------------
(* A walk: what was there all through it was met, or lies ahead.           *)

WalkInv ==
    /\ \A k \in stayed : There(k)
    /\ walk.pc # "still" =>
          \A k \in stayed :
              /\ k \in EntitiesOf(walk.tenant)
              /\ k \in walk.got \/ (walk.pc = "walking" /\ k.id > walk.after)

\* It is kept.
LEMMA WalkStep ==
    ASSUME StoreInv, WalkInv, [Next]_vars
    PROVE  WalkInv'
<1>. USE DEF StoreInv
<1>1. CASE UNCHANGED vars
  BY <1>1 DEF vars, coreVars, WalkInv, There, EntitiesOf
<1>. SUFFICES ASSUME Next PROVE WalkInv'
  BY <1>1
<1>2. stayed' \subseteq IF walk.pc = "still" /\ walk'.pc # "still"
                        THEN EntitiesOf(walk'.tenant) ELSE stayed
  BY DEF Next
<1>3. \A k \in stayed' : There(k)'
  BY DEF Next
<1>4. CASE UNCHANGED walk
  BY <1>2, <1>3, <1>4 DEF WalkInv, EntitiesOf
<1>5. CASE Crash
  BY <1>3, <1>5 DEF Crash, Still, WalkInv
<1>6. ASSUME NEW t \in Tenants, BeginWalk(t) PROVE WalkInv'
  <2>1. walk.pc = "still" /\ walk' = [pc |-> "walking", tenant |-> t, after |-> 0, got |-> {}]
    BY <1>6 DEF BeginWalk
  <2>2. stayed' \subseteq EntitiesOf(t) /\ \A k \in EntitiesOf(t) : k.id > 0
    BY <2>1, <1>2, FileStoreAssumption DEF EntitiesOf
  <2>. QED
    BY <2>1, <2>2, <1>3 DEF WalkInv, EntitiesOf
<1>7. ASSUME list_page PROVE WalkInv'
  <2>. DEFINE rows == Rows(walk.tenant, walk.after)
  <2>1. /\ walk.pc = "walking"
        /\ walk \in [pc : {"walking", "walked"}, tenant : Tenants, after : Nat, got : SUBSET Keys]
    BY <1>7 DEF list_page, TypeOK
  <2>2. stayed' \subseteq stayed
    BY <2>1, <1>2
  <2>3. \A k \in stayed : k \in EntitiesOf(walk.tenant) /\ (k \in walk.got \/ k \in rows)
    BY <2>1 DEF WalkInv, Rows
  <2>4. \A k \in Keys : k.id \in Nat
    BY FileStoreAssumption
  <2>5. CASE walk' = [walk EXCEPT !.got = @ \cup rows, !.pc = "walked"]
    <3>1. walk'.pc = "walked" /\ walk'.tenant = walk.tenant /\ walk'.got = walk.got \cup rows
      BY <2>1, <2>5
    <3>. QED
      BY <3>1, <2>2, <2>3, <1>3 DEF WalkInv, EntitiesOf
  <2>6. ASSUME NEW last \in rows,
               walk' = [walk EXCEPT !.got = @ \cup UpTo(rows, last), !.after = last.id]
        PROVE  WalkInv'
    <3>1. walk'.pc = "walking" /\ walk'.tenant = walk.tenant
          /\ walk'.got = walk.got \cup UpTo(rows, last) /\ walk'.after = last.id
      BY <2>1, <2>6
    <3>2. \A k \in rows : k \in UpTo(rows, last) \/ k.id > last.id
      BY <2>4 DEF UpTo, Rows, EntitiesOf
    <3>. QED
      BY <3>1, <3>2, <2>2, <2>3, <1>3 DEF WalkInv, EntitiesOf
  <2>. QED
    BY <2>5, <2>6, <1>7 DEF list_page
<1>8. ASSUME NEW c \in Clients, Call(c) \/ HangUp(c) PROVE UNCHANGED walk
  <2>1. ASSUME OneDocument(c) PROVE UNCHANGED walk
    BY <2>1 DEF OneDocument, Create, Upsert, Delete, delete_if, Mutate, Get, Refuses, Leaves
  <2>. QED
    BY <2>1, <1>8 DEF Call, OneDocument, Ask, emit_ordered, emit, purge_kinds, purge_contexts,
         LeavePurge, HangUp
<1>9. ASSUME (\E k \in Keys : PersistPurge(k) \/ Reap(k)) \/ Sweep \/ LeaveSweep \/ Tick
      PROVE  UNCHANGED walk
  BY <1>9 DEF PersistPurge, Reap, Sweep, LeaveSweep, Tick
<1>. QED
  BY <1>4, <1>5, <1>6, <1>7, <1>8, <1>9 DEF Next, Step

-----------------------------------------------------------------------------
(* The driver implements the contract.                                     *)

\* The initial states are the contract's.
LEMMA StartRefines ==
    ASSUME Init
    PROVE  Contract!Init
<1>1. Holds = [k \in Keys |-> Absent]
  BY FileStoreAssumption DEF Init, Holds, Read, strip_expired
<1>2. Views = [c \in Clients |-> Contract!Idle]
  BY DEF Init, Views, View, Idle, Contract!Idle
<1>. QED
  BY <1>1, <1>2 DEF Init, Contract!Init

\* A call looks the same as long as it is the same, unless it is a purge and
\* the section moves under it.
LEMMA ViewSame ==
    ASSUME NEW c \in Clients, calls'[c] = calls[c], calls[c].pc # "purging" \/ section' = section
    PROVE  View(c)' = View(c)
BY DEF View, Met, DocsOf, ContextsOf

\* What one call does to the views.
LEMMA ViewStep ==
    ASSUME StoreInv, NEW c \in Clients, NEW s, At(c, s), NEW v, View(c)' = v,
           section' = section \/ \A d \in Clients \ {c} : calls[d].pc # "purging"
    PROVE  Views' = [Views EXCEPT ![c] = v]
<1>1. ASSUME NEW d \in Clients, d # c PROVE View(d)' = View(d)
  BY <1>1, ViewSame DEF At, StoreInv, TypeOK
<1>. QED
  BY <1>1 DEF Views

\* A purge meets the documents of S.
LEMMA PurgeMeets ==
    ASSUME NEW c \in Clients, NEW a, a.op = "purge", NEW M,
           NEW S \in SUBSET (DocsOf(a.tenant) \cup ContextsOf(a.tenant)),
           Views[c] = [pc |-> "asked", ask |-> a, met |-> M],
           Views' = [Views EXCEPT ![c] = [pc |-> "asked", ask |-> a, met |-> M \cup S]],
           \A k \in Keys : Read(k, file[k], time)' = IF k \in S THEN Absent ELSE Read(k, file[k], time),
           UNCHANGED time
    PROVE  Contract!Purge(c)
<1>1. Holds' = [k \in Keys |-> IF k \in S THEN Absent ELSE Holds[k]]
  BY DEF Holds
<1>2. S \in SUBSET Contract!Of(Views[c].ask.tenant)
  BY DEF Contract!Of, DocsOf, ContextsOf
<1>3. Views[c].pc = "asked" /\ Views[c].ask.op = "purge"
  OBVIOUS
<1>4. [Views[c] EXCEPT !.met = @ \cup S] = [pc |-> "asked", ask |-> a, met |-> M \cup S]
  OBVIOUS
<1>5. Views' = [Views EXCEPT ![c].met = @ \cup S]
  BY <1>4
<1>. QED
  BY <1>1, <1>2, <1>3, <1>5 DEF Contract!Purge

\* Every step is one of the contract's, or none.
LEMMA StepRefines ==
    ASSUME StoreInv, StoreInv', [Next]_vars
    PROVE  [Contract!Next]_(Contract!vars)
<1>. USE DEF StoreInv
<1>0. CASE UNCHANGED vars
  BY <1>0 DEF vars, coreVars, Contract!vars, Holds, Views, View, Met, DocsOf, ContextsOf
<1>. SUFFICES ASSUME Next PROVE [Contract!Next]_(Contract!vars)
  BY <1>0
<1>1. /\ mem \in [Keys -> Maybe] /\ file \in [Keys -> Maybe] /\ time \in Nat /\ section \in Sections
      /\ calls \in [Clients -> Calls]
  BY FileStoreAssumption DEF TypeOK, Maybe
<1>2. ASSUME section.what \notin {"purge", "contexts"}, NEW c \in Clients PROVE calls[c].pc # "purging"
  BY <1>2 DEF CallInv
<1>3. ASSUME UNCHANGED <<time, file>> PROVE Holds' = Holds
  BY <1>3 DEF Holds
<1>4. ASSUME NEW c \in Clients, Ask(c) PROVE Contract!Ask(c)
  <2>1. PICK a \in Asks : At(c, [pc |-> "asked", ask |-> a])
    BY <1>4 DEF Ask
  <2>2. View(c)' = [pc |-> "asked", ask |-> a, met |-> {}]
    BY <2>1, <1>1 DEF At, View
  <2>3. Views[c] = Contract!Idle
    BY <1>4 DEF Ask, Views, View, Idle, Contract!Idle
  <2>4. Views' = [Views EXCEPT ![c] = [pc |-> "asked", ask |-> a, met |-> {}]]
    BY <2>1, <2>2, <1>4, ViewStep DEF Ask
  <2>. QED
    BY <2>3, <2>4, <1>3, <1>4 DEF Ask, Contract!Ask
<1>5. ASSUME NEW c \in Clients, emit_ordered(c) PROVE UNCHANGED Contract!vars
  <2>1. View(c)' = View(c)
    BY <1>1, <1>5 DEF emit_ordered, At, View
  <2>2. Views' = [Views EXCEPT ![c] = View(c)]
    BY <2>1, <1>5, ViewStep DEF emit_ordered
  <2>. QED
    BY <2>2, <1>3, <1>5 DEF emit_ordered, Contract!vars, Views
<1>6. ASSUME NEW c \in Clients, OneDocument(c) PROVE Contract!Take(c)
  <2>1. PICK doc \in Maybe, answer \in Answers, found \in Maybe, event \in BOOLEAN :
            Commits(c, doc, answer, found, event)
    BY <1>6, CallCommits
  <2>. DEFINE a == calls[c].ask
              k == a.key
              s == [pc |-> "done", ask |-> a, answer |-> answer, found |-> found,
                    event |-> IsEntity(k) /\ event, image |-> doc]
              v == [pc |-> "taken", ask |-> a, answer |-> answer, found |-> found]
  <2>2. /\ file' = [file EXCEPT ![k] = doc] /\ At(c, s)
        /\ section.what = "free" /\ UNCHANGED <<section, time>>
        /\ calls[c].pc \in {"asked", "ordered"} /\ a.op # "purge" /\ k \in Keys
    BY <2>1 DEF Commits, Leaves
  <2>3. View(c)' = v
    BY <2>2, <1>1 DEF At, View
  <2>4. Views' = [Views EXCEPT ![c] = v]
    BY <2>2, <2>3, ViewStep
  <2>5. Views[c] = [pc |-> "asked", ask |-> a, met |-> {}]
    BY <2>2 DEF Views, View
  <2>6. Holds[k] = Read(k, mem[k], time)
    BY <2>2 DEF Holds, MapsInv
  <2>7. Read(k, doc, time) = Contract!Live(k, Contract!After(a, Holds[k]), time)
        /\ answer = Contract!Answer(a, Holds[k]) /\ found = Contract!Found(a, Holds[k])
    BY <2>1, <2>6, LiveIsRead DEF Commits
  <2>8. Holds' = [Holds EXCEPT ![k] = Read(k, doc, time)]
    BY <2>2, <1>1 DEF Holds
  <2>9. /\ Views[c].pc = "asked" /\ Views[c].ask = a
    BY <2>5
  <2>10. Holds' = [Holds EXCEPT ![k] = Contract!Live(k, Contract!After(a, Holds[k]), time)]
    BY <2>7, <2>8
  <2>. HIDE DEF v, k, a
  <2>. QED
    BY <2>2, <2>4, <2>7, <2>9, <2>10 DEF Contract!Take, v, k, a
<1>7. ASSUME NEW c \in Clients, emit(c) PROVE Contract!Answered(c)
  <2>1. View(c)' = Contract!Idle
    BY <1>1, <1>7 DEF emit, At, View, Idle, Contract!Idle
  <2>2. Views' = [Views EXCEPT ![c] = Contract!Idle]
    BY <2>1, <1>7, ViewStep DEF emit
  <2>3. Views[c].pc = "taken"
    BY <1>7 DEF emit, Views, View
  <2>. QED
    BY <2>2, <2>3, <1>3, <1>7 DEF emit, Contract!Answered
<1>8. ASSUME NEW c \in Clients, purge_kinds(c) PROVE Contract!Purge(c)
  <2>. DEFINE a == calls[c].ask
              t == a.tenant
              todo == {k \in DocsOf(t) : Held(k)}
              s == [pc |-> "purging", ask |-> a, answer |-> IF t \in known THEN "done" ELSE "absent"]
  <2>1. /\ calls[c].pc \in {"asked", "ordered"} /\ a.op = "purge" /\ section.what = "free"
        /\ section' = [who |-> c, what |-> "purge", todo |-> todo]
        /\ At(c, s) /\ UNCHANGED <<file, time>>
    BY <1>8 DEF purge_kinds, Ready
  <2>2. Views[c] = [pc |-> "asked", ask |-> a, met |-> {}]
    BY <2>1 DEF Views, View
  <2>3. View(c)' = [pc |-> "asked", ask |-> a, met |-> {} \cup (DocsOf(t) \ todo)]
    <3>1. calls'[c] = s
      BY <2>1, <1>1 DEF At
    <3>2. DocsOf(calls[c].ask.tenant)' = DocsOf(t)
      BY <3>1 DEF DocsOf
    <3>3. Met(c)' = DocsOf(t) \ todo
      BY <2>1, <3>1, <3>2 DEF Met
    <3>. QED
      BY <3>1, <3>3 DEF View
  <2>4. Views' = [Views EXCEPT ![c] = [pc |-> "asked", ask |-> a, met |-> {} \cup (DocsOf(t) \ todo)]]
    BY <2>1, <2>3, <1>2, ViewStep
  <2>5. ASSUME NEW k \in Keys
        PROVE  Read(k, file[k], time)' = IF k \in DocsOf(t) \ todo THEN Absent ELSE Read(k, file[k], time)
    <3>1. k \in DocsOf(t) \ todo => file[k] = Absent
      BY <2>1 DEF Held, MapsInv
    <3>. QED
      BY <3>1, <2>1, ReadType, <1>1
  <2>. QED
    BY <2>1, <2>2, <2>4, <2>5, PurgeMeets
<1>9. ASSUME NEW c \in Clients, purge_contexts(c) PROVE Contract!Purge(c)
  <2>. DEFINE a == calls[c].ask
              t == a.tenant
              todo == {k \in ContextsOf(t) : Held(k)}
              s == [pc |-> "purging", ask |-> a, answer |-> calls[c].answer]
  <2>1. /\ calls[c].pc = "purged" /\ a.op = "purge" /\ section.what = "free"
        /\ section' = [who |-> c, what |-> "contexts", todo |-> todo]
        /\ At(c, s) /\ UNCHANGED <<file, time>>
    BY <1>9 DEF purge_contexts, CallInv
  <2>2. Views[c] = [pc |-> "asked", ask |-> a, met |-> DocsOf(t)]
    BY <2>1 DEF Views, View, Met
  <2>3. View(c)' = [pc |-> "asked", ask |-> a, met |-> DocsOf(t) \cup (ContextsOf(t) \ todo)]
    <3>1. calls'[c] = s
      BY <2>1, <1>1 DEF At
    <3>2. DocsOf(calls[c].ask.tenant)' = DocsOf(t) /\ ContextsOf(calls[c].ask.tenant)' = ContextsOf(t)
      BY <3>1 DEF DocsOf, ContextsOf
    <3>3. Met(c)' = (DocsOf(t) \cup ContextsOf(t)) \ todo
      BY <2>1, <3>1, <3>2 DEF Met
    <3>4. (DocsOf(t) \cup ContextsOf(t)) \ todo = DocsOf(t) \cup (ContextsOf(t) \ todo)
      BY DEF DocsOf, ContextsOf
    <3>. QED
      BY <3>1, <3>3, <3>4 DEF View
  <2>4. Views' = [Views EXCEPT ![c] =
                     [pc |-> "asked", ask |-> a, met |-> DocsOf(t) \cup (ContextsOf(t) \ todo)]]
    BY <2>1, <2>3, <1>2, ViewStep
  <2>5. ASSUME NEW k \in Keys
        PROVE  Read(k, file[k], time)'
                 = IF k \in ContextsOf(t) \ todo THEN Absent ELSE Read(k, file[k], time)
    <3>1. k \in ContextsOf(t) \ todo => file[k] = Absent
      BY <2>1 DEF Held, MapsInv
    <3>. QED
      BY <3>1, <2>1, ReadType, <1>1
  <2>. QED
    BY <2>1, <2>2, <2>4, <2>5, PurgeMeets
<1>10. ASSUME NEW k \in Keys, PersistPurge(k) PROVE \E c \in Clients : Contract!Purge(c)
  <2>1. PICK c \in Clients : c = section.who
    BY <1>10, <1>1 DEF PersistPurge, Sections
  <2>. DEFINE a == calls[c].ask
              t == a.tenant
              all == IF section.what = "purge" THEN DocsOf(t) ELSE DocsOf(t) \cup ContextsOf(t)
              M == all \ section.todo
  <2>2. /\ section.what \in {"purge", "contexts"} /\ k \in section.todo
        /\ file' = [file EXCEPT ![k] = Absent] /\ section' = [section EXCEPT !.todo = @ \ {k}]
        /\ UNCHANGED <<calls, time>>
    BY <1>10 DEF PersistPurge
  <2>3. calls[c].pc = "purging" /\ a.op = "purge"
    BY <2>1, <2>2 DEF TypeOK, CallInv
  <2>4. section'.what = section.what /\ section'.todo = section.todo \ {k}
    BY <2>2, <1>1 DEF Sections
  <2>5. k \in all /\ all \subseteq DocsOf(t) \cup ContextsOf(t)
    BY <2>1, <2>2 DEF MapsInv
  <2>6. Views[c] = [pc |-> "asked", ask |-> a, met |-> M]
    BY <2>3 DEF Views, View, Met
  <2>7. View(c)' = [pc |-> "asked", ask |-> a, met |-> M \cup {k}]
    <3>1. DocsOf(calls[c].ask.tenant)' = DocsOf(t) /\ ContextsOf(calls[c].ask.tenant)' = ContextsOf(t)
      BY <2>2 DEF DocsOf, ContextsOf
    <3>2. all \ (section.todo \ {k}) = M \cup {k}
      BY <2>5
    <3>3. View(c)' = [pc |-> "asked", ask |-> a, met |-> all \ (section.todo \ {k})]
      BY <2>2, <2>3, <2>4, <3>1 DEF View, Met
    <3>. QED
      BY <3>2, <3>3
  <2>8. Views' = [Views EXCEPT ![c] = [pc |-> "asked", ask |-> a, met |-> M \cup {k}]]
    <3>1. ASSUME NEW d \in Clients, d # c PROVE View(d)' = View(d)
      <4>1. calls[d].pc # "purging"
        BY <3>1, <2>1 DEF CallInv
      <4>. QED
        BY <4>1, <2>2, ViewSame
    <3>. QED
      BY <3>1, <2>7 DEF Views
  <2>9. ASSUME NEW j \in Keys
        PROVE  Read(j, file[j], time)' = IF j \in {k} THEN Absent ELSE Read(j, file[j], time)
    BY <2>2, <1>1, ReadType
  <2>10. {k} \in SUBSET (DocsOf(t) \cup ContextsOf(t))
    BY <2>5
  <2>. HIDE DEF M
  <2>11. Contract!Purge(c)
    BY ZenonT(30), <2>2, <2>3, <2>6, <2>8, <2>9, <2>10, PurgeMeets
  <2>. QED
    BY <2>11
<1>11. ASSUME NEW c \in Clients, LeavePurge(c) PROVE [Contract!Next]_(Contract!vars)
  <2>. DEFINE a == calls[c].ask
              t == a.tenant
  <2>1. /\ section.what \in {"purge", "contexts"} /\ section.who = c /\ section.todo = {}
        /\ UNCHANGED <<file, time>>
    BY <1>11 DEF LeavePurge
  <2>2. /\ calls[c].pc = "purging" /\ a.op = "purge" /\ calls[c].answer \in {"done", "absent"}
        /\ \A d \in Clients \ {c} : calls[d].pc # "purging"
    BY <2>1, <1>1 DEF TypeOK, CallInv, Calls
  <2>3. CASE section.what = "purge"
    <3>. DEFINE s == [pc |-> "purged", ask |-> a, answer |-> calls[c].answer]
    <3>1. At(c, s)
      BY <2>3, <1>11 DEF LeavePurge
    <3>2. calls'[c] = s /\ DocsOf(calls[c].ask.tenant)' = DocsOf(t)
      BY <3>1, <1>1 DEF At, DocsOf
    <3>3. View(c)' = [pc |-> "asked", ask |-> a, met |-> DocsOf(t)]
      BY <3>2 DEF View, Met
    <3>4. View(c) = [pc |-> "asked", ask |-> a, met |-> DocsOf(t)]
      BY <2>1, <2>2, <2>3 DEF View, Met
    <3>5. Views' = [Views EXCEPT ![c] = View(c)]
      BY <3>1, <3>3, <3>4, <2>2, ViewStep
    <3>. QED
      BY <3>5, <2>1, <1>3 DEF Contract!vars, Views
  <2>4. CASE section.what = "contexts"
    <3>. DEFINE s == [pc |-> "done", ask |-> a, answer |-> calls[c].answer,
                      found |-> Absent, event |-> FALSE, image |-> Absent]
                v == [pc |-> "taken", ask |-> a, answer |-> calls[c].answer, found |-> Absent]
    <3>1. At(c, s)
      BY <2>4, <1>11 DEF LeavePurge
    <3>2. View(c)' = v
      BY <3>1, <1>1 DEF At, View
    <3>3. Views' = [Views EXCEPT ![c] = v]
      BY <3>1, <3>2, <2>2, ViewStep
    <3>4. Views[c] = [pc |-> "asked", ask |-> a, met |-> DocsOf(t) \cup ContextsOf(t)]
      BY <2>1, <2>2, <2>4 DEF Views, View, Met
    <3>5. DocsOf(t) \cup ContextsOf(t) = Contract!Of(t)
      BY DEF DocsOf, ContextsOf, Contract!Of
    <3>6. /\ Views[c].pc = "asked" /\ Views[c].ask = a
          /\ Views[c].met = Contract!Of(Views[c].ask.tenant)
      BY <3>4, <3>5
    <3>7. Holds' = Holds
      BY <2>1, <1>3
    <3>8. Contract!Purged(c)
      BY <3>3, <3>6, <3>7, <2>1, <2>2 DEF Contract!Purged
    <3>. QED
      BY <3>8 DEF Contract!Next
  <2>. QED
    BY <2>1, <2>3, <2>4
<1>12. ASSUME NEW c \in Clients, HangUp(c) PROVE Contract!Lose
  <2>1. At(c, Idle) /\ UNCHANGED <<file, time, section>>
    BY <1>12 DEF HangUp
  <2>2. View(c)' = Contract!Idle
    BY <2>1, <1>1 DEF At, View, Idle, Contract!Idle
  <2>3. Views' = [Views EXCEPT ![c] = Contract!Idle]
    BY <2>1, <2>2, ViewStep
  <2>4. Views' = [d \in Clients |-> IF d \in {c} THEN Contract!Idle ELSE Views[d]]
    BY <2>3 DEF Views
  <2>. QED
    BY <2>1, <2>4, <1>3 DEF Contract!Lose
<1>13. ASSUME Crash PROVE Contract!Lose
  <2>1. \A d \in Clients : View(d)' = Contract!Idle
    BY <1>13 DEF Crash, View, Idle, Contract!Idle
  <2>2. Views' = [d \in Clients |-> IF d \in Clients THEN Contract!Idle ELSE Views[d]]
    BY <2>1 DEF Views
  <2>. QED
    BY <2>2, <1>3, <1>13 DEF Crash, Contract!Lose
<1>14. ASSUME Tick PROVE Contract!Tick
  <2>1. time < MaxTime /\ time' = time + 1 /\ UNCHANGED <<file, calls, section>>
    BY <1>14 DEF Tick
  <2>2. Views' = Views
    BY <2>1 DEF Views, View, Met, DocsOf, ContextsOf
  <2>3. ASSUME NEW k \in Keys PROVE Holds'[k] = Contract!Live(k, Holds[k], time')
    <3>1. Read(k, Read(k, file[k], time), time') = Read(k, file[k], time')
      BY <2>1, <1>1, ReadTwice
    <3>. QED
      BY <3>1, <2>1, LiveIsRead DEF Holds
  <2>4. Holds' = [k \in Keys |-> Contract!Live(k, Holds[k], time')]
    BY <2>3 DEF Holds
  <2>. QED
    BY <2>1, <2>2, <2>4 DEF Contract!Tick
<1>15. ASSUME NEW k \in Keys, Reap(k) PROVE UNCHANGED Contract!vars
  <2>1. /\ section.what = "sweep" /\ IsEntity(k) /\ UNCHANGED <<calls, section, time>>
        /\ file' = [file EXCEPT ![k] = strip_expired(mem[k], section.now)]
    BY <1>15 DEF Reap
  <2>2. section.now \in Nat /\ section.now <= time /\ mem[k] = file[k]
    BY <2>1, FileStoreAssumption DEF TypeOK, Sections, MapsInv
  <2>3. Read(k, file'[k], time) = Read(k, file[k], time)
    BY <2>1, <2>2, <1>1, StripTwice DEF Read
  <2>4. Holds' = Holds
    BY <2>1, <2>3, <1>1 DEF Holds
  <2>5. Views' = Views
    BY <2>1 DEF Views, View, Met, DocsOf, ContextsOf
  <2>. QED
    BY <2>1, <2>4, <2>5 DEF Contract!vars
<1>16. ASSUME Sweep \/ LeaveSweep PROVE UNCHANGED Contract!vars
  <2>1. section.what \in {"free", "sweep"} /\ UNCHANGED <<time, file, calls>>
    BY <1>16 DEF Sweep, LeaveSweep
  <2>2. ASSUME NEW c \in Clients PROVE View(c)' = View(c)
    BY <2>1, <1>2, ViewSame
  <2>. QED
    BY <2>1, <2>2, <1>3 DEF Contract!vars, Views
<1>17. ASSUME (\E t \in Tenants : BeginWalk(t)) \/ list_page PROVE UNCHANGED Contract!vars
  <2>1. UNCHANGED <<time, file, calls, section>>
    BY <1>17 DEF BeginWalk, list_page, coreVars
  <2>2. ASSUME NEW c \in Clients PROVE View(c)' = View(c)
    BY <2>1, ViewSame
  <2>. QED
    BY <2>1, <2>2, <1>3 DEF Contract!vars, Views
<1>. QED
  BY <1>4, <1>5, <1>6, <1>7, <1>8, <1>9, <1>10, <1>11, <1>12, <1>13, <1>14, <1>15, <1>16, <1>17
     DEF Next, Step, Call, OneDocument, Contract!Next

-----------------------------------------------------------------------------
(* What follows for every behaviour.                                       *)

\* StoreInv holds throughout, the hook is told the truth, a walk is complete.
LEMMA StoreAlways == Spec => [](StoreInv /\ FeedTrue /\ WalkInv)
<1>1. Init => StoreInv /\ FeedTrue /\ WalkInv
  <2>1. Init => WalkInv
    BY DEF Init, WalkInv, Still
  <2>. QED
    BY <2>1, StoreStart
<1>2. StoreInv /\ FeedTrue /\ WalkInv /\ [Next]_vars => (StoreInv /\ FeedTrue /\ WalkInv)'
  BY StoreStep, FeedStep, WalkStep
<1>. QED
  BY <1>1, <1>2, PTL DEF Spec

\* TypeOK: the state of the driver is well formed, and who holds emit_order or
\* the write section is a call at work with it (write_inner, emit_order).
THEOREM StoreTyped == Spec => []TypeOK
<1>1. StoreInv => TypeOK
  BY DEF StoreInv
<1>. QED
  BY <1>1, StoreAlways, PTL

\* FeedTrue: whatever order writers reach the section in, the last thing the
\* change hook was told of an Entity is what is stored (emit_ordered).
THEOREM HookToldTruth == Spec => []FeedTrue
BY StoreAlways, PTL

\* WalkComplete: a walk in pages misses nothing that was there all through it
\* (list_page).
THEOREM WalksComplete == Spec => []WalkComplete
<1>1. WalkInv => WalkComplete
  BY DEF WalkInv, WalkComplete
<1>. QED
  BY <1>1, StoreAlways, PTL

\* ImplementsStore: the driver keeps the contract of the store, crashes and
\* callers that hang up included (write_inner, Shadow, purge_tenant,
\* sweep_expired).
THEOREM KeepsContract == Spec => ImplementsStore
<1>1. Init => Contract!Init
  BY StartRefines
<1>2. StoreInv /\ StoreInv' /\ [Next]_vars => [Contract!Next]_(Contract!vars)
  BY StepRefines
<1>3. Spec => []StoreInv
  BY StoreAlways, PTL
<1>. QED
  BY <1>1, <1>2, <1>3, PTL DEF Spec, ImplementsStore, Contract!Spec

-----------------------------------------------------------------------------
(* Snapshots: every number of requests, tasks and synthetic tenants.       *)

CONSTANTS Ids, Priorities, Handlers, Ops, Reuse, Queries, Cap, MaxSnapshots, MaxAsks,
          MaxExpiries, MaxSweeps, MaxCrashes
VARIABLES docs, index, data, hs, tasks, sweep, past, dead, spent

Snaps == INSTANCE Snapshots

\* The records a request and a task may be.
Victims == [id : Ids, synth : Snaps!Synths]
Asking == [pc : {"index", "list", "put", "write"}, op : Ops, id : Ids, meta : Snaps!Metas, src : Ids]
Evicting == [pc : {"evict"}, op : Ops, id : Ids, meta : Snaps!Metas, src : Ids,
             victims : SUBSET Victims]
Removing == [pc : {"remove"}, victims : SUBSET Victims]
FillPcs == {"start", "check", "copy", "cancel", "finish"}
Results == {"success", "empty", "failure"}
Teardowns == [kind : {"teardown"}, synth : Snaps!Synths, pc : {"purge", "unindex"}]
Fills == [kind : {"fill"}, id : Ids, synth : 0..MaxSnapshots, src : {0}, pc : FillPcs,
          left : 0..Queries, seen : SUBSET Results]
Clones == [kind : {"clone"}, id : Ids, synth : 0..MaxSnapshots, src : Ids, pc : FillPcs,
           left : 0..MaxSnapshots, seen : SUBSET Results]
Puts == [kind : {"put"}, id : Ids, meta : Snaps!Metas]

\* Snapshots are kept by numbers: ids and priorities are ordered, and at least
\* one snapshot may be held.
WellKept ==
    /\ Ids \subseteq Nat /\ Priorities \subseteq Nat
    /\ Queries \in Nat /\ MaxSnapshots \in Nat /\ Cap \in Nat \ {0}
    /\ MaxAsks \in Nat /\ MaxExpiries \in Nat /\ MaxSweeps \in Nat /\ MaxCrashes \in Nat

\* The types, and that a lifetime was renewed once for every request at most.
HasMeta == {"index", "list", "put", "write", "evict"}
AskFine(a, n) ==
    /\ a \in {Snaps!Free} \cup Asking \cup Evicting \cup Removing
    /\ a.pc \in HasMeta => a.meta.life <= n
Copies(t) == t.kind \in {"fill", "clone"}
Busy == {"copy", "check", "cancel"}
TaskFine(t, n) ==
    /\ t \in Teardowns \cup Fills \cup Clones \cup Puts
    /\ Copies(t) /\ t.pc \in Busy => t.synth \in Snaps!Synths
    /\ t.kind = "put" => t.meta.life <= n
    /\ t.kind = "fill" /\ t.pc = "copy" => t.left > 0
Born == UNION {[A -> Snaps!Synths] : A \in SUBSET Ids}
DocsTyped == DOMAIN docs \subseteq Ids
             /\ \A i \in DOMAIN docs : docs[i] \in Snaps!Metas /\ docs[i].life <= spent.asks
AsksTyped == DOMAIN hs = Handlers /\ \A h \in Handlers : AskFine(hs[h], spent.asks)
TasksTyped == \A t \in tasks : TaskFine(t, spent.asks)
RestTyped ==
    /\ index \subseteq Snaps!Synths /\ data \subseteq Snaps!Synths
    /\ sweep \subseteq Victims /\ dead \subseteq Snaps!Synths \X (0..MaxAsks)
    /\ spent \in [Snaps!Kinds -> Nat] /\ spent.asks <= MaxAsks
    /\ past \in [born : Born, given : 0..MaxSnapshots, cut : SUBSET (0..MaxSnapshots),
                 updated : SUBSET Snaps!Synths]
SnapTyped == DocsTyped /\ AsksTyped /\ TasksTyped /\ RestTyped

\* Every mention of a snapshot is of the synthetic tenant it was born with.
Of(i, s) == i \in DOMAIN past.born /\ s = past.born[i]
AskOf(a) == /\ a.pc \in HasMeta => Of(a.id, a.meta.synth)
            /\ a.pc \in {"evict", "remove"} => \A v \in a.victims : Of(v.id, v.synth)
TaskOf(t) == /\ Copies(t) => /\ t.id \in DOMAIN past.born
                             /\ t.synth \in {0, past.born[t.id]}
             /\ t.kind = "put" => Of(t.id, t.meta.synth)
             /\ t.kind = "teardown" => t.synth <= past.given
DocsBorn == \A i \in DOMAIN docs : Of(i, docs[i].synth)
AsksBorn == \A h \in Handlers : AskOf(hs[h])
TasksBorn == \A t \in tasks : TaskOf(t)
SweepBorn == \A v \in sweep : Of(v.id, v.synth)
TornGone == \A t \in tasks : t.kind = "teardown" => ~Snaps!Named(t.synth)
BornApart == /\ \A i \in DOMAIN past.born : past.born[i] <= past.given
             /\ \A i, j \in DOMAIN past.born : past.born[i] = past.born[j] => i = j
BornInv == DocsBorn /\ AsksBorn /\ TasksBorn /\ SweepBorn /\ TornGone /\ BornApart

\* A copy that is being written will yet be asked for: is its snapshot there?
Writing(s) == \E t \in tasks : Copies(t) /\ t.synth = s /\ t.pc \in Busy
\* A snapshot that is filled is in the reverse index.
AskIndexed(a) == a.pc \in {"list", "evict"} /\ a.id \in DOMAIN docs => past.born[a.id] \in index
TaskIndexed(t) == Copies(t) /\ t.id \in DOMAIN docs => past.born[t.id] \in index
FilledIndexed == /\ \A h \in Handlers : AskIndexed(hs[h])
                 /\ \A t \in tasks : TaskIndexed(t)
Unindexing(s) == [kind |-> "teardown", synth |-> s, pc |-> "unindex"]
DataNamed == \A s \in data : \/ s \in index /\ Unindexing(s) \notin tasks
                             \/ s \in past.cut \/ Writing(s)
DataFreed == spent.crashes = 0 =>
    \A s \in data : Snaps!Named(s) \/ Snaps!Teardown(s) \in tasks \/ Writing(s)
NoWrite == \A h \in Handlers : hs[h].pc # "write"
SynthInv == NoWrite /\ FilledIndexed /\ DataNamed /\ DataFreed

\* The registry is over its cap only while a request has yet to list it, or to
\* evict what it listed.
VictimIds(a) == {v.id : v \in a.victims}
Within(S) == IsFiniteSet(S) /\ Cardinality(S) <= Cap
ToList(a) == a.pc \in {"index", "list"}
Evicts(a, D) == a.pc = "evict" /\ Within(D \ VictimIds(a))
CapInv ==
    /\ IsFiniteSet(DOMAIN docs)
    /\ (spent.crashes = 0
          => \/ \E h \in Handlers : ToList(hs[h]) \/ Evicts(hs[h], DOMAIN docs)
             \/ Within(DOMAIN docs))

\* A snapshot in preparation has somebody who will settle it.
Makes(a, i) == a.pc \in {"index", "list", "evict"} /\ a.id = i
Sees(t, i) == ((Copies(t) /\ t.pc # "cancel") \/ t.kind = "put") /\ t.id = i
Settling(i) ==
    \/ Snaps!expired(docs[i]) \/ docs[i].synth \in past.updated
    \/ \E h \in Handlers : Makes(hs[h], i)
    \/ \E t \in tasks : Sees(t, i)
PutSettles == \A t \in tasks : t.kind = "put" => t.meta.status # "preparing"
SettleInv ==
    /\ PutSettles
    /\ spent.crashes = 0 => \A i \in DOMAIN docs : docs[i].status = "preparing" => Settling(i)

-----------------------------------------------------------------------------
(* The types.                                                              *)

LEMMA SnapTypes ==
    ASSUME SnapTyped PROVE Snaps!TypeOK
BY DEF SnapTyped, DocsTyped, AsksTyped, TasksTyped, RestTyped, AskFine, TaskFine, Snaps!TypeOK,
       Asking, Evicting, Removing, Teardowns, Fills, Clones, Puts, Victims, FillPcs, Results

\* What a request is made of depends on where it stands.
LEMMA AskShape ==
    ASSUME NEW n, NEW a, AskFine(a, n)
    PROVE  /\ a.pc \in {"free", "index", "list", "put", "write", "evict", "remove"}
           /\ a.pc = "free" => a = Snaps!Free
           /\ a.pc \in {"index", "list", "put", "write"} => a \in Asking
           /\ a.pc = "evict" => a \in Evicting
           /\ a.pc = "remove" => a \in Removing
           /\ a.pc \in HasMeta => a.id \in Ids /\ a.meta \in Snaps!Metas
           /\ a.pc \in {"evict", "remove"} => a.victims \subseteq Victims
BY DEF AskFine, Asking, Evicting, Removing, HasMeta, Snaps!Free

LEMMA TaskShape ==
    ASSUME NEW n, NEW t, TaskFine(t, n)
    PROVE  /\ t.kind \in {"teardown", "fill", "clone", "put"}
           /\ t.kind = "teardown" => t \in Teardowns
           /\ t.kind = "fill" => t \in Fills
           /\ t.kind = "clone" => t \in Clones
           /\ t.kind = "put" => t \in Puts
BY DEF TaskFine, Teardowns, Fills, Clones, Puts

\* A request that moves.
LEMMA AskMoves ==
    ASSUME AsksTyped, NEW h \in Handlers, NEW a, hs' = [hs EXCEPT ![h] = a]
    PROVE  /\ DOMAIN hs' = Handlers
           /\ hs'[h] = a
           /\ \A g \in Handlers : g # h => hs'[g] = hs[g]
BY DEF AsksTyped

LEMMA AsksGrow ==
    ASSUME AsksTyped, spent.asks \in Nat, NEW n \in Nat, spent.asks <= n
    PROVE  \A h \in Handlers : AskFine(hs[h], n)
<1>1. ASSUME NEW h \in Handlers, hs[h].pc \in HasMeta
      PROVE  hs[h].meta.life <= n
  <2>1. AskFine(hs[h], spent.asks)
    BY DEF AsksTyped
  <2>2. hs[h].meta.life \in Nat /\ hs[h].meta.life <= spent.asks
    BY <1>1, <2>1, AskShape DEF AskFine, Snaps!Metas
  <2>. QED
    BY <2>2
<1>. QED
  BY <1>1 DEF AsksTyped, AskFine

LEMMA AsksKept ==
    ASSUME AsksTyped, spent.asks \in Nat, NEW n \in Nat, spent.asks <= n, n = spent'.asks,
           NEW h \in Handlers, NEW a, hs' = [hs EXCEPT ![h] = a], AskFine(a, n)
    PROVE  AsksTyped'
<1>1. \A g \in Handlers : AskFine(hs[g], n)
  BY AsksGrow
<1>2. \A g \in Handlers : AskFine(hs'[g], n)
  BY <1>1, AskMoves
<1>. QED
  BY <1>2, AskMoves DEF AsksTyped

\* Metas of a time before are metas still; so are the tasks that bear them.
LEMMA LivesGrow ==
    ASSUME NEW m \in Nat, NEW n \in Nat, m <= n
    PROVE  /\ \A d \in Snaps!Metas : d.life <= m => d.life <= n
           /\ \A t : TaskFine(t, m) => TaskFine(t, n)
<1>1. \A d \in Snaps!Metas : d.life \in Nat
  BY DEF Snaps!Metas
<1>2. \A d \in Snaps!Metas : d.life <= m => d.life <= n
  BY <1>1
<1>3. ASSUME NEW t, TaskFine(t, m), t.kind = "put"
      PROVE  t.meta.life <= n
  BY <1>2, <1>3, TaskShape DEF TaskFine, Puts
<1>. QED
  BY <1>2, <1>3 DEF TaskFine

LEMMA TasksKept ==
    ASSUME TasksTyped, spent.asks \in Nat, spent'.asks \in Nat, spent.asks <= spent'.asks,
           \A t \in tasks' : t \in tasks \/ TaskFine(t, spent'.asks)
    PROVE  TasksTyped'
BY LivesGrow DEF TasksTyped

LEMMA DocsKept ==
    ASSUME DocsTyped, spent.asks \in Nat, spent'.asks \in Nat, spent.asks <= spent'.asks,
           DOMAIN docs' \subseteq Ids,
           \A i \in DOMAIN docs' :
              \/ i \in DOMAIN docs /\ docs'[i] = docs[i]
              \/ docs'[i] \in Snaps!Metas /\ docs'[i].life <= spent'.asks
    PROVE  DocsTyped'
BY LivesGrow DEF DocsTyped

LEMMA Spending ==
    ASSUME RestTyped, NEW k \in Snaps!Kinds, NEW max \in Nat, Snaps!Spend(k, max)
    PROVE  /\ spent' \in [Snaps!Kinds -> Nat]
           /\ k = "asks" => /\ spent'.asks = spent.asks + 1 /\ spent'.asks <= max
                            /\ spent'.crashes = spent.crashes
           /\ k \in {"expiries", "sweeps"} => /\ spent'.asks = spent.asks
                                              /\ spent'.crashes = spent.crashes
           /\ k = "crashes" => spent'.asks = spent.asks /\ spent'.crashes # 0
<1>1. spent' = [spent EXCEPT ![k] = @ + 1] /\ spent[k] < max
  BY DEF Snaps!Spend
<1>2. spent \in [Snaps!Kinds -> Nat]
  BY DEF RestTyped
<1>3. spent' \in [Snaps!Kinds -> Nat]
  BY <1>1, <1>2
<1>4. \A c \in Snaps!Kinds : spent'[c] = IF c = k THEN spent[c] + 1 ELSE spent[c]
  BY <1>1, <1>2
<1>5. {"asks", "expiries", "sweeps", "crashes"} = Snaps!Kinds
  BY DEF Snaps!Kinds
<1>6. spent.asks \in Nat /\ spent.crashes \in Nat
  BY <1>2, <1>5
<1>7. /\ spent'.asks = IF k = "asks" THEN spent.asks + 1 ELSE spent.asks
      /\ spent'.crashes = IF k = "crashes" THEN spent.crashes + 1 ELSE spent.crashes
  BY <1>4, <1>5
<1>8. k = "asks" => spent'.asks <= max
  <2>1. k = "asks" => spent.asks < max
    BY <1>1
  <2>. QED
    BY <1>6, <1>7, <2>1
<1>. QED
  BY <1>3, <1>6, <1>7, <1>8

\* The requests as they come.
LEMMA AskingTyped ==
    ASSUME WellKept, SnapTyped, Snaps!Spend("asks", MaxAsks), DocsTyped',
           UNCHANGED <<index, data, tasks, sweep, dead>>,
           NEW h \in Handlers, NEW a, hs' = [hs EXCEPT ![h] = a], AskFine(a, spent.asks + 1),
           past' \in [born : Born, given : 0..MaxSnapshots, cut : SUBSET (0..MaxSnapshots),
                      updated : SUBSET Snaps!Synths]
    PROVE  SnapTyped'
<1>1. /\ spent' \in [Snaps!Kinds -> Nat] /\ spent'.asks = spent.asks + 1 /\ spent'.asks <= MaxAsks
      /\ spent.asks \in Nat
  BY Spending DEF SnapTyped, RestTyped, WellKept, Snaps!Kinds
<1>2. AsksTyped'
  <2>. DEFINE n == spent.asks + 1
  <2>1. n \in Nat /\ spent.asks <= n /\ n = spent'.asks /\ AskFine(a, n)
    BY <1>1
  <2>. HIDE DEF n
  <2>. QED
    BY <1>1, <2>1, AsksKept DEF SnapTyped
<1>3. TasksTyped'
  BY <1>1, TasksKept DEF SnapTyped
<1>4. RestTyped'
  BY <1>1 DEF SnapTyped, RestTyped
<1>. QED
  BY <1>2, <1>3, <1>4 DEF SnapTyped

LEMMA InsertTyped ==
    ASSUME WellKept, SnapTyped, NEW h \in Handlers, NEW op \in {"create", "clone"}, NEW i \in Ids,
           NEW src \in Ids, NEW p \in Priorities, Snaps!Insert(h, op, i, src, p)
    PROVE  SnapTyped'
<1>. DEFINE s == past.given + 1
            meta == [synth |-> s, status |-> "preparing", prio |-> p, life |-> 0]
            a == [pc |-> "index", op |-> op, id |-> i, meta |-> meta, src |-> src]
<1>1. /\ op \in Ops /\ Snaps!Spend("asks", MaxAsks) /\ s <= MaxSnapshots
      /\ docs' = [j \in DOMAIN docs \cup {i} |-> IF j = i THEN meta ELSE docs[j]]
      /\ past' = [past EXCEPT !.born = [j \in DOMAIN past.born \cup {i} |->
                                          IF j = i THEN s ELSE past.born[j]],
                              !.given = s]
      /\ hs' = [hs EXCEPT ![h] = a]
      /\ UNCHANGED <<index, data, tasks, sweep, dead>>
  BY DEF Snaps!Insert, Snaps!Ask
<1>2. /\ spent'.asks = spent.asks + 1 /\ spent.asks \in Nat
  BY <1>1, Spending DEF SnapTyped, RestTyped, WellKept, Snaps!Kinds
<1>3. s \in Snaps!Synths /\ s \in 0..MaxSnapshots
  BY <1>1 DEF SnapTyped, RestTyped, Snaps!Synths, WellKept
<1>4. meta \in Snaps!Metas /\ meta.life = 0
  BY <1>3 DEF Snaps!Metas, Snaps!Statuses, WellKept
<1>5. a \in Asking /\ a.pc = "index" /\ a.meta = meta
  BY <1>1, <1>4 DEF Asking
<1>6. [j \in DOMAIN past.born \cup {i} |-> IF j = i THEN s ELSE past.born[j]] \in Born
  <2>1. PICK A \in SUBSET Ids : past.born \in [A -> Snaps!Synths]
    BY DEF SnapTyped, RestTyped, Born
  <2>2. [j \in A \cup {i} |-> IF j = i THEN s ELSE past.born[j]] \in [A \cup {i} -> Snaps!Synths]
    BY <1>3, <2>1
  <2>3. A \cup {i} \in SUBSET Ids /\ DOMAIN past.born = A
    BY <2>1
  <2>. QED
    BY <2>2, <2>3 DEF Born
<1>7. past' \in [born : Born, given : 0..MaxSnapshots, cut : SUBSET (0..MaxSnapshots),
                 updated : SUBSET Snaps!Synths]
  <2>1. past \in [born : Born, given : 0..MaxSnapshots, cut : SUBSET (0..MaxSnapshots),
                  updated : SUBSET Snaps!Synths]
    BY DEF SnapTyped, RestTyped
  <2>. DEFINE b == [j \in DOMAIN past.born \cup {i} |-> IF j = i THEN s ELSE past.born[j]]
  <2>2. b \in Born /\ past' = [past EXCEPT !.born = b, !.given = s]
    BY <1>1, <1>6
  <2>. HIDE DEF b, s
  <2>3. [past EXCEPT !.born = b] \in [born : Born, given : 0..MaxSnapshots,
                                     cut : SUBSET (0..MaxSnapshots), updated : SUBSET Snaps!Synths]
    BY <2>1, <2>2
  <2>. QED
    BY <1>3, <2>2, <2>3
<1>. HIDE DEF meta, a, s
<1>8. DocsTyped'
  <2>1. DocsTyped /\ DOMAIN docs \subseteq Ids
    BY DEF SnapTyped, DocsTyped
  <2>2. DOMAIN docs' \subseteq Ids /\ \A j \in DOMAIN docs' :
           \/ j \in DOMAIN docs /\ docs'[j] = docs[j]
           \/ docs'[j] \in Snaps!Metas /\ docs'[j].life <= spent'.asks
    BY <1>1, <1>2, <1>4, <2>1
  <2>. QED
    BY <1>2, <2>1, <2>2, DocsKept
<1>9. AskFine(a, spent.asks + 1)
  BY <1>2, <1>4, <1>5 DEF AskFine
<1>. QED
  BY <1>1, <1>7, <1>8, <1>9, AskingTyped

LEMMA GetsTyped ==
    ASSUME WellKept, SnapTyped, NEW h \in Handlers,
           \/ \E i \in Ids, p \in Priorities, renew \in BOOLEAN : Snaps!UpdateGet(h, i, p, renew)
           \/ \E i \in Ids : Snaps!DeleteGet(h, i) \/ Snaps!Scoped(h, i)
           \/ \E p \in Priorities : Snaps!PurgeList(h, p)
    PROVE  SnapTyped'
<1>1. /\ Snaps!Spend("asks", MaxAsks)
      /\ UNCHANGED <<docs, index, data, tasks, sweep, past, dead>>
  BY DEF Snaps!UpdateGet, Snaps!DeleteGet, Snaps!Scoped, Snaps!PurgeList, Snaps!Ask
<1>2. /\ spent'.asks = spent.asks + 1 /\ spent.asks \in Nat /\ spent'.asks <= MaxAsks
      /\ MaxAsks \in Nat
  BY <1>1, Spending DEF SnapTyped, RestTyped, WellKept, Snaps!Kinds
<1>3. DocsTyped'
  BY <1>1, <1>2, DocsKept DEF SnapTyped, DocsTyped
<1>4. \A i \in DOMAIN docs : /\ Snaps!Victim(i) \in Victims
                             /\ docs[i] \in Snaps!Metas /\ docs[i].life <= spent.asks
                             /\ docs[i].life \in Nat /\ i \in Ids
  BY DEF SnapTyped, DocsTyped, Snaps!Metas, Snaps!Victim, Victims
<1>5. ASSUME NEW vs \in SUBSET Victims
      PROVE  AskFine([pc |-> "remove", victims |-> vs], spent.asks + 1)
  BY DEF AskFine, Removing, HasMeta
<1>6. AskFine(Snaps!Free, spent.asks + 1)
  BY DEF AskFine, Snaps!Free, HasMeta
<1>7. ASSUME NEW i \in Ids, NEW p \in Priorities, NEW renew \in BOOLEAN,
             Snaps!UpdateGet(h, i, p, renew)
      PROVE  SnapTyped'
  <2>. DEFINE m == [docs[i] EXCEPT !.prio = p, !.life = @ + (IF renew THEN 1 ELSE 0)]
              a == [pc |-> "put", op |-> "update", id |-> i, src |-> i, meta |-> m]
  <2>1. i \in DOMAIN docs /\ "update" \in Ops /\ hs' = [hs EXCEPT ![h] = a]
    BY <1>7 DEF Snaps!UpdateGet, Snaps!Live, Snaps!Ask
  <2>2. m \in Snaps!Metas /\ m.life <= spent.asks + 1
    <3>1. m.life \in Nat /\ m.life <= spent.asks + 1
      BY <1>2, <1>4, <2>1 DEF Snaps!Metas
    <3>2. m.life \in 0..MaxAsks
      BY <1>2, <3>1
    <3>. QED
      BY <1>4, <2>1, <3>1, <3>2 DEF Snaps!Metas
  <2>. HIDE DEF m
  <2>3. AskFine(a, spent.asks + 1)
    BY <2>1, <2>2 DEF AskFine, Asking, HasMeta
  <2>. QED
    BY <1>1, <1>3, <2>1, <2>3, AskingTyped DEF SnapTyped, RestTyped
<1>8. ASSUME NEW i \in Ids, Snaps!DeleteGet(h, i)
      PROVE  SnapTyped'
  <2>1. i \in DOMAIN docs /\ hs' = [hs EXCEPT ![h] = [pc |-> "remove", victims |-> {Snaps!Victim(i)}]]
    BY <1>8 DEF Snaps!DeleteGet, Snaps!Live
  <2>2. {Snaps!Victim(i)} \in SUBSET Victims
    BY <1>4, <2>1
  <2>. QED
    BY <1>1, <1>3, <1>5, <2>1, <2>2, AskingTyped DEF SnapTyped, RestTyped
<1>9. ASSUME NEW i \in Ids, Snaps!Scoped(h, i)
      PROVE  SnapTyped'
  <2>. DEFINE a == [pc |-> "write", op |-> "scoped", id |-> i, meta |-> docs[i], src |-> i]
  <2>1. i \in DOMAIN docs /\ "scoped" \in Ops /\ hs' = [hs EXCEPT ![h] = a]
    BY <1>9 DEF Snaps!Scoped, Snaps!Live, Snaps!Ask
  <2>2. docs[i] \in Snaps!Metas /\ docs[i].life <= spent.asks + 1
    BY <1>2, <1>4, <2>1
  <2>3. AskFine(a, spent.asks + 1)
    BY <2>1, <2>2 DEF AskFine, Asking, HasMeta
  <2>. QED
    BY <1>1, <1>3, <2>1, <2>3, AskingTyped DEF SnapTyped, RestTyped
<1>10. ASSUME NEW p \in Priorities, Snaps!PurgeList(h, p)
       PROVE  SnapTyped'
  <2>. DEFINE hit == {i \in DOMAIN docs : docs[i].prio = p}
              vs == {Snaps!Victim(i) : i \in hit}
              a == IF hit = {} THEN Snaps!Free ELSE [pc |-> "remove", victims |-> vs]
  <2>1. hs' = [hs EXCEPT ![h] = a]
    BY <1>10 DEF Snaps!PurgeList
  <2>2. vs \in SUBSET Victims
    BY <1>4
  <2>. HIDE DEF vs, hit
  <2>3. AskFine(a, spent.asks + 1)
    BY <1>5, <1>6, <2>2
  <2>. QED
    BY <1>1, <1>3, <2>1, <2>3, AskingTyped DEF SnapTyped, RestTyped
<1>. QED
  BY <1>7, <1>8, <1>9, <1>10

\* A step that spends nothing.
LEMMA AskMoved ==
    ASSUME SnapTyped, UNCHANGED spent, NEW h \in Handlers, NEW a, hs' = [hs EXCEPT ![h] = a],
           AskFine(a, spent.asks)
    PROVE  AsksTyped'
<1>1. \A g \in Handlers : AskFine(hs[g], spent.asks)
  BY DEF SnapTyped, AsksTyped
<1>2. AsksTyped
  BY DEF SnapTyped
<1>3. DOMAIN hs' = Handlers /\ \A g \in Handlers : AskFine(hs'[g], spent.asks)
  BY <1>1, <1>2, AskMoves
<1>. QED
  BY <1>3 DEF AsksTyped

LEMMA TasksMoved ==
    ASSUME SnapTyped, UNCHANGED spent, \A t \in tasks' : t \in tasks \/ TaskFine(t, spent.asks)
    PROVE  TasksTyped'
BY DEF SnapTyped, TasksTyped

LEMMA RemoveTyped ==
    ASSUME SnapTyped, UNCHANGED spent, NEW v \in Victims, Snaps!snap_remove(v)
    PROVE  DocsTyped' /\ TasksTyped'
<1>1. /\ docs' = [j \in DOMAIN docs \ {v.id} |-> docs[j]]
      /\ tasks' = tasks \cup {Snaps!Teardown(v.synth)}
  BY DEF Snaps!snap_remove, Snaps!Drop
<1>2. DocsTyped'
  BY <1>1 DEF SnapTyped, DocsTyped
<1>3. TaskFine(Snaps!Teardown(v.synth), spent.asks)
  BY DEF TaskFine, Teardowns, Snaps!Teardown, Victims, Copies
<1>. QED
  BY <1>1, <1>2, <1>3, TasksMoved

LEMMA PutTyped ==
    ASSUME SnapTyped, UNCHANGED spent, NEW i, NEW m \in Snaps!Metas, m.life <= spent.asks,
           Snaps!snap_put(i, m)
    PROVE  DocsTyped'
BY DEF SnapTyped, DocsTyped, Snaps!snap_put

LEMMA AskAt ==
    ASSUME SnapTyped, NEW h \in Handlers
    PROVE  AskFine(hs[h], spent.asks)
BY DEF SnapTyped, AsksTyped

LEMMA FreeFine ==
    ASSUME NEW n PROVE AskFine(Snaps!Free, n)
BY DEF AskFine, Snaps!Free, HasMeta

LEMMA FillFine ==
    ASSUME WellKept, NEW n, NEW i \in Ids, NEW src \in Ids
    PROVE  /\ TaskFine(Snaps!Fill("fill", i, 0, Queries), n)
           /\ TaskFine(Snaps!Fill("clone", i, src, 0), n)
<1>1. 0 \in 0..MaxSnapshots /\ Queries \in 0..Queries
  BY DEF WellKept
<1>. QED
  BY <1>1 DEF TaskFine, Snaps!Fill, Fills, Clones, FillPcs, Copies, Busy

LEMMA StepsTyped ==
    ASSUME WellKept, SnapTyped, NEW h \in Handlers, Snaps!RequestStep(h)
    PROVE  SnapTyped'
<1>. DEFINE a == hs[h]
<1>1. AskFine(a, spent.asks)
  BY AskAt
<1>2. CASE Snaps!Index(h)
  <2>1. /\ a.pc = "index" /\ hs' = [hs EXCEPT ![h] = [a EXCEPT !.pc = "list"]]
        /\ index' = index \cup {a.meta.synth}
        /\ UNCHANGED <<docs, data, tasks, sweep, past, dead, spent>>
    BY <1>2 DEF Snaps!Index
  <2>2. a \in Asking /\ a.meta.life <= spent.asks
    BY <1>1, <2>1, AskShape DEF AskFine, HasMeta
  <2>. HIDE DEF a
  <2>3. [a EXCEPT !.pc = "list"] \in Asking /\ [a EXCEPT !.pc = "list"].meta = a.meta
    BY <2>2 DEF Asking
  <2>4. AskFine([a EXCEPT !.pc = "list"], spent.asks)
    BY <2>2, <2>3 DEF AskFine
  <2>5. AsksTyped'
    BY <2>1, <2>4, AskMoved
  <2>6. a.meta.synth \in Snaps!Synths
    BY <2>2 DEF Asking, Snaps!Metas
  <2>. QED
    BY <2>1, <2>5, <2>6 DEF SnapTyped, DocsTyped, TasksTyped, RestTyped
<1>3. CASE Snaps!EvictList(h)
  <2>. DEFINE vs == {Snaps!Victim(i) : i \in Snaps!Victims(a.id)}
              b == [pc |-> "evict", op |-> a.op, id |-> a.id, meta |-> a.meta, src |-> a.src,
                    victims |-> vs]
  <2>1. /\ a.pc = "list" /\ hs' = [hs EXCEPT ![h] = b]
        /\ UNCHANGED <<docs, index, data, tasks, sweep, past, dead, spent>>
    BY <1>3 DEF Snaps!EvictList
  <2>2. a \in Asking /\ a.meta.life <= spent.asks
    BY <1>1, <2>1, AskShape DEF AskFine, HasMeta
  <2>3. vs \in SUBSET Victims
    <3>1. Snaps!Victims(a.id) \subseteq DOMAIN docs
      BY DEF Snaps!Victims
    <3>2. \A i \in DOMAIN docs : Snaps!Victim(i) \in Victims
      BY DEF SnapTyped, DocsTyped, Snaps!Metas, Snaps!Victim, Victims
    <3>. QED
      BY <3>1, <3>2
  <2>. HIDE DEF vs, a
  <2>4. b \in Evicting
    BY <2>2, <2>3 DEF Asking, Evicting
  <2>5. AskFine(b, spent.asks)
    BY <2>2, <2>4 DEF AskFine
  <2>6. AsksTyped'
    BY <2>1, <2>5, AskMoved
  <2>. QED
    BY <2>1, <2>6 DEF SnapTyped, DocsTyped, TasksTyped, RestTyped
<1>4. CASE Snaps!Created(h)
  <2>. DEFINE t == IF a.op = "create" THEN Snaps!Fill("fill", a.id, 0, Queries)
                   ELSE Snaps!Fill("clone", a.id, a.src, 0)
  <2>1. /\ a.pc = "evict" /\ hs' = [hs EXCEPT ![h] = Snaps!Free] /\ tasks' = tasks \cup {t}
        /\ UNCHANGED <<docs, index, data, sweep, past, dead, spent>>
    BY <1>4 DEF Snaps!Created
  <2>2. a \in Evicting
    BY <1>1, <2>1, AskShape
  <2>3. a.id \in Ids /\ a.src \in Ids
    BY <2>2 DEF Evicting
  <2>. HIDE DEF a
  <2>4. TaskFine(t, spent.asks)
    BY <2>3, FillFine
  <2>5. AsksTyped'
    BY <2>1, FreeFine, AskMoved
  <2>6. TasksTyped'
    BY <2>1, <2>4, TasksMoved
  <2>. QED
    BY <2>1, <2>5, <2>6 DEF SnapTyped, DocsTyped, RestTyped
<1>5. CASE Snaps!UpdatePut(h)
  <2>1. /\ a.pc = "put" /\ hs' = [hs EXCEPT ![h] = Snaps!Free] /\ Snaps!snap_put(a.id, a.meta)
        /\ past' = [past EXCEPT !.updated = past.updated \cup {a.meta.synth}]
        /\ UNCHANGED <<index, data, tasks, sweep, dead, spent>>
    BY <1>5 DEF Snaps!UpdatePut
  <2>2. a.meta \in Snaps!Metas /\ a.meta.life <= spent.asks
    BY <1>1, <2>1, AskShape DEF AskFine, HasMeta
  <2>. HIDE DEF a
  <2>3. AsksTyped'
    BY <2>1, FreeFine, AskMoved
  <2>4. DocsTyped'
    BY <2>1, <2>2, PutTyped
  <2>5. a.meta.synth \in Snaps!Synths
    BY <2>2 DEF Snaps!Metas
  <2>. QED
    BY <2>1, <2>3, <2>4, <2>5 DEF SnapTyped, TasksTyped, RestTyped
<1>6. CASE Snaps!ScopedWrite(h)
  <2>1. /\ a.pc = "write" /\ hs' = [hs EXCEPT ![h] = Snaps!Free]
        /\ data' = data \cup {a.meta.synth}
        /\ UNCHANGED <<docs, index, tasks, sweep, past, dead, spent>>
    BY <1>6 DEF Snaps!ScopedWrite
  <2>2. a.meta \in Snaps!Metas
    BY <1>1, <2>1, AskShape DEF HasMeta
  <2>. HIDE DEF a
  <2>3. AsksTyped'
    BY <2>1, FreeFine, AskMoved
  <2>4. a.meta.synth \in Snaps!Synths
    BY <2>2 DEF Snaps!Metas
  <2>. QED
    BY <2>1, <2>3, <2>4 DEF SnapTyped, DocsTyped, TasksTyped, RestTyped
<1>7. ASSUME NEW v \in a.victims, Snaps!Evict(h, v)
      PROVE  SnapTyped'
  <2>1. /\ a.pc = "evict" /\ hs' = [hs EXCEPT ![h] = [a EXCEPT !.victims = a.victims \ {v}]]
        /\ Snaps!snap_remove(v) /\ UNCHANGED <<index, data, sweep, past, dead, spent>>
    BY <1>7 DEF Snaps!Evict
  <2>2. a \in Evicting /\ a.meta.life <= spent.asks /\ a.victims \subseteq Victims
    BY <1>1, <2>1, AskShape DEF AskFine, HasMeta
  <2>. DEFINE b == [a EXCEPT !.victims = a.victims \ {v}]
  <2>. HIDE DEF a
  <2>3. b \in Evicting /\ b.meta = a.meta
    BY <2>2 DEF Evicting
  <2>. HIDE DEF b
  <2>4. AskFine(b, spent.asks)
    BY <2>2, <2>3 DEF AskFine
  <2>5. AsksTyped'
    BY <2>1, <2>4, AskMoved DEF b
  <2>6. DocsTyped' /\ TasksTyped'
    BY <1>7, <2>1, <2>2, RemoveTyped
  <2>. QED
    BY <2>1, <2>5, <2>6 DEF SnapTyped, RestTyped
<1>8. ASSUME NEW v \in a.victims, Snaps!Remove(h, v)
      PROVE  SnapTyped'
  <2>. DEFINE b == IF a.victims = {v} THEN Snaps!Free
                   ELSE [pc |-> "remove", victims |-> a.victims \ {v}]
  <2>1. /\ a.pc = "remove" /\ hs' = [hs EXCEPT ![h] = b]
        /\ Snaps!snap_remove(v) /\ UNCHANGED <<index, data, sweep, past, dead, spent>>
    BY <1>8 DEF Snaps!Remove
  <2>2. a.victims \subseteq Victims
    BY <1>1, <2>1, AskShape
  <2>. HIDE DEF a
  <2>3. [pc |-> "remove", victims |-> a.victims \ {v}] \in Removing
    BY <2>2 DEF Removing
  <2>4. AskFine([pc |-> "remove", victims |-> a.victims \ {v}], spent.asks)
    BY <2>3 DEF AskFine, HasMeta
  <2>5. AskFine(b, spent.asks)
    BY <2>4, FreeFine
  <2>. HIDE DEF b
  <2>6. AsksTyped'
    BY <2>1, <2>5, AskMoved
  <2>7. DocsTyped' /\ TasksTyped'
    BY <1>8, <2>1, <2>2, RemoveTyped
  <2>. QED
    BY <2>1, <2>6, <2>7 DEF SnapTyped, RestTyped
<1>. QED
  BY <1>2, <1>3, <1>4, <1>5, <1>6, <1>7, <1>8 DEF Snaps!RequestStep

\* A task that gives way to others.
LEMMA Becomes ==
    ASSUME SnapTyped, UNCHANGED spent, NEW t, NEW u, Snaps!Become(t, u),
           \A x \in u : TaskFine(x, spent.asks)
    PROVE  TasksTyped'
BY TasksMoved DEF Snaps!Become

LEMMA TaskAt ==
    ASSUME SnapTyped, NEW t \in tasks
    PROVE  TaskFine(t, spent.asks)
BY DEF SnapTyped, TasksTyped

\* A fill or a clone that goes on.
LEMMA FillsOn ==
    ASSUME NEW n, NEW t, TaskFine(t, n), t.kind = "fill"
    PROVE  /\ t \in Fills
           /\ t.pc = "check" => TaskFine([t EXCEPT !.pc = "finish"], n)
           /\ t.pc = "check" => TaskFine([t EXCEPT !.pc = "cancel"], n)
           /\ t.pc = "check" /\ t.left > 0 => TaskFine([t EXCEPT !.pc = "copy"], n)
           /\ \A s \in Snaps!Synths : TaskFine([t EXCEPT !.synth = s, !.pc = "check"], n)
<1>1. t \in Fills /\ (t.pc \in Busy => t.synth \in Snaps!Synths)
  BY TaskShape DEF TaskFine, Copies
<1>2. ASSUME NEW x \in Fills, x.pc \in Busy => x.synth \in Snaps!Synths,
             x.pc = "copy" => x.left > 0
      PROVE  TaskFine(x, n)
  <2>1. x.kind = "fill"
    BY DEF Fills
  <2>. QED
    BY <1>2, <2>1 DEF TaskFine
<1>3. \A pc \in FillPcs : /\ [t EXCEPT !.pc = pc] \in Fills
                          /\ [t EXCEPT !.pc = pc].pc = pc
                          /\ [t EXCEPT !.pc = pc].left = t.left
                          /\ [t EXCEPT !.pc = pc].synth = t.synth
  BY <1>1 DEF Fills
<1>4. ASSUME NEW s \in Snaps!Synths
      PROVE  TaskFine([t EXCEPT !.synth = s, !.pc = "check"], n)
  <2>1. s \in 0..MaxSnapshots
    BY DEF Snaps!Synths
  <2>2. [t EXCEPT !.synth = s] \in Fills /\ [t EXCEPT !.synth = s].synth = s
    BY <1>1, <2>1 DEF Fills
  <2>3. [[t EXCEPT !.synth = s] EXCEPT !.pc = "check"] \in Fills
    BY <2>2 DEF Fills, FillPcs
  <2>4. /\ [[t EXCEPT !.synth = s] EXCEPT !.pc = "check"].synth = s
        /\ [[t EXCEPT !.synth = s] EXCEPT !.pc = "check"].pc = "check"
    BY <2>2 DEF Fills
  <2>. QED
    BY <1>2, <2>3, <2>4
<1>5. {"copy", "cancel", "finish"} \subseteq FillPcs /\ "check" \in Busy
  BY DEF FillPcs, Busy
<1>6. ASSUME NEW pc \in {"copy", "cancel", "finish"}, t.pc = "check", pc = "copy" => t.left > 0
      PROVE  TaskFine([t EXCEPT !.pc = pc], n)
  <2>. DEFINE x == [t EXCEPT !.pc = pc]
  <2>1. x \in Fills /\ x.pc = pc /\ x.left = t.left /\ x.synth = t.synth
    BY <1>3, <1>5
  <2>. HIDE DEF x
  <2>2. TaskFine(x, n)
    BY <1>1, <1>2, <1>5, <1>6, <2>1
  <2>. QED
    BY <2>2 DEF x
<1>. QED
  BY <1>1, <1>4, <1>6

LEMMA ClonesOn ==
    ASSUME NEW n, NEW t, TaskFine(t, n), t.kind = "clone"
    PROVE  /\ t \in Clones
           /\ t.pc = "check" => TaskFine([t EXCEPT !.pc = "finish"], n)
           /\ t.pc = "check" => TaskFine([t EXCEPT !.pc = "cancel"], n)
           /\ \A s \in Snaps!Synths, l \in Snaps!Synths :
                TaskFine([t EXCEPT !.synth = s, !.left = l, !.pc = "copy"], n)
           /\ \A seen \in SUBSET Results : TaskFine([t EXCEPT !.seen = seen, !.pc = "finish"], n)
<1>1. t \in Clones /\ (t.pc \in Busy => t.synth \in Snaps!Synths)
  BY TaskShape DEF TaskFine, Copies
<1>2. ASSUME NEW x \in Clones, x.pc \in Busy => x.synth \in Snaps!Synths
      PROVE  TaskFine(x, n)
  <2>1. x.kind = "clone"
    BY DEF Clones
  <2>. QED
    BY <1>2, <2>1 DEF TaskFine
<1>3. \A pc \in FillPcs, x \in Clones : /\ [x EXCEPT !.pc = pc] \in Clones
                                        /\ [x EXCEPT !.pc = pc].pc = pc
                                        /\ [x EXCEPT !.pc = pc].synth = x.synth
  BY DEF Clones
<1>4. \A seen \in SUBSET Results, x \in Clones : [x EXCEPT !.seen = seen] \in Clones
  BY DEF Clones
<1>5. \A s \in Snaps!Synths, x \in Clones : /\ [x EXCEPT !.synth = s] \in Clones
                                            /\ [x EXCEPT !.synth = s].synth = s
  BY DEF Clones, Snaps!Synths
<1>6. \A s \in Snaps!Synths, x \in Clones : /\ [x EXCEPT !.left = s] \in Clones
                                            /\ [x EXCEPT !.left = s].synth = x.synth
  BY DEF Clones, Snaps!Synths
<1>7. {"copy", "cancel", "finish"} \subseteq FillPcs /\ "check" \in Busy /\ "finish" \notin Busy
  BY DEF FillPcs, Busy
<1>8. ASSUME NEW pc \in {"cancel", "finish"}, t.pc = "check"
      PROVE  TaskFine([t EXCEPT !.pc = pc], n)
  <2>. DEFINE x == [t EXCEPT !.pc = pc]
  <2>1. x \in Clones /\ x.synth = t.synth
    BY <1>1, <1>3, <1>7
  <2>. HIDE DEF x
  <2>2. TaskFine(x, n)
    BY <1>1, <1>2, <1>7, <1>8, <2>1
  <2>. QED
    BY <2>2 DEF x
<1>9. ASSUME NEW seen \in SUBSET Results
      PROVE  TaskFine([t EXCEPT !.seen = seen, !.pc = "finish"], n)
  <2>. DEFINE y == [t EXCEPT !.seen = seen]
              x == [y EXCEPT !.pc = "finish"]
  <2>1. y \in Clones
    BY <1>1, <1>4
  <2>2. x \in Clones /\ x.pc = "finish"
    BY <1>3, <1>7, <2>1
  <2>. HIDE DEF x
  <2>3. TaskFine(x, n)
    BY <1>2, <1>7, <2>2
  <2>. QED
    BY <2>3 DEF x
<1>10. ASSUME NEW s \in Snaps!Synths, NEW l \in Snaps!Synths
      PROVE  TaskFine([t EXCEPT !.synth = s, !.left = l, !.pc = "copy"], n)
  <2>1. [t EXCEPT !.synth = s] \in Clones /\ [t EXCEPT !.synth = s].synth = s
    BY <1>1, <1>5
  <2>2. /\ [[t EXCEPT !.synth = s] EXCEPT !.left = l] \in Clones
        /\ [[t EXCEPT !.synth = s] EXCEPT !.left = l].synth = s
    BY <2>1, <1>6
  <2>3. /\ [[[t EXCEPT !.synth = s] EXCEPT !.left = l] EXCEPT !.pc = "copy"] \in Clones
        /\ [[[t EXCEPT !.synth = s] EXCEPT !.left = l] EXCEPT !.pc = "copy"].synth = s
    BY <2>2, <1>3, <1>7
  <2>. QED
    BY <2>3, <1>2
<1>. QED
  BY <1>1, <1>8, <1>9, <1>10

LEMMA TasksStepTyped ==
    ASSUME WellKept, SnapTyped, NEW t \in tasks, Snaps!TaskStep(t)
    PROVE  SnapTyped'
<1>1. TaskFine(t, spent.asks)
  BY TaskAt
<1>2. \A i \in DOMAIN docs : /\ docs[i] \in Snaps!Metas /\ docs[i].life <= spent.asks
                             /\ docs[i].synth \in Snaps!Synths /\ i \in Ids
  BY DEF SnapTyped, DocsTyped, Snaps!Metas
<1>3. CASE Snaps!FillStart(t)
  <2>1. /\ t.kind \in {"fill", "clone"} /\ UNCHANGED <<docs, index, data, hs, sweep, past, dead, spent>>
    BY <1>3 DEF Snaps!FillStart
  <2>2. CASE t.kind = "fill"
    <3>. DEFINE u == IF Snaps!Live(t.id)
                     THEN {[t EXCEPT !.synth = docs[t.id].synth, !.pc = "check"]} ELSE {}
    <3>1. Snaps!Become(t, u)
      BY <1>3, <2>2 DEF Snaps!FillStart
    <3>2. Snaps!Live(t.id) => docs[t.id].synth \in Snaps!Synths
      BY <1>2 DEF Snaps!Live
    <3>3. \A x \in u : TaskFine(x, spent.asks)
      <4>1. CASE Snaps!Live(t.id)
        <5>. DEFINE s == docs[t.id].synth
        <5>1. s \in Snaps!Synths /\ u = {[t EXCEPT !.synth = s, !.pc = "check"]}
          BY <3>2, <4>1
        <5>. HIDE DEF s, u
        <5>2. TaskFine([t EXCEPT !.synth = s, !.pc = "check"], spent.asks)
          BY <1>1, <2>2, <5>1, FillsOn
        <5>. QED
          BY <5>1, <5>2
      <4>. QED
        BY <4>1
    <3>. HIDE DEF u
    <3>4. TasksTyped'
      BY <2>1, <3>1, <3>3, Becomes
    <3>. QED
      BY <2>1, <3>4 DEF SnapTyped, DocsTyped, AsksTyped, RestTyped
  <2>3. CASE t.kind = "clone"
    <3>. DEFINE go == [t EXCEPT !.synth = docs[t.id].synth, !.left = docs[t.src].synth, !.pc = "copy"]
                no == [t EXCEPT !.seen = {"failure"}, !.pc = "finish"]
                u == IF Snaps!Live(t.id) /\ Snaps!Live(t.src) THEN {go} ELSE {no}
    <3>1. Snaps!Become(t, u)
      BY <1>3, <2>3 DEF Snaps!FillStart
    <3>2. Snaps!Live(t.id) /\ Snaps!Live(t.src) =>
            docs[t.id].synth \in Snaps!Synths /\ docs[t.src].synth \in Snaps!Synths
      BY <1>2 DEF Snaps!Live
    <3>3. Snaps!Live(t.id) /\ Snaps!Live(t.src) => TaskFine(go, spent.asks)
      BY <1>1, <2>3, <3>2, ClonesOn
    <3>4. TaskFine(no, spent.asks)
      <4>1. {"failure"} \in SUBSET Results /\ "finish" \in FillPcs
        BY DEF Results, FillPcs
      <4>. QED
        BY <1>1, <2>3, <4>1, ClonesOn
    <3>. HIDE DEF go, no
    <3>5. \A x \in u : TaskFine(x, spent.asks)
      BY <3>3, <3>4
    <3>. HIDE DEF u
    <3>6. TasksTyped'
      BY <2>1, <3>1, <3>5, Becomes
    <3>. QED
      BY <2>1, <3>6 DEF SnapTyped, DocsTyped, AsksTyped, RestTyped
  <2>. QED
    BY <2>1, <2>2, <2>3
<1>4. CASE Snaps!FillCheck(t)
  <2>. DEFINE pc == IF ~Snaps!Live(t.id) THEN "cancel"
                    ELSE IF t.kind = "fill" /\ t.left > 0 THEN "copy" ELSE "finish"
              x == [t EXCEPT !.pc = pc]
  <2>1. /\ t.kind \in {"fill", "clone"} /\ t.pc = "check" /\ Snaps!Become(t, {x})
        /\ UNCHANGED <<docs, index, data, hs, sweep, past, dead, spent>>
    BY <1>4 DEF Snaps!FillCheck
  <2>2. pc \in {"cancel", "finish"} \/ (pc = "copy" /\ t.kind = "fill" /\ t.left > 0)
    OBVIOUS
  <2>3. TaskFine(x, spent.asks)
    <3>. HIDE DEF pc
    <3>1. CASE t.kind = "clone"
      BY <1>1, <2>1, <2>2, <3>1, ClonesOn
    <3>2. CASE t.kind = "fill" /\ pc = "copy"
      BY <1>1, <2>1, <2>2, <3>2, FillsOn
    <3>3. CASE t.kind = "fill" /\ pc # "copy"
      BY <1>1, <2>1, <2>2, <3>3, FillsOn
    <3>. QED
      BY <2>1, <3>1, <3>2, <3>3
  <2>. HIDE DEF x
  <2>4. TasksTyped'
    BY <2>1, <2>3, Becomes
  <2>. QED
    BY <2>1, <2>4 DEF SnapTyped, DocsTyped, AsksTyped, RestTyped
<1>5. CASE Snaps!FillCancel(t)
  <2>1. /\ Snaps!Become(t, {}) /\ data' = data \ {t.synth}
        /\ UNCHANGED <<docs, index, hs, sweep, past, dead, spent>>
    BY <1>5 DEF Snaps!FillCancel
  <2>2. TasksTyped'
    BY <2>1, Becomes
  <2>. QED
    BY <2>1, <2>2 DEF SnapTyped, DocsTyped, AsksTyped, RestTyped
<1>6. ASSUME NEW r \in Results, Snaps!FillQuery(t, r)
      PROVE  SnapTyped'
  <2>. DEFINE x == [t EXCEPT !.pc = "check", !.left = t.left - 1, !.seen = t.seen \cup {r}]
  <2>1. /\ t.kind = "fill" /\ t.pc = "copy" /\ Snaps!Become(t, {x})
        /\ data' \subseteq data \cup {t.synth}
        /\ UNCHANGED <<docs, index, hs, sweep, past, dead, spent>>
    BY <1>6 DEF Snaps!FillQuery
  <2>2. t \in Fills /\ t.left > 0 /\ t.left \in 0..Queries /\ Queries \in Nat
        /\ t.synth \in Snaps!Synths
    BY <1>1, <2>1, TaskShape DEF TaskFine, Fills, WellKept, Copies, Busy
  <2>3. t.left - 1 \in 0..Queries
    BY <2>2
  <2>4. [t EXCEPT !.pc = "check"] \in Fills
    BY <2>2 DEF Fills, FillPcs
  <2>5. [[t EXCEPT !.pc = "check"] EXCEPT !.left = t.left - 1] \in Fills
    BY <2>3, <2>4 DEF Fills
  <2>6. x \in Fills
    BY <2>2, <2>5 DEF Fills
  <2>7. x.pc = "check" /\ x.kind = "fill" /\ x.synth = t.synth
    BY <2>1, <2>2 DEF Fills
  <2>. HIDE DEF x
  <2>8. TaskFine(x, spent.asks)
    BY <2>2, <2>6, <2>7 DEF TaskFine
  <2>9. TasksTyped'
    BY <2>1, <2>8, Becomes
  <2>. QED
    BY <2>1, <2>2, <2>9 DEF SnapTyped, DocsTyped, AsksTyped, RestTyped
<1>7. ASSUME NEW f \in BOOLEAN, Snaps!CloneCopy(t, f)
      PROVE  SnapTyped'
  <2>. DEFINE seen == {IF f THEN "failure" ELSE "success"}
              x == [t EXCEPT !.pc = "check", !.seen = seen]
  <2>1. /\ t.kind = "clone" /\ t.pc = "copy" /\ Snaps!Become(t, {x})
        /\ data' \subseteq data \cup {t.synth}
        /\ UNCHANGED <<docs, index, hs, sweep, past, dead, spent>>
    BY <1>7 DEF Snaps!CloneCopy
  <2>2. t \in Clones /\ seen \in SUBSET Results /\ t.synth \in Snaps!Synths
    BY <1>1, <2>1, TaskShape DEF Results, TaskFine, Copies, Busy
  <2>. HIDE DEF seen
  <2>3. [t EXCEPT !.pc = "check"] \in Clones
    BY <2>2 DEF Clones, FillPcs
  <2>4. x \in Clones
    BY <2>2, <2>3 DEF Clones
  <2>5. x.kind = "clone" /\ x.synth = t.synth
    BY <2>2, <2>4 DEF Clones
  <2>. HIDE DEF x
  <2>6. TaskFine(x, spent.asks)
    BY <2>2, <2>4, <2>5 DEF TaskFine
  <2>7. TasksTyped'
    BY <2>1, <2>6, Becomes
  <2>. QED
    BY <2>1, <2>2, <2>7 DEF SnapTyped, DocsTyped, AsksTyped, RestTyped
<1>8. CASE Snaps!Finish(t)
  <2>. DEFINE x == [kind |-> "put", id |-> t.id,
                    meta |-> [docs[t.id] EXCEPT !.status = Snaps!status(t)]]
              u == IF Snaps!Live(t.id) THEN {x} ELSE {}
  <2>1. /\ Snaps!Become(t, u) /\ UNCHANGED <<docs, index, data, hs, sweep, past, dead, spent>>
    BY <1>8 DEF Snaps!Finish
  <2>2. Snaps!status(t) \in Snaps!Statuses
    BY DEF Snaps!status, Snaps!Statuses
  <2>3. ASSUME Snaps!Live(t.id)
        PROVE  TaskFine(x, spent.asks)
    <3>. DEFINE m == [docs[t.id] EXCEPT !.status = Snaps!status(t)]
    <3>1. t.id \in DOMAIN docs
      BY <2>3 DEF Snaps!Live
    <3>2. m \in Snaps!Metas /\ m.life = docs[t.id].life
      BY <1>2, <2>2, <3>1 DEF Snaps!Metas
    <3>3. m.life <= spent.asks /\ t.id \in Ids
      BY <1>2, <3>1, <3>2
    <3>. HIDE DEF m
    <3>4. [kind |-> "put", id |-> t.id, meta |-> m] \in Puts
      BY <3>2, <3>3 DEF Puts
    <3>5. TaskFine([kind |-> "put", id |-> t.id, meta |-> m], spent.asks)
      BY <3>3, <3>4 DEF TaskFine, Copies
    <3>. QED
      BY <3>5 DEF m
  <2>. HIDE DEF x
  <2>4. \A y \in u : TaskFine(y, spent.asks)
    BY <2>3
  <2>. HIDE DEF u
  <2>5. TasksTyped'
    BY <2>1, <2>4, Becomes
  <2>. QED
    BY <2>1, <2>5 DEF SnapTyped, DocsTyped, AsksTyped, RestTyped
<1>9. CASE Snaps!FinishPut(t)
  <2>1. /\ t.kind = "put" /\ Snaps!snap_put(t.id, t.meta) /\ Snaps!Become(t, {})
        /\ UNCHANGED <<index, data, hs, sweep, past, dead, spent>>
    BY <1>9 DEF Snaps!FinishPut
  <2>2. t.meta \in Snaps!Metas /\ t.meta.life <= spent.asks
    BY <1>1, <2>1, TaskShape DEF TaskFine, Puts
  <2>3. DocsTyped'
    BY <2>1, <2>2, PutTyped
  <2>4. TasksTyped'
    BY <2>1, Becomes
  <2>. QED
    BY <2>1, <2>3, <2>4 DEF SnapTyped, AsksTyped, RestTyped
<1>10. CASE Snaps!PurgeSynth(t) \/ Snaps!Unindex(t)
  <2>. DEFINE x == [t EXCEPT !.pc = "unindex"]
  <2>1. /\ t.kind = "teardown" /\ (Snaps!Become(t, {x}) \/ Snaps!Become(t, {}))
        /\ data' \subseteq data /\ index' \subseteq index
        /\ UNCHANGED <<docs, hs, sweep, past, dead, spent>>
    BY <1>10 DEF Snaps!PurgeSynth, Snaps!Unindex
  <2>2. t \in Teardowns
    BY <1>1, <2>1, TaskShape
  <2>3. x \in Teardowns /\ x.kind = "teardown"
    BY <2>2 DEF Teardowns
  <2>. HIDE DEF x
  <2>4. TaskFine(x, spent.asks)
    BY <2>3 DEF TaskFine, Copies
  <2>5. TasksTyped'
    <3>1. CASE Snaps!Become(t, {x})
      BY <2>1, <2>4, <3>1, Becomes
    <3>2. CASE Snaps!Become(t, {})
      BY <2>1, <3>2, Becomes
    <3>. QED
      BY <2>1, <3>1, <3>2
  <2>. QED
    BY <2>1, <2>5 DEF SnapTyped, DocsTyped, AsksTyped, RestTyped
<1>. QED
  BY <1>3, <1>4, <1>5, <1>6, <1>7, <1>8, <1>9, <1>10 DEF Snaps!TaskStep, Results

LEMMA OthersTyped ==
    ASSUME WellKept, SnapTyped,
           \/ \E i \in Ids : Snaps!Expire(i)
           \/ Snaps!SweepWalk
           \/ \E v \in sweep : Snaps!SweepRemove(v)
           \/ Snaps!Crash
    PROVE  SnapTyped'
<1>1. \A i \in DOMAIN docs : /\ docs[i].synth \in Snaps!Synths /\ docs[i].life \in 0..MaxAsks
                             /\ i \in Ids /\ Snaps!Victim(i) \in Victims
  BY DEF SnapTyped, DocsTyped, Snaps!Metas, Snaps!Victim, Victims
<1>2. /\ MaxExpiries \in Nat /\ MaxSweeps \in Nat /\ MaxCrashes \in Nat
      /\ {"expiries", "sweeps", "crashes"} \subseteq Snaps!Kinds
      /\ RestTyped /\ spent.asks <= MaxAsks
  BY DEF WellKept, Snaps!Kinds, SnapTyped, RestTyped
<1>3. ASSUME NEW i \in Ids, Snaps!Expire(i)
      PROVE  SnapTyped'
  <2>1. /\ i \in DOMAIN docs /\ Snaps!Spend("expiries", MaxExpiries)
        /\ dead' = dead \cup {<<docs[i].synth, docs[i].life>>}
        /\ UNCHANGED <<docs, index, data, hs, tasks, sweep, past>>
    BY <1>3 DEF Snaps!Expire, Snaps!Live
  <2>2. spent'.asks = spent.asks /\ spent' \in [Snaps!Kinds -> Nat]
    BY <1>2, <2>1, Spending
  <2>3. dead' \subseteq Snaps!Synths \X (0..MaxAsks)
    BY <1>1, <2>1 DEF SnapTyped, RestTyped
  <2>. QED
    BY <2>1, <2>2, <2>3 DEF SnapTyped, DocsTyped, AsksTyped, TasksTyped, RestTyped
<1>4. CASE Snaps!SweepWalk
  <2>1. /\ Snaps!Spend("sweeps", MaxSweeps)
        /\ sweep' = {Snaps!Victim(i) : i \in {j \in DOMAIN docs : Snaps!expired(docs[j])}}
        /\ UNCHANGED <<docs, index, data, hs, tasks, past, dead>>
    BY <1>4 DEF Snaps!SweepWalk
  <2>2. spent'.asks = spent.asks /\ spent' \in [Snaps!Kinds -> Nat]
    BY <1>2, <2>1, Spending
  <2>3. sweep' \subseteq Victims
    BY <1>1, <2>1
  <2>. QED
    BY <2>1, <2>2, <2>3 DEF SnapTyped, DocsTyped, AsksTyped, TasksTyped, RestTyped
<1>5. ASSUME NEW v \in sweep, Snaps!SweepRemove(v)
      PROVE  SnapTyped'
  <2>1. /\ Snaps!snap_remove(v) /\ sweep' = sweep \ {v}
        /\ UNCHANGED <<index, data, hs, past, dead, spent>>
    BY <1>5 DEF Snaps!SweepRemove
  <2>2. v \in Victims
    BY DEF SnapTyped, RestTyped
  <2>3. DocsTyped' /\ TasksTyped'
    BY <2>1, <2>2, RemoveTyped
  <2>. QED
    BY <2>1, <2>3 DEF SnapTyped, AsksTyped, RestTyped
<1>6. CASE Snaps!Crash
  <2>. DEFINE cut == {t.synth : t \in {u \in tasks : u.kind \in {"fill", "clone"}}}
  <2>1. /\ Snaps!Spend("crashes", MaxCrashes)
        /\ hs' = [h \in Handlers |-> Snaps!Free] /\ tasks' = {} /\ sweep' = {}
        /\ past' = [past EXCEPT !.cut = past.cut \cup cut]
        /\ UNCHANGED <<docs, index, data, dead>>
    BY <1>6 DEF Snaps!Crash
  <2>2. spent'.asks = spent.asks /\ spent' \in [Snaps!Kinds -> Nat]
    BY <1>2, <2>1, Spending
  <2>3. cut \in SUBSET (0..MaxSnapshots)
    BY TaskAt, TaskShape DEF Fills, Clones
  <2>. HIDE DEF cut
  <2>4. past' \in [born : Born, given : 0..MaxSnapshots, cut : SUBSET (0..MaxSnapshots),
                   updated : SUBSET Snaps!Synths]
    BY <2>1, <2>3 DEF SnapTyped, RestTyped
  <2>5. AsksTyped'
    BY <2>1, FreeFine DEF AsksTyped
  <2>. QED
    BY <2>1, <2>2, <2>4, <2>5 DEF SnapTyped, DocsTyped, TasksTyped, RestTyped
<1>. QED
  BY <1>3, <1>4, <1>5, <1>6

LEMMA SnapTypedInit ==
    ASSUME WellKept, Snaps!Init PROVE SnapTyped
<1>. USE DEF Snaps!Init
<1>1. DocsTyped
  BY DEF DocsTyped
<1>2. AsksTyped
  BY FreeFine DEF AsksTyped
<1>3. [i \in {} |-> 0] \in Born
  <2>1. [i \in {} |-> 0] \in [{} -> Snaps!Synths] /\ {} \in SUBSET Ids
    OBVIOUS
  <2>. QED
    BY <2>1 DEF Born
<1>4. 0 \in 0..MaxSnapshots
  BY DEF WellKept
<1>5. past \in [born : Born, given : 0..MaxSnapshots, cut : SUBSET (0..MaxSnapshots),
                updated : SUBSET Snaps!Synths]
  BY <1>3, <1>4
<1>6. RestTyped
  BY <1>5 DEF RestTyped, WellKept, Snaps!Kinds
<1>. QED
  BY <1>1, <1>2, <1>6 DEF SnapTyped, TasksTyped

LEMMA SnapTypedStep ==
    ASSUME WellKept, SnapTyped, [Snaps!Next]_Snaps!vars
    PROVE  SnapTyped'
<1>1. CASE UNCHANGED Snaps!vars
  BY <1>1 DEF Snaps!vars, SnapTyped, DocsTyped, AsksTyped, TasksTyped, RestTyped
<1>2. CASE Snaps!Next
  <2>1. ASSUME NEW h \in Handlers, NEW i \in Ids
        PROVE  /\ \A op \in {"create", "clone"}, src \in Ids, p \in Priorities :
                    Snaps!Insert(h, op, i, src, p) => SnapTyped'
               /\ \A p \in Priorities, renew \in BOOLEAN :
                    Snaps!UpdateGet(h, i, p, renew) => SnapTyped'
               /\ Snaps!DeleteGet(h, i) \/ Snaps!Scoped(h, i) => SnapTyped'
    BY InsertTyped, GetsTyped
  <2>2. \A h \in Handlers, p \in Priorities : Snaps!PurgeList(h, p) => SnapTyped'
    BY GetsTyped
  <2>3. \A h \in Handlers : Snaps!RequestStep(h) => SnapTyped'
    BY StepsTyped
  <2>4. \A t \in tasks : Snaps!TaskStep(t) => SnapTyped'
    BY TasksStepTyped
  <2>. QED
    BY <1>2, <2>1, <2>2, <2>3, <2>4, OthersTyped DEF Snaps!Next
<1>. QED
  BY <1>1, <1>2

\* THEOREM: the types hold: what is stored, indexed and copied, what a request
\* or a task holds between two calls, and that a lifetime is renewed by requests
\* (create_snapshot, update_snapshot, fill_snapshot, purge_data_bg).
THEOREM SnapshotsTyped == WellKept /\ Snaps!Spec => []Snaps!TypeOK
<1>. SUFFICES ASSUME WellKept PROVE Snaps!Spec => []Snaps!TypeOK
  OBVIOUS
<1>1. Snaps!Init => SnapTyped
  BY SnapTypedInit
<1>2. SnapTyped /\ [Snaps!Next]_Snaps!vars => SnapTyped'
  BY SnapTypedStep
<1>3. SnapTyped => Snaps!TypeOK
  BY SnapTypes
<1>. QED
  BY <1>1, <1>2, <1>3, PTL DEF Snaps!Spec

-----------------------------------------------------------------------------
(* Every mention of a snapshot is of one synthetic tenant.                 *)

\* A step that takes no id.
LEMMA BornKept ==
    ASSUME BornInv, past'.born = past.born, past'.given = past.given,
           DOMAIN docs' \subseteq DOMAIN docs,
           \A i \in DOMAIN docs' : docs'[i].synth = docs[i].synth,
           \A h \in Handlers : hs'[h] = hs[h] \/ AskOf(hs'[h]),
           \A t \in tasks' : t \in tasks \/ (TaskOf(t) /\ t.kind # "teardown")
                               \/ (TaskOf(t) /\ ~Snaps!Named(t.synth)'),
           \A v \in sweep' : v \in sweep \/ Of(v.id, v.synth)
    PROVE  BornInv'
<1>1. \A i, s : Of(i, s)' <=> Of(i, s)
  BY DEF Of
<1>2. \A a : AskOf(a)' <=> AskOf(a)
  BY <1>1 DEF AskOf
<1>3. \A t : TaskOf(t)' <=> TaskOf(t)
  BY <1>1 DEF TaskOf
<1>4. DocsBorn' /\ SweepBorn'
  BY <1>1 DEF BornInv, DocsBorn, SweepBorn
<1>5. AsksBorn'
  BY <1>2 DEF BornInv, AsksBorn
<1>6. TasksBorn'
  BY <1>3 DEF BornInv, TasksBorn
<1>7. \A s : Snaps!Named(s)' => Snaps!Named(s)
  BY DEF Snaps!Named
<1>8. TornGone'
  BY <1>7 DEF BornInv, TornGone
<1>9. BornApart'
  BY DEF BornInv, BornApart
<1>. QED
  BY <1>4, <1>5, <1>6, <1>8, <1>9 DEF BornInv

LEMMA PutOf ==
    ASSUME BornInv, NEW i, NEW m, Of(i, m.synth), Snaps!snap_put(i, m)
    PROVE  DOMAIN docs' = DOMAIN docs /\ \A j \in DOMAIN docs : docs'[j].synth = docs[j].synth
BY DEF BornInv, DocsBorn, Of, Snaps!snap_put

LEMMA RemoveOf ==
    ASSUME BornInv, NEW v, Of(v.id, v.synth), Snaps!snap_remove(v)
    PROVE  /\ DOMAIN docs' = DOMAIN docs \ {v.id}
           /\ \A j \in DOMAIN docs' : docs'[j] = docs[j]
           /\ ~Snaps!Named(v.synth)'
           /\ \A t \in tasks' : t \in tasks \/ (TaskOf(t) /\ ~Snaps!Named(t.synth)')
<1>1. /\ docs' = [j \in DOMAIN docs \ {v.id} |-> docs[j]]
      /\ tasks' = tasks \cup {Snaps!Teardown(v.synth)}
  BY DEF Snaps!snap_remove, Snaps!Drop
<1>2. ASSUME NEW j \in DOMAIN docs', docs'[j].synth = v.synth
      PROVE  FALSE
  BY <1>1, <1>2 DEF BornInv, DocsBorn, BornApart, Of
<1>3. ~Snaps!Named(v.synth)'
  BY <1>2 DEF Snaps!Named
<1>4. /\ Snaps!Teardown(v.synth).kind = "teardown" /\ Snaps!Teardown(v.synth).synth = v.synth
      /\ v.synth <= past.given
  BY DEF Snaps!Teardown, BornInv, BornApart, Of
<1>5. TaskOf(Snaps!Teardown(v.synth))
  BY <1>4 DEF TaskOf, Copies
<1>. QED
  BY <1>1, <1>3, <1>4, <1>5

LEMMA AskBorn ==
    ASSUME BornInv, NEW h \in Handlers
    PROVE  AskOf(hs[h])
BY DEF BornInv, AsksBorn

LEMMA InsertBorn ==
    ASSUME SnapTyped, BornInv, ~Reuse, NEW h \in Handlers, NEW op \in {"create", "clone"},
           NEW i \in Ids, NEW src \in Ids, NEW p \in Priorities, Snaps!Insert(h, op, i, src, p)
    PROVE  BornInv'
<1>0. PICK s : s = past.given + 1
  OBVIOUS
<1>. DEFINE meta == [synth |-> s, status |-> "preparing", prio |-> p, life |-> 0]
            a == [pc |-> "index", op |-> op, id |-> i, meta |-> meta, src |-> src]
<1>1. /\ docs' = [j \in DOMAIN docs \cup {i} |-> IF j = i THEN meta ELSE docs[j]]
      /\ past' = [past EXCEPT !.born = [j \in DOMAIN past.born \cup {i} |->
                                          IF j = i THEN s ELSE past.born[j]],
                              !.given = s]
      /\ hs' = [hs EXCEPT ![h] = a] /\ i \notin DOMAIN docs /\ i \notin DOMAIN past.born
      /\ UNCHANGED <<index, data, tasks, sweep, dead>>
  BY <1>0 DEF Snaps!Insert
<1>2. past.given \in Nat
  BY DEF SnapTyped, RestTyped
<1>3. /\ past'.born = [j \in DOMAIN past.born \cup {i} |-> IF j = i THEN s ELSE past.born[j]]
      /\ past'.given = s
  <2>. DEFINE b == [j \in DOMAIN past.born \cup {i} |-> IF j = i THEN s ELSE past.born[j]]
  <2>1. past' = [past EXCEPT !.born = b, !.given = s]
    BY <1>1
  <2>2. past \in [born : Born, given : 0..MaxSnapshots, cut : SUBSET (0..MaxSnapshots),
                  updated : SUBSET Snaps!Synths]
    BY DEF SnapTyped, RestTyped
  <2>. HIDE DEF b
  <2>. QED
    BY <2>1, <2>2 DEF b
<1>4. meta.synth = s /\ a.pc = "index" /\ a.id = i /\ a.meta.synth = s
  OBVIOUS
<1>5. s \in Nat /\ s > past.given
  BY <1>0, <1>2
<1>. HIDE DEF meta, a
<1>6. \A j, x : Of(j, x) => Of(j, x)'
  BY <1>1, <1>3 DEF Of
<1>7. Of(i, s)'
  BY <1>3 DEF Of
<1>8. DocsBorn' /\ SweepBorn'
  BY <1>1, <1>4, <1>6, <1>7 DEF BornInv, DocsBorn, SweepBorn
<1>9. \A x : AskOf(x) => AskOf(x)'
  BY <1>6 DEF AskOf
<1>10. AskOf(a)'
  BY <1>4, <1>7 DEF AskOf
<1>11. AsksBorn'
  BY <1>1, <1>9, <1>10, AskMoves DEF BornInv, AsksBorn, SnapTyped
<1>12. ASSUME NEW t \in tasks
       PROVE  TaskOf(t)'
  <2>1. TaskOf(t) /\ TaskFine(t, spent.asks)
    BY TaskAt DEF BornInv, TasksBorn
  <2>2. Copies(t) => t.id \in DOMAIN past'.born /\ t.synth \in {0, past'.born[t.id]}
    BY <1>1, <1>3, <2>1 DEF TaskOf
  <2>3. t.kind = "put" => Of(t.id, t.meta.synth)'
    BY <1>6, <2>1 DEF TaskOf
  <2>4. t.kind = "teardown" => t.synth <= past'.given
    <3>1. t.kind = "teardown" => t.synth \in Nat
      BY <2>1, TaskShape DEF Teardowns, Snaps!Synths
    <3>. QED
      BY <1>2, <1>3, <1>5, <2>1, <3>1 DEF TaskOf
  <2>. QED
    BY <2>2, <2>3, <2>4 DEF TaskOf, Copies
<1>13. TasksBorn'
  BY <1>1, <1>12 DEF TasksBorn
<1>14. ASSUME NEW t \in tasks, t.kind = "teardown", Snaps!Named(t.synth)'
       PROVE  FALSE
  <2>1. t.synth \in Nat /\ t.synth <= past.given
    BY <1>14, TaskAt, TaskShape DEF Teardowns, Snaps!Synths, BornInv, TasksBorn, TaskOf
  <2>2. PICK j \in DOMAIN docs' : docs'[j].synth = t.synth
    BY <1>14 DEF Snaps!Named
  <2>3. CASE j = i
    BY <1>1, <1>2, <1>4, <1>5, <2>1, <2>2, <2>3
  <2>4. CASE j # i
    <3>1. j \in DOMAIN docs /\ docs[j].synth = t.synth
      BY <1>1, <2>2, <2>4
    <3>. QED
      BY <1>14, <3>1 DEF BornInv, TornGone, Snaps!Named
  <2>. QED
    BY <2>3, <2>4
<1>15. TornGone'
  BY <1>1, <1>14 DEF TornGone
<1>16. BornApart'
  <2>1. ASSUME NEW j \in DOMAIN past.born
        PROVE  past.born[j] \in Nat /\ past.born[j] <= past.given
    BY DEF SnapTyped, RestTyped, Born, BornInv, BornApart, Snaps!Synths
  <2>2. \A j \in DOMAIN past.born : past'.born[j] = past.born[j] /\ past.born[j] # s
    BY <1>1, <1>2, <1>3, <1>5, <2>1
  <2>3. past'.born[i] = s /\ DOMAIN past'.born = DOMAIN past.born \cup {i}
    BY <1>3
  <2>4. \A j \in DOMAIN past'.born : past'.born[j] <= past'.given
    BY <1>2, <1>3, <1>5, <2>1, <2>2, <2>3
  <2>5. \A j, k \in DOMAIN past'.born : past'.born[j] = past'.born[k] => j = k
    BY <2>2, <2>3 DEF BornInv, BornApart
  <2>. QED
    BY <2>4, <2>5 DEF BornApart
<1>. QED
  BY <1>8, <1>11, <1>13, <1>15, <1>16 DEF BornInv

LEMMA BornStep ==
    ASSUME WellKept, ~Reuse, SnapTyped, BornInv, [Snaps!Next]_Snaps!vars
    PROVE  BornInv'
<1>1. \A i \in DOMAIN docs : Of(i, docs[i].synth) /\ Of(Snaps!Victim(i).id, Snaps!Victim(i).synth)
  BY DEF BornInv, DocsBorn, Snaps!Victim
<1>2. \A h \in Handlers : AskOf(hs[h]) /\ AskFine(hs[h], spent.asks)
  BY AskBorn, AskAt
<1>3. \A t \in tasks : TaskOf(t) /\ TaskFine(t, spent.asks)
  BY TaskAt DEF BornInv, TasksBorn
<1>4. AskOf(Snaps!Free)
  BY DEF AskOf, Snaps!Free, HasMeta
<1>5. AsksTyped
  BY DEF SnapTyped
\* A request that only moves.
<1>6. ASSUME NEW h \in Handlers, NEW a, hs' = [hs EXCEPT ![h] = a], AskOf(a),
             past'.born = past.born, past'.given = past.given,
             DOMAIN docs' \subseteq DOMAIN docs, \A i \in DOMAIN docs' : docs'[i].synth = docs[i].synth,
             \A t \in tasks' : t \in tasks \/ (TaskOf(t) /\ t.kind # "teardown")
                                 \/ (TaskOf(t) /\ ~Snaps!Named(t.synth)'),
             UNCHANGED sweep
      PROVE  BornInv'
  <2>1. \A g \in Handlers : hs'[g] = hs[g] \/ AskOf(hs'[g])
    BY <1>5, <1>6, AskMoves
  <2>. QED
    BY <1>6, <2>1, BornKept
\* A task that goes on, or ends.
<1>7. ASSUME NEW t, NEW u, Snaps!Become(t, u), \A x \in u : TaskOf(x) /\ x.kind # "teardown",
             past'.born = past.born, past'.given = past.given, UNCHANGED <<hs, sweep>>,
             DOMAIN docs' \subseteq DOMAIN docs, \A i \in DOMAIN docs' : docs'[i].synth = docs[i].synth
      PROVE  BornInv'
  <2>1. \A x \in tasks' : x \in tasks \/ (TaskOf(x) /\ x.kind # "teardown")
    BY <1>7 DEF Snaps!Become
  <2>. QED
    BY <1>7, <2>1, BornKept
<1>8. CASE UNCHANGED Snaps!vars
  BY <1>8, BornKept DEF Snaps!vars
<1>9. ASSUME NEW h \in Handlers, NEW i \in Ids, NEW p \in Priorities, NEW renew \in BOOLEAN,
             Snaps!UpdateGet(h, i, p, renew)
      PROVE  BornInv'
  <2>. DEFINE m == [docs[i] EXCEPT !.prio = p, !.life = @ + (IF renew THEN 1 ELSE 0)]
              a == [pc |-> "put", op |-> "update", id |-> i, src |-> i, meta |-> m]
  <2>1. /\ hs' = [hs EXCEPT ![h] = a] /\ UNCHANGED <<docs, index, data, tasks, sweep, past, dead>>
        /\ i \in DOMAIN docs
    BY <1>9 DEF Snaps!UpdateGet, Snaps!Live
  <2>2. docs[i] \in Snaps!Metas
    BY <2>1 DEF SnapTyped, DocsTyped
  <2>3. m.synth = docs[i].synth
    BY <2>2 DEF Snaps!Metas
  <2>4. a.pc = "put" /\ a.id = i /\ a.meta = m
    OBVIOUS
  <2>. HIDE DEF m, a
  <2>5. AskOf(a)
    BY <1>1, <2>1, <2>3, <2>4 DEF AskOf
  <2>. QED
    BY <1>6, <2>1, <2>5
<1>10. ASSUME NEW h \in Handlers, NEW i \in Ids, Snaps!DeleteGet(h, i)
       PROVE  BornInv'
  <2>. DEFINE a == [pc |-> "remove", victims |-> {Snaps!Victim(i)}]
  <2>1. /\ hs' = [hs EXCEPT ![h] = a] /\ UNCHANGED <<docs, index, data, tasks, sweep, past, dead>>
        /\ i \in DOMAIN docs
    BY <1>10 DEF Snaps!DeleteGet, Snaps!Live
  <2>2. AskOf(a)
    BY <1>1, <2>1 DEF AskOf, HasMeta
  <2>. HIDE DEF a
  <2>. QED
    BY <1>6, <2>1, <2>2
<1>11. ASSUME NEW h \in Handlers, NEW i \in Ids, Snaps!Scoped(h, i)
       PROVE  BornInv'
  <2>. DEFINE a == [pc |-> "write", op |-> "scoped", id |-> i, meta |-> docs[i], src |-> i]
  <2>1. /\ hs' = [hs EXCEPT ![h] = a] /\ UNCHANGED <<docs, index, data, tasks, sweep, past, dead>>
        /\ i \in DOMAIN docs
    BY <1>11 DEF Snaps!Scoped, Snaps!Live
  <2>2. AskOf(a)
    BY <1>1, <2>1 DEF AskOf, HasMeta
  <2>. HIDE DEF a
  <2>. QED
    BY <1>6, <2>1, <2>2
<1>12. ASSUME NEW h \in Handlers, NEW p \in Priorities, Snaps!PurgeList(h, p)
       PROVE  BornInv'
  <2>. DEFINE vs == {Snaps!Victim(i) : i \in {j \in DOMAIN docs : docs[j].prio = p}}
              a == [pc |-> "remove", victims |-> vs]
              b == IF {j \in DOMAIN docs : docs[j].prio = p} = {} THEN Snaps!Free ELSE a
  <2>1. /\ hs' = [hs EXCEPT ![h] = b] /\ UNCHANGED <<docs, index, data, tasks, sweep, past, dead>>
    BY <1>12 DEF Snaps!PurgeList
  <2>2. \A v \in vs : Of(v.id, v.synth)
    BY <1>1
  <2>. HIDE DEF vs
  <2>3. AskOf(a)
    BY <2>2 DEF AskOf, HasMeta
  <2>4. AskOf(b)
    BY <1>4, <2>3
  <2>. HIDE DEF b
  <2>. QED
    BY <1>6, <2>1, <2>4
<1>13. ASSUME NEW h \in Handlers, Snaps!Index(h)
       PROVE  BornInv'
  <2>. DEFINE a == [hs[h] EXCEPT !.pc = "list"]
  <2>1. /\ hs' = [hs EXCEPT ![h] = a] /\ UNCHANGED <<docs, tasks, sweep, past>>
        /\ hs[h].pc = "index"
    BY <1>13 DEF Snaps!Index
  <2>2. hs[h] \in Asking
    BY <1>2, <2>1, AskShape
  <2>3. a.pc = "list" /\ a.id = hs[h].id /\ a.meta = hs[h].meta
    BY <2>2 DEF Asking
  <2>. HIDE DEF a
  <2>4. AskOf(a)
    BY <1>2, <2>1, <2>3 DEF AskOf, HasMeta
  <2>. QED
    BY <1>6, <2>1, <2>4
<1>14. ASSUME NEW h \in Handlers, Snaps!EvictList(h)
       PROVE  BornInv'
  <2>. DEFINE vs == {Snaps!Victim(i) : i \in Snaps!Victims(hs[h].id)}
              a == [pc |-> "evict", op |-> hs[h].op, id |-> hs[h].id, meta |-> hs[h].meta,
                    src |-> hs[h].src, victims |-> vs]
  <2>1. /\ hs' = [hs EXCEPT ![h] = a] /\ UNCHANGED <<docs, tasks, sweep, past>>
        /\ hs[h].pc = "list"
    BY <1>14 DEF Snaps!EvictList
  <2>2. Snaps!Victims(hs[h].id) \subseteq DOMAIN docs
    BY DEF Snaps!Victims
  <2>3. \A v \in vs : Of(v.id, v.synth)
    BY <1>1, <2>2
  <2>4. a.pc = "evict" /\ a.id = hs[h].id /\ a.meta = hs[h].meta /\ a.victims = vs
    OBVIOUS
  <2>. HIDE DEF a, vs
  <2>5. AskOf(a)
    BY <1>2, <2>1, <2>3, <2>4 DEF AskOf, HasMeta
  <2>. QED
    BY <1>6, <2>1, <2>5
<1>15. ASSUME NEW h \in Handlers, Snaps!Created(h)
       PROVE  BornInv'
  <2>. DEFINE t == IF hs[h].op = "create" THEN Snaps!Fill("fill", hs[h].id, 0, Queries)
                   ELSE Snaps!Fill("clone", hs[h].id, hs[h].src, 0)
  <2>1. /\ hs[h].pc = "evict" /\ hs' = [hs EXCEPT ![h] = Snaps!Free] /\ tasks' = tasks \cup {t}
        /\ UNCHANGED <<docs, sweep, past>>
    BY <1>15 DEF Snaps!Created
  <2>2. Of(hs[h].id, hs[h].meta.synth)
    BY <1>2, <2>1 DEF AskOf, HasMeta
  <2>3. t.id = hs[h].id /\ t.synth = 0 /\ t.kind \in {"fill", "clone"}
    BY DEF Snaps!Fill
  <2>. HIDE DEF t
  <2>4. TaskOf(t) /\ t.kind # "teardown"
    BY <2>2, <2>3 DEF TaskOf, Of
  <2>. QED
    BY <1>4, <1>6, <2>1, <2>4
<1>16. ASSUME NEW h \in Handlers, Snaps!UpdatePut(h)
       PROVE  BornInv'
  <2>1. /\ hs[h].pc = "put" /\ hs' = [hs EXCEPT ![h] = Snaps!Free]
        /\ Snaps!snap_put(hs[h].id, hs[h].meta)
        /\ past' = [past EXCEPT !.updated = past.updated \cup {hs[h].meta.synth}]
        /\ UNCHANGED <<tasks, sweep>>
    BY <1>16 DEF Snaps!UpdatePut
  <2>2. Of(hs[h].id, hs[h].meta.synth)
    BY <1>2, <2>1 DEF AskOf, HasMeta
  <2>3. DOMAIN docs' = DOMAIN docs /\ \A j \in DOMAIN docs : docs'[j].synth = docs[j].synth
    BY <2>1, <2>2, PutOf
  <2>4. past'.born = past.born /\ past'.given = past.given
    BY <2>1 DEF SnapTyped, RestTyped
  <2>. QED
    BY <1>4, <1>6, <2>1, <2>3, <2>4
<1>17. ASSUME NEW h \in Handlers, Snaps!ScopedWrite(h)
       PROVE  BornInv'
  <2>1. /\ hs' = [hs EXCEPT ![h] = Snaps!Free] /\ UNCHANGED <<docs, tasks, sweep, past>>
    BY <1>17 DEF Snaps!ScopedWrite
  <2>. QED
    BY <1>4, <1>6, <2>1
<1>18. ASSUME NEW h \in Handlers, NEW v \in hs[h].victims, Snaps!Evict(h, v)
       PROVE  BornInv'
  <2>. DEFINE a == [hs[h] EXCEPT !.victims = hs[h].victims \ {v}]
  <2>1. /\ hs[h].pc = "evict" /\ hs' = [hs EXCEPT ![h] = a]
        /\ Snaps!snap_remove(v) /\ UNCHANGED <<sweep, past>>
    BY <1>18 DEF Snaps!Evict
  <2>2. hs[h] \in Evicting
    BY <1>2, <2>1, AskShape
  <2>3. /\ a.pc = "evict" /\ a.id = hs[h].id /\ a.meta = hs[h].meta
        /\ a.victims = hs[h].victims \ {v}
    BY <2>1, <2>2 DEF Evicting
  <2>. HIDE DEF a
  <2>4. AskOf(a) /\ Of(v.id, v.synth)
    BY <1>2, <2>1, <2>3 DEF AskOf, HasMeta
  <2>5. /\ DOMAIN docs' \subseteq DOMAIN docs /\ \A j \in DOMAIN docs' : docs'[j] = docs[j]
        /\ \A t \in tasks' : t \in tasks \/ (TaskOf(t) /\ ~Snaps!Named(t.synth)')
    BY <2>1, <2>4, RemoveOf
  <2>. QED
    BY <1>6, <2>1, <2>4, <2>5
<1>19. ASSUME NEW h \in Handlers, NEW v \in hs[h].victims, Snaps!Remove(h, v)
       PROVE  BornInv'
  <2>. DEFINE a == [pc |-> "remove", victims |-> hs[h].victims \ {v}]
              b == IF hs[h].victims = {v} THEN Snaps!Free ELSE a
  <2>1. /\ hs[h].pc = "remove" /\ hs' = [hs EXCEPT ![h] = b]
        /\ Snaps!snap_remove(v) /\ UNCHANGED <<sweep, past>>
    BY <1>19 DEF Snaps!Remove
  <2>2. \A x \in hs[h].victims : Of(x.id, x.synth)
    BY <1>2, <2>1 DEF AskOf
  <2>3. AskOf(a)
    BY <2>2 DEF AskOf, HasMeta
  <2>4. AskOf(b) /\ Of(v.id, v.synth)
    BY <1>4, <2>2, <2>3
  <2>. HIDE DEF b
  <2>5. /\ DOMAIN docs' \subseteq DOMAIN docs /\ \A j \in DOMAIN docs' : docs'[j] = docs[j]
        /\ \A t \in tasks' : t \in tasks \/ (TaskOf(t) /\ ~Snaps!Named(t.synth)')
    BY <2>1, <2>4, RemoveOf
  <2>. QED
    BY <1>6, <2>1, <2>4, <2>5
<1>20. ASSUME NEW t \in tasks, Snaps!FillStart(t)
       PROVE  BornInv'
  <2>1. Copies(t) /\ UNCHANGED <<docs, hs, sweep, past>>
    BY <1>20 DEF Snaps!FillStart, Copies
  <2>2. t.id \in DOMAIN past.born /\ t.synth \in {0, past.born[t.id]}
    BY <1>3, <2>1 DEF TaskOf
  <2>3. Snaps!Live(t.id) => docs[t.id].synth = past.born[t.id]
    BY <1>1 DEF Of, Snaps!Live
  <2>. DEFINE s == docs[t.id].synth
              fill == [t EXCEPT !.synth = s, !.pc = "check"]
              go == [t EXCEPT !.synth = s, !.left = docs[t.src].synth, !.pc = "copy"]
              no == [t EXCEPT !.seen = {"failure"}, !.pc = "finish"]
              u == IF t.kind = "fill" THEN IF Snaps!Live(t.id) THEN {fill} ELSE {}
                   ELSE IF Snaps!Live(t.id) /\ Snaps!Live(t.src) THEN {go} ELSE {no}
  <2>4. Snaps!Become(t, u)
    BY <1>20 DEF Snaps!FillStart
  <2>5. t \in Fills \cup Clones
    BY <1>3, <2>1, TaskShape DEF Copies
  <2>6. /\ fill.kind = t.kind /\ fill.id = t.id /\ fill.synth = s
        /\ go.kind = t.kind /\ go.id = t.id /\ go.synth = s
        /\ no.kind = t.kind /\ no.id = t.id /\ no.synth = t.synth
    <3>. HIDE DEF s
    <3>. QED
      BY <2>5 DEF Fills, Clones
  <2>. HIDE DEF fill, go, no
  <2>7. /\ Snaps!Live(t.id) => TaskOf(fill) /\ TaskOf(go)
        /\ TaskOf(no)
        /\ fill.kind # "teardown" /\ go.kind # "teardown" /\ no.kind # "teardown"
    BY <2>1, <2>2, <2>3, <2>6 DEF TaskOf, Copies
  <2>8. \A x \in u : TaskOf(x) /\ x.kind # "teardown"
    BY <2>7
  <2>. HIDE DEF u
  <2>. QED
    BY <1>7, <2>1, <2>4, <2>8
\* A task that keeps its id and its tenant.
<1>21. ASSUME NEW t \in tasks, Copies(t), NEW x, x.kind = t.kind, x.id = t.id, x.synth = t.synth
       PROVE  TaskOf(x) /\ x.kind # "teardown"
  <2>1. TaskOf(t)
    BY <1>3
  <2>. QED
    BY <1>21, <2>1 DEF TaskOf, Copies
<1>22. ASSUME NEW t \in tasks, Snaps!FillCheck(t)
       PROVE  BornInv'
  <2>. DEFINE pc == IF ~Snaps!Live(t.id) THEN "cancel"
                    ELSE IF t.kind = "fill" /\ t.left > 0 THEN "copy" ELSE "finish"
              x == [t EXCEPT !.pc = pc]
  <2>1. Copies(t) /\ Snaps!Become(t, {x}) /\ UNCHANGED <<docs, hs, sweep, past>>
    BY <1>22 DEF Snaps!FillCheck, Copies
  <2>2. t \in Fills \cup Clones
    BY <1>3, <2>1, TaskShape DEF Copies
  <2>3. x.kind = t.kind /\ x.id = t.id /\ x.synth = t.synth
    <3>. HIDE DEF pc
    <3>. QED
      BY <2>2 DEF Fills, Clones
  <2>. HIDE DEF x
  <2>4. TaskOf(x) /\ x.kind # "teardown"
    BY <1>21, <2>1, <2>3
  <2>. QED
    BY <1>7, <2>1, <2>4
<1>23. ASSUME NEW t \in tasks, Snaps!FillCancel(t)
       PROVE  BornInv'
  <2>1. Snaps!Become(t, {}) /\ UNCHANGED <<docs, hs, sweep, past>>
    BY <1>23 DEF Snaps!FillCancel
  <2>. QED
    BY <1>7, <2>1
<1>24. ASSUME NEW t \in tasks, NEW r \in Results, Snaps!FillQuery(t, r)
       PROVE  BornInv'
  <2>. DEFINE x == [t EXCEPT !.pc = "check", !.left = t.left - 1, !.seen = t.seen \cup {r}]
  <2>1. Copies(t) /\ Snaps!Become(t, {x}) /\ UNCHANGED <<docs, hs, sweep, past>>
    BY <1>24 DEF Snaps!FillQuery, Copies
  <2>2. t \in Fills \cup Clones
    BY <1>3, <2>1, TaskShape DEF Copies
  <2>3. x.kind = t.kind /\ x.id = t.id /\ x.synth = t.synth
    BY <2>2 DEF Fills, Clones
  <2>. HIDE DEF x
  <2>4. TaskOf(x) /\ x.kind # "teardown"
    BY <1>21, <2>1, <2>3
  <2>. QED
    BY <1>7, <2>1, <2>4
<1>25. ASSUME NEW t \in tasks, NEW f \in BOOLEAN, Snaps!CloneCopy(t, f)
       PROVE  BornInv'
  <2>. DEFINE seen == {IF f THEN "failure" ELSE "success"}
              x == [t EXCEPT !.pc = "check", !.seen = seen]
  <2>1. Copies(t) /\ Snaps!Become(t, {x}) /\ UNCHANGED <<docs, hs, sweep, past>>
    BY <1>25 DEF Snaps!CloneCopy, Copies
  <2>2. t \in Fills \cup Clones
    BY <1>3, <2>1, TaskShape DEF Copies
  <2>3. x.kind = t.kind /\ x.id = t.id /\ x.synth = t.synth
    <3>. HIDE DEF seen
    <3>. QED
      BY <2>2 DEF Fills, Clones
  <2>. HIDE DEF x
  <2>4. TaskOf(x) /\ x.kind # "teardown"
    BY <1>21, <2>1, <2>3
  <2>. QED
    BY <1>7, <2>1, <2>4
<1>26. ASSUME NEW t \in tasks, Snaps!Finish(t)
       PROVE  BornInv'
  <2>. DEFINE m == [docs[t.id] EXCEPT !.status = Snaps!status(t)]
              x == [kind |-> "put", id |-> t.id, meta |-> m]
              u == IF Snaps!Live(t.id) THEN {x} ELSE {}
  <2>1. Snaps!Become(t, u) /\ UNCHANGED <<docs, hs, sweep, past>>
    BY <1>26 DEF Snaps!Finish
  <2>2. ASSUME Snaps!Live(t.id)
        PROVE  TaskOf(x) /\ x.kind # "teardown"
    <3>1. t.id \in DOMAIN docs /\ docs[t.id] \in Snaps!Metas
      BY <2>2 DEF Snaps!Live, SnapTyped, DocsTyped
    <3>2. m.synth = docs[t.id].synth
      BY <3>1 DEF Snaps!Metas
    <3>3. x.kind = "put" /\ x.id = t.id /\ x.meta = m
      OBVIOUS
    <3>. HIDE DEF m, x
    <3>. QED
      BY <1>1, <3>1, <3>2, <3>3 DEF TaskOf, Copies
  <2>3. \A y \in u : TaskOf(y) /\ y.kind # "teardown"
    BY <2>2
  <2>. HIDE DEF u
  <2>. QED
    BY <1>7, <2>1, <2>3
<1>27. ASSUME NEW t \in tasks, Snaps!FinishPut(t)
       PROVE  BornInv'
  <2>1. /\ t.kind = "put" /\ Snaps!snap_put(t.id, t.meta) /\ Snaps!Become(t, {})
        /\ UNCHANGED <<hs, sweep, past>>
    BY <1>27 DEF Snaps!FinishPut
  <2>2. Of(t.id, t.meta.synth)
    BY <1>3, <2>1 DEF TaskOf
  <2>3. DOMAIN docs' = DOMAIN docs /\ \A j \in DOMAIN docs : docs'[j].synth = docs[j].synth
    BY <2>1, <2>2, PutOf
  <2>. QED
    BY <1>7, <2>1, <2>3
<1>28. ASSUME NEW t \in tasks, Snaps!PurgeSynth(t) \/ Snaps!Unindex(t)
       PROVE  BornInv'
  <2>. DEFINE x == [t EXCEPT !.pc = "unindex"]
  <2>1. /\ t.kind = "teardown" /\ (Snaps!Become(t, {x}) \/ Snaps!Become(t, {}))
        /\ UNCHANGED <<docs, hs, sweep, past>>
    BY <1>28 DEF Snaps!PurgeSynth, Snaps!Unindex
  <2>2. t \in Teardowns /\ TaskOf(t) /\ ~Snaps!Named(t.synth)
    BY <1>3, <2>1, TaskShape DEF BornInv, TornGone
  <2>3. x.kind = "teardown" /\ x.synth = t.synth
    BY <2>2 DEF Teardowns
  <2>. HIDE DEF x
  <2>4. TaskOf(x) /\ ~Snaps!Named(x.synth)'
    BY <2>1, <2>2, <2>3 DEF TaskOf, Copies, Snaps!Named
  <2>5. \A y \in tasks' : y \in tasks \/ (TaskOf(y) /\ ~Snaps!Named(y.synth)')
    BY <2>1, <2>4 DEF Snaps!Become
  <2>. QED
    BY <2>1, <2>5, BornKept
<1>29. ASSUME NEW i \in Ids, Snaps!Expire(i)
       PROVE  BornInv'
  <2>1. UNCHANGED <<docs, hs, tasks, sweep, past>>
    BY <1>29 DEF Snaps!Expire
  <2>. QED
    BY <2>1, BornKept
<1>30. CASE Snaps!SweepWalk
  <2>1. /\ sweep' = {Snaps!Victim(i) : i \in {j \in DOMAIN docs : Snaps!expired(docs[j])}}
        /\ UNCHANGED <<docs, hs, tasks, past>>
    BY <1>30 DEF Snaps!SweepWalk
  <2>2. \A v \in sweep' : Of(v.id, v.synth)
    BY <1>1, <2>1
  <2>. QED
    BY <2>1, <2>2, BornKept
<1>31. ASSUME NEW v \in sweep, Snaps!SweepRemove(v)
       PROVE  BornInv'
  <2>1. Snaps!snap_remove(v) /\ sweep' = sweep \ {v} /\ UNCHANGED <<hs, past>>
    BY <1>31 DEF Snaps!SweepRemove
  <2>2. Of(v.id, v.synth)
    BY DEF BornInv, SweepBorn
  <2>3. /\ DOMAIN docs' \subseteq DOMAIN docs /\ \A j \in DOMAIN docs' : docs'[j] = docs[j]
        /\ \A t \in tasks' : t \in tasks \/ (TaskOf(t) /\ ~Snaps!Named(t.synth)')
    BY <2>1, <2>2, RemoveOf
  <2>. QED
    BY <2>1, <2>3, BornKept
<1>32. CASE Snaps!Crash
  <2>1. /\ hs' = [h \in Handlers |-> Snaps!Free] /\ tasks' = {} /\ sweep' = {}
        /\ past' = [past EXCEPT !.cut = @ \cup {t.synth : t \in {u \in tasks :
                                                           u.kind \in {"fill", "clone"}}}]
        /\ UNCHANGED docs
    BY <1>32 DEF Snaps!Crash
  <2>2. past'.born = past.born /\ past'.given = past.given
    BY <2>1 DEF SnapTyped, RestTyped
  <2>3. \A h \in Handlers : AskOf(hs'[h])
    BY <1>4, <2>1
  <2>. QED
    BY <2>1, <2>2, <2>3, BornKept
<1>33. \A h \in Handlers : Snaps!RequestStep(h) => BornInv'
  BY <1>13, <1>14, <1>15, <1>16, <1>17, <1>18, <1>19 DEF Snaps!RequestStep
<1>34. \A t \in tasks : Snaps!TaskStep(t) => BornInv'
  BY <1>20, <1>22, <1>23, <1>24, <1>25, <1>26, <1>27, <1>28 DEF Snaps!TaskStep, Results
<1>35. ASSUME NEW h \in Handlers, NEW i \in Ids
       PROVE  /\ \A op \in {"create", "clone"}, src \in Ids, p \in Priorities :
                   Snaps!Insert(h, op, i, src, p) => BornInv'
              /\ \A p \in Priorities, renew \in BOOLEAN : Snaps!UpdateGet(h, i, p, renew) => BornInv'
              /\ Snaps!DeleteGet(h, i) => BornInv'
              /\ Snaps!Scoped(h, i) => BornInv'
  BY <1>9, <1>10, <1>11, InsertBorn
<1>. QED
  BY <1>8, <1>12, <1>29, <1>30, <1>31, <1>32, <1>33, <1>34, <1>35 DEF Snaps!Next

LEMMA BornInit ==
    ASSUME Snaps!Init PROVE BornInv
BY DEF Snaps!Init, BornInv, DocsBorn, AsksBorn, TasksBorn, SweepBorn, TornGone, BornApart,
       AskOf, Snaps!Free, HasMeta

\* Only an insert adds a document.
LEMMA OnlyInsertAdds ==
    ASSUME SnapTyped, [Snaps!Next]_Snaps!vars
    PROVE  \/ DOMAIN docs' \subseteq DOMAIN docs /\ past'.born = past.born
           \/ \E h \in Handlers, op \in {"create", "clone"}, i \in Ids, src \in Ids,
                 p \in Priorities : Snaps!Insert(h, op, i, src, p)
<1>. DEFINE Same == DOMAIN docs' \subseteq DOMAIN docs /\ past'.born = past.born
<1>1. past \in [born : Born, given : 0..MaxSnapshots, cut : SUBSET (0..MaxSnapshots),
               updated : SUBSET Snaps!Synths]
  BY DEF SnapTyped, RestTyped
<1>2. UNCHANGED Snaps!vars => Same
  BY DEF Snaps!vars
<1>3. ASSUME NEW h \in Handlers, NEW i \in Ids
      PROVE  /\ \A p \in Priorities, renew \in BOOLEAN : Snaps!UpdateGet(h, i, p, renew) => Same
             /\ Snaps!DeleteGet(h, i) \/ Snaps!Scoped(h, i) => Same
  BY DEF Snaps!UpdateGet, Snaps!DeleteGet, Snaps!Scoped
<1>4. \A h \in Handlers, p \in Priorities : Snaps!PurgeList(h, p) => Same
  BY DEF Snaps!PurgeList
<1>5. \A v : Snaps!snap_remove(v) /\ UNCHANGED past => Same
  BY DEF Snaps!snap_remove, Snaps!Drop
<1>6. \A i, m : Snaps!snap_put(i, m) => DOMAIN docs' = DOMAIN docs
  BY DEF Snaps!snap_put
<1>7. ASSUME NEW h \in Handlers, Snaps!RequestStep(h)
      PROVE  Same
  <2>1. Snaps!Index(h) \/ Snaps!EvictList(h) \/ Snaps!Created(h) \/ Snaps!ScopedWrite(h) => Same
    BY DEF Snaps!Index, Snaps!EvictList, Snaps!Created, Snaps!ScopedWrite
  <2>2. Snaps!UpdatePut(h) => Same
    BY <1>1, <1>6 DEF Snaps!UpdatePut
  <2>3. \A v : Snaps!Evict(h, v) \/ Snaps!Remove(h, v) => Same
    BY <1>5 DEF Snaps!Evict, Snaps!Remove
  <2>. QED
    BY <1>7, <2>1, <2>2, <2>3 DEF Snaps!RequestStep
<1>8. ASSUME NEW t \in tasks, Snaps!TaskStep(t)
      PROVE  Same
  <2>1. Snaps!FillStart(t) \/ Snaps!FillCheck(t) \/ Snaps!FillCancel(t) \/ Snaps!Finish(t) => Same
    BY DEF Snaps!FillStart, Snaps!FillCheck, Snaps!FillCancel, Snaps!Finish
  <2>2. \A r : Snaps!FillQuery(t, r) \/ Snaps!CloneCopy(t, r) => Same
    BY DEF Snaps!FillQuery, Snaps!CloneCopy
  <2>3. Snaps!PurgeSynth(t) \/ Snaps!Unindex(t) => Same
    BY DEF Snaps!PurgeSynth, Snaps!Unindex
  <2>4. Snaps!FinishPut(t) => Same
    BY <1>6 DEF Snaps!FinishPut
  <2>. QED
    BY <1>8, <2>1, <2>2, <2>3, <2>4 DEF Snaps!TaskStep
<1>9. \A i \in Ids : Snaps!Expire(i) => Same
  BY DEF Snaps!Expire
<1>10. Snaps!SweepWalk => Same
  BY DEF Snaps!SweepWalk
<1>11. \A v \in sweep : Snaps!SweepRemove(v) => Same
  BY <1>5 DEF Snaps!SweepRemove
<1>12. Snaps!Crash => Same
  BY <1>1 DEF Snaps!Crash
<1>. HIDE DEF Same
<1>. DEFINE New == \E h \in Handlers, op \in {"create", "clone"}, i \in Ids, src \in Ids,
                      p \in Priorities : Snaps!Insert(h, op, i, src, p)
<1>13. \A h \in Handlers, i \in Ids, op \in {"create", "clone"}, src \in Ids, p \in Priorities :
          Snaps!Insert(h, op, i, src, p) => New
  OBVIOUS
<1>. HIDE DEF New
<1>14. ASSUME Snaps!Next
       PROVE  Same \/ New
  <2>1. CASE \E h \in Handlers, i \in Ids :
                \/ \E op \in {"create", "clone"}, src \in Ids, p \in Priorities :
                      Snaps!Insert(h, op, i, src, p)
                \/ \E p \in Priorities, renew \in BOOLEAN : Snaps!UpdateGet(h, i, p, renew)
                \/ Snaps!DeleteGet(h, i)
                \/ Snaps!Scoped(h, i)
    <3>1. PICK h \in Handlers, i \in Ids :
                \/ \E op \in {"create", "clone"}, src \in Ids, p \in Priorities :
                      Snaps!Insert(h, op, i, src, p)
                \/ \E p \in Priorities, renew \in BOOLEAN : Snaps!UpdateGet(h, i, p, renew)
                \/ Snaps!DeleteGet(h, i)
                \/ Snaps!Scoped(h, i)
      BY <2>1
    <3>. QED
      BY <1>3, <1>13, <3>1
  <2>2. CASE \E h \in Handlers, p \in Priorities : Snaps!PurgeList(h, p)
    BY <1>4, <2>2
  <2>3. CASE \E h \in Handlers : Snaps!RequestStep(h)
    BY <1>7, <2>3
  <2>4. CASE \E t \in tasks : Snaps!TaskStep(t)
    BY <1>8, <2>4
  <2>5. CASE (\E i \in Ids : Snaps!Expire(i)) \/ Snaps!SweepWalk
             \/ (\E v \in sweep : Snaps!SweepRemove(v)) \/ Snaps!Crash
    BY <1>9, <1>10, <1>11, <1>12, <2>5
  <2>. QED
    BY <1>14, <2>1, <2>2, <2>3, <2>4, <2>5 DEF Snaps!Next
<1>. QED
  BY <1>2, <1>14 DEF Same, New

LEMMA InsertIsNew ==
    ASSUME NEW h \in Handlers, NEW op \in {"create", "clone"}, NEW i \in Ids, NEW src \in Ids,
           NEW p \in Priorities, Snaps!Insert(h, op, i, src, p), SnapTyped
    PROVE  /\ docs'[i].synth = past.given + 1 /\ past.given \in Nat
           /\ DOMAIN docs' = DOMAIN docs \cup {i}
           /\ \A j \in DOMAIN docs' : j # i => docs'[j] = docs[j]
BY DEF Snaps!Insert, SnapTyped, RestTyped

LEMMA NothingBack ==
    ASSUME SnapTyped, BornInv, BornInv', [Snaps!Next]_Snaps!vars, NEW i \in DOMAIN docs',
           i \notin DOMAIN docs \/ docs[i].synth # docs'[i].synth
    PROVE  docs'[i].synth > past.given
<1>1. CASE DOMAIN docs' \subseteq DOMAIN docs /\ past'.born = past.born
  <2>1. docs[i].synth = past.born[i] /\ docs'[i].synth = past'.born[i]
    BY <1>1 DEF BornInv, DocsBorn, Of
  <2>. QED
    BY <1>1, <2>1
<1>2. ASSUME NEW h \in Handlers, NEW op \in {"create", "clone"}, NEW k \in Ids, NEW src \in Ids,
             NEW p \in Priorities, Snaps!Insert(h, op, k, src, p)
      PROVE  docs'[i].synth > past.given
  <2>1. /\ docs'[k].synth = past.given + 1 /\ past.given \in Nat
        /\ DOMAIN docs' = DOMAIN docs \cup {k}
        /\ i # k => docs'[i] = docs[i]
    BY <1>2, InsertIsNew
  <2>. QED
    BY <2>1
<1>. QED
  BY <1>1, <1>2, OnlyInsertAdds

\* THEOREM: while ids are not taken again, no write puts back a snapshot that
\* had left the store, nor puts one in another's place (snap_put).
THEOREM SnapshotsStayGone == WellKept /\ ~Reuse /\ Snaps!Spec => Snaps!NotResurrected
<1>. SUFFICES ASSUME WellKept, ~Reuse PROVE Snaps!Spec => Snaps!NotResurrected
  OBVIOUS
<1>. DEFINE Inv == SnapTyped /\ BornInv
<1>1. Snaps!Init => Inv
  BY BornInit, SnapTypedInit
<1>2. Inv /\ [Snaps!Next]_Snaps!vars => Inv'
  BY SnapTypedStep, BornStep
<1>3. Inv /\ Inv' /\ [Snaps!Next]_Snaps!vars =>
        [\A i \in DOMAIN docs' :
            i \notin DOMAIN docs \/ docs[i].synth # docs'[i].synth
              => docs'[i].synth > past.given]_Snaps!vars
  BY NothingBack
<1>. HIDE DEF Inv
<1>. QED
  BY <1>1, <1>2, <1>3, PTL DEF Snaps!Spec, Snaps!NotResurrected


-----------------------------------------------------------------------------
(* A snapshot in preparation has somebody who will settle it.              *)

LEMMA SettleKept ==
    ASSUME SettleInv,
           \A t \in tasks' : t \in tasks \/ (t.kind = "put" => t.meta.status # "preparing"),
           spent'.crashes = 0 => spent.crashes = 0,
           past.updated \subseteq past'.updated, dead \subseteq dead',
           \A i \in DOMAIN docs' :
              \/ i \in DOMAIN docs /\ docs'[i] = docs[i]
              \/ docs'[i].status # "preparing" \/ docs'[i].synth \in past'.updated
              \/ \E h \in Handlers : Makes(hs'[h], i),
           \A i \in DOMAIN docs, h \in Handlers :
              Makes(hs[h], i) => \/ \E g \in Handlers : Makes(hs'[g], i)
                                 \/ \E t \in tasks' : Sees(t, i),
           \A i \in DOMAIN docs, t \in tasks :
              Sees(t, i) => \/ \E u \in tasks' : Sees(u, i)
                            \/ Snaps!expired(docs[i])
                            \/ i \in DOMAIN docs' => docs'[i].status # "preparing"
    PROVE  SettleInv'
<1>1. PutSettles'
  BY DEF SettleInv, PutSettles
<1>2. ASSUME spent'.crashes = 0, NEW i \in DOMAIN docs', docs'[i].status = "preparing"
      PROVE  Settling(i)'
  <2>1. CASE docs'[i].synth \in past'.updated \/ \E h \in Handlers : Makes(hs'[h], i)
    BY <2>1 DEF Settling, Makes
  <2>2. CASE i \in DOMAIN docs /\ docs'[i] = docs[i]
    <3>1. Settling(i)
      BY <1>2, <2>2 DEF SettleInv
    <3>2. Snaps!expired(docs[i]) => Snaps!expired(docs[i])'
      BY <2>2 DEF Snaps!expired
    <3>3. CASE Snaps!expired(docs[i])
      BY <2>2, <3>2, <3>3 DEF Settling, Snaps!expired
    <3>4. CASE docs[i].synth \in past.updated
      BY <2>2, <3>4 DEF Settling
    <3>5. CASE \E h \in Handlers : Makes(hs[h], i)
      BY <2>2, <3>5 DEF Settling, Makes, Sees, Copies
    <3>6. CASE \E t \in tasks : Sees(t, i)
      <4>1. (\E u \in tasks' : Sees(u, i)) \/ Snaps!expired(docs[i])
        BY <1>2, <2>2, <3>6
      <4>. QED
        BY <3>3, <4>1 DEF Settling, Sees, Copies
    <3>. QED
      BY <3>1, <3>3, <3>4, <3>5, <3>6 DEF Settling
  <2>. QED
    BY <1>2, <2>1, <2>2
<1>. QED
  BY <1>1, <1>2 DEF SettleInv

\* A request that moves, and whoever it made a snapshot for.
LEMMA SettleAsk ==
    ASSUME SettleInv, AsksTyped, NEW h \in Handlers, NEW a, hs' = [hs EXCEPT ![h] = a],
           \A i \in DOMAIN docs : Makes(hs[h], i) => Makes(a, i),
           tasks \subseteq tasks', \A t \in tasks' : t \in tasks \/ t.kind # "put",
           spent'.crashes = spent.crashes, UNCHANGED <<past, dead>>,
           DOMAIN docs' \subseteq DOMAIN docs, \A i \in DOMAIN docs' : docs'[i] = docs[i]
    PROVE  SettleInv'
<1>1. hs'[h] = a /\ \A g \in Handlers : g # h => hs'[g] = hs[g]
  BY AskMoves
<1>2. \A i \in DOMAIN docs, g \in Handlers : Makes(hs[g], i) => Makes(hs'[g], i)
  BY <1>1
<1>3. \A i \in DOMAIN docs, t \in tasks : Sees(t, i) => \E u \in tasks' : Sees(u, i)
  OBVIOUS
<1>. QED
  BY <1>2, <1>3, SettleKept

\* A task that goes on, or ends because its snapshot is gone.
LEMMA SettleTask ==
    ASSUME SettleInv, NEW t, NEW u, Snaps!Become(t, u),
           \A x \in u : x.kind = "put" => x.meta.status # "preparing",
           UNCHANGED <<docs, hs, past, dead, spent>>,
           \A i \in DOMAIN docs : Sees(t, i) => Snaps!expired(docs[i]) \/ \E x \in u : Sees(x, i)
    PROVE  SettleInv'
<1>1. \A x \in tasks' : x \in tasks \/ (x.kind = "put" => x.meta.status # "preparing")
  BY DEF Snaps!Become
<1>2. \A i \in DOMAIN docs, x \in tasks :
         Sees(x, i) => Snaps!expired(docs[i]) \/ \E y \in tasks' : Sees(y, i)
  BY DEF Snaps!Become
<1>3. \A i \in DOMAIN docs, g \in Handlers : Makes(hs[g], i) => \E k \in Handlers : Makes(hs'[k], i)
  OBVIOUS
<1>. QED
  BY <1>1, <1>2, <1>3, SettleKept

LEMMA RemoveSettles ==
    ASSUME NEW v, Snaps!snap_remove(v)
    PROVE  /\ DOMAIN docs' \subseteq DOMAIN docs /\ \A i \in DOMAIN docs' : docs'[i] = docs[i]
           /\ tasks \subseteq tasks' /\ \A t \in tasks' : t \in tasks \/ t.kind # "put"
BY DEF Snaps!snap_remove, Snaps!Drop, Snaps!Teardown

LEMMA SettleRequests ==
    ASSUME WellKept, SnapTyped, SettleInv, NEW h \in Handlers, Snaps!RequestStep(h)
    PROVE  SettleInv'
<1>1. AsksTyped /\ AskFine(hs[h], spent.asks)
  BY AskAt DEF SnapTyped
<1>. DEFINE b == hs[h]
<1>2. CASE Snaps!Index(h)
  <2>1. /\ b.pc = "index" /\ hs' = [hs EXCEPT ![h] = [b EXCEPT !.pc = "list"]]
        /\ UNCHANGED <<docs, data, tasks, sweep, past, dead, spent>>
    BY <1>2 DEF Snaps!Index
  <2>2. b \in Asking
    BY <1>1, <2>1, AskShape
  <2>. DEFINE a == [b EXCEPT !.pc = "list"]
  <2>3. a.pc = "list" /\ a.id = b.id
    BY <2>2 DEF Asking
  <2>. HIDE DEF a
  <2>4. \A i \in DOMAIN docs : Makes(hs[h], i) => Makes(a, i)
    BY <2>3 DEF Makes
  <2>. QED
    BY <1>1, <2>1, <2>4, SettleAsk DEF a
<1>3. CASE Snaps!EvictList(h)
  <2>. DEFINE a == [pc |-> "evict", op |-> b.op, id |-> b.id, meta |-> b.meta, src |-> b.src,
                    victims |-> {Snaps!Victim(i) : i \in Snaps!Victims(b.id)}]
  <2>1. hs' = [hs EXCEPT ![h] = a] /\ UNCHANGED <<docs, data, tasks, sweep, past, dead, spent>>
    BY <1>3 DEF Snaps!EvictList
  <2>2. a.pc = "evict" /\ a.id = b.id
    OBVIOUS
  <2>. HIDE DEF a
  <2>3. \A i \in DOMAIN docs : Makes(hs[h], i) => Makes(a, i)
    BY <2>2 DEF Makes
  <2>. QED
    BY <1>1, <2>1, <2>3, SettleAsk
<1>4. CASE Snaps!Created(h)
  <2>. DEFINE t == IF b.op = "create" THEN Snaps!Fill("fill", b.id, 0, Queries)
                   ELSE Snaps!Fill("clone", b.id, b.src, 0)
  <2>1. /\ hs' = [hs EXCEPT ![h] = Snaps!Free] /\ tasks' = tasks \cup {t}
        /\ UNCHANGED <<docs, index, data, sweep, past, dead, spent>>
    BY <1>4 DEF Snaps!Created
  <2>2. t.kind \in {"fill", "clone"} /\ t.id = b.id /\ t.pc = "start"
    BY DEF Snaps!Fill
  <2>. HIDE DEF t
  <2>3. \A i : Makes(b, i) => Sees(t, i)
    BY <2>2 DEF Makes, Sees, Copies
  <2>4. \A i \in DOMAIN docs, g \in Handlers :
           Makes(hs[g], i) => \/ \E k \in Handlers : Makes(hs'[k], i)
                              \/ \E u \in tasks' : Sees(u, i)
    BY <1>1, <2>1, <2>3, AskMoves
  <2>5. \A i \in DOMAIN docs, x \in tasks : Sees(x, i) => \E u \in tasks' : Sees(u, i)
    BY <2>1
  <2>6. \A x \in tasks' : x \in tasks \/ (x.kind = "put" => x.meta.status # "preparing")
    BY <2>1, <2>2
  <2>. QED
    BY <2>1, <2>4, <2>5, <2>6, SettleKept
<1>5. CASE Snaps!UpdatePut(h)
  <2>1. /\ b.pc = "put" /\ hs' = [hs EXCEPT ![h] = Snaps!Free] /\ Snaps!snap_put(b.id, b.meta)
        /\ past' = [past EXCEPT !.updated = past.updated \cup {b.meta.synth}]
        /\ UNCHANGED <<index, data, tasks, sweep, dead, spent>>
    BY <1>5 DEF Snaps!UpdatePut
  <2>2. past'.updated = past.updated \cup {b.meta.synth}
    BY <2>1 DEF SnapTyped, RestTyped
  <2>3. \A i \in DOMAIN docs' : \/ i \in DOMAIN docs /\ docs'[i] = docs[i]
                                \/ docs'[i].synth \in past'.updated
    BY <2>1, <2>2 DEF Snaps!snap_put
  <2>4. \A i \in DOMAIN docs, g \in Handlers :
           Makes(hs[g], i) => \E k \in Handlers : Makes(hs'[k], i)
    BY <1>1, <2>1, AskMoves DEF Makes
  <2>5. \A i \in DOMAIN docs, x \in tasks : Sees(x, i) => \E u \in tasks' : Sees(u, i)
    BY <2>1
  <2>. QED
    BY <2>1, <2>2, <2>3, <2>4, <2>5, SettleKept
<1>6. CASE Snaps!ScopedWrite(h)
  <2>1. /\ b.pc = "write" /\ hs' = [hs EXCEPT ![h] = Snaps!Free]
        /\ UNCHANGED <<docs, index, tasks, sweep, past, dead, spent>>
    BY <1>6 DEF Snaps!ScopedWrite
  <2>2. \A i \in DOMAIN docs : Makes(hs[h], i) => Makes(Snaps!Free, i)
    BY <2>1 DEF Makes
  <2>. QED
    BY <1>1, <2>1, <2>2, SettleAsk
<1>7. ASSUME NEW v \in hs[h].victims, Snaps!Evict(h, v)
      PROVE  SettleInv'
  <2>. DEFINE a == [b EXCEPT !.victims = b.victims \ {v}]
  <2>1. /\ b.pc = "evict" /\ hs' = [hs EXCEPT ![h] = a] /\ Snaps!snap_remove(v)
        /\ UNCHANGED <<index, data, sweep, past, dead, spent>>
    BY <1>7 DEF Snaps!Evict
  <2>2. b \in Evicting
    BY <1>1, <2>1, AskShape
  <2>3. a.pc = "evict" /\ a.id = b.id
    BY <2>1, <2>2 DEF Evicting
  <2>. HIDE DEF a
  <2>4. \A i \in DOMAIN docs : Makes(hs[h], i) => Makes(a, i)
    BY <2>3 DEF Makes
  <2>5. /\ DOMAIN docs' \subseteq DOMAIN docs /\ \A i \in DOMAIN docs' : docs'[i] = docs[i]
        /\ tasks \subseteq tasks' /\ \A t \in tasks' : t \in tasks \/ t.kind # "put"
    BY <2>1, RemoveSettles
  <2>. QED
    BY <1>1, <2>1, <2>4, <2>5, SettleAsk
<1>8. ASSUME NEW v \in hs[h].victims, Snaps!Remove(h, v)
      PROVE  SettleInv'
  <2>. DEFINE a == IF b.victims = {v} THEN Snaps!Free
                   ELSE [pc |-> "remove", victims |-> b.victims \ {v}]
  <2>1. /\ b.pc = "remove" /\ hs' = [hs EXCEPT ![h] = a] /\ Snaps!snap_remove(v)
        /\ UNCHANGED <<index, data, sweep, past, dead, spent>>
    BY <1>8 DEF Snaps!Remove
  <2>. HIDE DEF a
  <2>2. \A i \in DOMAIN docs : Makes(hs[h], i) => Makes(a, i)
    BY <2>1 DEF Makes
  <2>3. /\ DOMAIN docs' \subseteq DOMAIN docs /\ \A i \in DOMAIN docs' : docs'[i] = docs[i]
        /\ tasks \subseteq tasks' /\ \A t \in tasks' : t \in tasks \/ t.kind # "put"
    BY <2>1, RemoveSettles
  <2>. QED
    BY <1>1, <2>1, <2>2, <2>3, SettleAsk
<1>. QED
  BY <1>2, <1>3, <1>4, <1>5, <1>6, <1>7, <1>8 DEF Snaps!RequestStep

LEMMA SettleTasks ==
    ASSUME WellKept, SnapTyped, SettleInv, NEW t \in tasks, Snaps!TaskStep(t)
    PROVE  SettleInv'
<1>1. TaskFine(t, spent.asks)
  BY TaskAt
<1>2. \A i \in DOMAIN docs : Snaps!Live(i) \/ Snaps!expired(docs[i])
  BY DEF Snaps!Live
\* A fill or a clone that goes on.
<1>3. ASSUME NEW x, Copies(t), Snaps!Become(t, {x}), x.kind = t.kind, x.id = t.id,
             x.pc # "cancel" \/ ~Snaps!Live(t.id), UNCHANGED <<docs, hs, past, dead, spent>>
      PROVE  SettleInv'
  <2>1. \A i \in DOMAIN docs : Sees(t, i) => Snaps!expired(docs[i]) \/ Sees(x, i)
    BY <1>2, <1>3 DEF Sees, Copies
  <2>2. x.kind # "put"
    BY <1>3 DEF Copies
  <2>. QED
    BY <1>3, <2>1, <2>2, SettleTask
<1>4. CASE Snaps!FillStart(t)
  <2>1. Copies(t) /\ UNCHANGED <<docs, hs, past, dead, spent>>
    BY <1>4 DEF Snaps!FillStart, Copies
  <2>2. t \in Fills \cup Clones
    BY <1>1, <2>1, TaskShape DEF Copies
  <2>. DEFINE s == docs[t.id].synth
              l == docs[t.src].synth
              fill == [t EXCEPT !.synth = s, !.pc = "check"]
              go == [t EXCEPT !.synth = s, !.left = l, !.pc = "copy"]
              no == [t EXCEPT !.seen = {"failure"}, !.pc = "finish"]
  <2>3. \/ Snaps!Become(t, {fill}) \/ Snaps!Become(t, {go}) \/ Snaps!Become(t, {no})
        \/ Snaps!Become(t, {}) /\ ~Snaps!Live(t.id)
    BY <1>4 DEF Snaps!FillStart
  <2>. HIDE DEF s, l
  <2>4. /\ fill.kind = t.kind /\ fill.id = t.id /\ fill.pc # "cancel"
        /\ go.kind = t.kind /\ go.id = t.id /\ go.pc # "cancel"
        /\ no.kind = t.kind /\ no.id = t.id /\ no.pc # "cancel"
    BY <2>2 DEF Fills, Clones
  <2>. HIDE DEF fill, go, no
  <2>5. CASE Snaps!Become(t, {}) /\ ~Snaps!Live(t.id)
    <3>1. \A i \in DOMAIN docs : Sees(t, i) => Snaps!expired(docs[i])
      BY <1>2, <2>5 DEF Sees
    <3>. QED
      BY <2>1, <2>5, <3>1, SettleTask
  <2>. QED
    BY <1>3, <2>1, <2>3, <2>4, <2>5
<1>5. CASE Snaps!FillCheck(t)
  <2>. DEFINE pc == IF ~Snaps!Live(t.id) THEN "cancel"
                    ELSE IF t.kind = "fill" /\ t.left > 0 THEN "copy" ELSE "finish"
              x == [t EXCEPT !.pc = pc]
  <2>1. Copies(t) /\ Snaps!Become(t, {x}) /\ UNCHANGED <<docs, hs, past, dead, spent>>
    BY <1>5 DEF Snaps!FillCheck, Copies
  <2>2. pc # "cancel" \/ ~Snaps!Live(t.id)
    OBVIOUS
  <2>3. t \in Fills \cup Clones
    BY <1>1, <2>1, TaskShape DEF Copies
  <2>. HIDE DEF pc
  <2>4. x.kind = t.kind /\ x.id = t.id /\ x.pc = pc
    BY <2>3 DEF Fills, Clones
  <2>. HIDE DEF x
  <2>. QED
    BY <1>3, <2>1, <2>2, <2>4
<1>6. CASE Snaps!FillCancel(t)
  <2>1. Copies(t) /\ t.pc = "cancel" /\ Snaps!Become(t, {}) /\ UNCHANGED <<docs, hs, past, dead, spent>>
    BY <1>6 DEF Snaps!FillCancel, Copies
  <2>2. \A i : ~Sees(t, i)
    BY <2>1 DEF Sees, Copies
  <2>. QED
    BY <2>1, <2>2, SettleTask
<1>7. ASSUME NEW r, Snaps!FillQuery(t, r)
      PROVE  SettleInv'
  <2>. DEFINE x == [t EXCEPT !.pc = "check", !.left = t.left - 1, !.seen = t.seen \cup {r}]
  <2>1. Copies(t) /\ Snaps!Become(t, {x}) /\ UNCHANGED <<docs, hs, past, dead, spent>>
    BY <1>7 DEF Snaps!FillQuery, Copies
  <2>2. t \in Fills \cup Clones
    BY <1>1, <2>1, TaskShape DEF Copies
  <2>3. x.kind = t.kind /\ x.id = t.id /\ x.pc = "check"
    BY <2>2 DEF Fills, Clones
  <2>. HIDE DEF x
  <2>. QED
    BY <1>3, <2>1, <2>3
<1>8. ASSUME NEW f, Snaps!CloneCopy(t, f)
      PROVE  SettleInv'
  <2>. DEFINE seen == {IF f THEN "failure" ELSE "success"}
              x == [t EXCEPT !.pc = "check", !.seen = seen]
  <2>1. Copies(t) /\ Snaps!Become(t, {x}) /\ UNCHANGED <<docs, hs, past, dead, spent>>
    BY <1>8 DEF Snaps!CloneCopy, Copies
  <2>2. t \in Fills \cup Clones
    BY <1>1, <2>1, TaskShape DEF Copies
  <2>. HIDE DEF seen
  <2>3. x.kind = t.kind /\ x.id = t.id /\ x.pc = "check"
    BY <2>2 DEF Fills, Clones
  <2>. HIDE DEF x
  <2>. QED
    BY <1>3, <2>1, <2>3
<1>9. CASE Snaps!Finish(t)
  <2>. DEFINE st == Snaps!status(t)
              m == [docs[t.id] EXCEPT !.status = st]
              x == [kind |-> "put", id |-> t.id, meta |-> m]
  <2>1. /\ Copies(t) /\ UNCHANGED <<docs, hs, past, dead, spent>>
        /\ Snaps!Become(t, IF Snaps!Live(t.id) THEN {x} ELSE {})
    BY <1>9 DEF Snaps!Finish, Copies
  <2>2. st # "preparing"
    BY DEF Snaps!status
  <2>3. x.kind = "put" /\ x.id = t.id /\ x.meta = m
    OBVIOUS
  <2>4. CASE Snaps!Live(t.id)
    <3>1. docs[t.id] \in Snaps!Metas
      BY <2>4 DEF Snaps!Live, SnapTyped, DocsTyped
    <3>. HIDE DEF st
    <3>2. m.status = st
      BY <3>1 DEF Snaps!Metas
    <3>. HIDE DEF m, x
    <3>3. \A i : Sees(t, i) => Sees(x, i)
      BY <2>3 DEF Sees
    <3>4. Snaps!Become(t, {x})
      BY <2>1, <2>4
    <3>. QED
      BY <2>1, <2>2, <2>3, <3>2, <3>3, <3>4, SettleTask
  <2>5. CASE ~Snaps!Live(t.id)
    <3>1. \A i \in DOMAIN docs : Sees(t, i) => Snaps!expired(docs[i])
      BY <1>2, <2>5 DEF Sees
    <3>. QED
      BY <2>1, <2>5, <3>1, SettleTask
  <2>. QED
    BY <2>4, <2>5
<1>10. CASE Snaps!FinishPut(t)
  <2>1. /\ t.kind = "put" /\ Snaps!snap_put(t.id, t.meta) /\ Snaps!Become(t, {})
        /\ UNCHANGED <<index, data, hs, sweep, past, dead, spent>>
    BY <1>10 DEF Snaps!FinishPut
  <2>2. t.meta.status # "preparing"
    BY <2>1 DEF SettleInv, PutSettles
  <2>3. \A i \in DOMAIN docs' : \/ i \in DOMAIN docs /\ docs'[i] = docs[i]
                                \/ docs'[i].status # "preparing"
    BY <2>1, <2>2 DEF Snaps!snap_put
  <2>4. \A i \in DOMAIN docs, x \in tasks :
           Sees(x, i) => \/ \E u \in tasks' : Sees(u, i)
                         \/ i \in DOMAIN docs' => docs'[i].status # "preparing"
    <3>1. \A x \in tasks : x \in tasks' \/ x = t
      BY <2>1 DEF Snaps!Become
    <3>2. \A i \in DOMAIN docs : Sees(t, i) => docs'[i].status # "preparing"
      BY <2>1, <2>2 DEF Sees, Snaps!snap_put
    <3>. QED
      BY <3>1, <3>2
  <2>5. \A x \in tasks' : x \in tasks
    BY <2>1 DEF Snaps!Become
  <2>6. \A i \in DOMAIN docs, g \in Handlers :
           Makes(hs[g], i) => \E k \in Handlers : Makes(hs'[k], i)
    BY <2>1
  <2>. QED
    BY <2>1, <2>3, <2>4, <2>5, <2>6, SettleKept
<1>11. CASE Snaps!PurgeSynth(t) \/ Snaps!Unindex(t)
  <2>. DEFINE x == [t EXCEPT !.pc = "unindex"]
  <2>1. /\ t.kind = "teardown" /\ (Snaps!Become(t, {x}) \/ Snaps!Become(t, {}))
        /\ UNCHANGED <<docs, hs, past, dead, spent>>
    BY <1>11 DEF Snaps!PurgeSynth, Snaps!Unindex
  <2>2. t \in Teardowns
    BY <1>1, <2>1, TaskShape
  <2>3. x.kind = "teardown"
    BY <2>2 DEF Teardowns
  <2>. HIDE DEF x
  <2>4. \A i : ~Sees(t, i)
    BY <2>1 DEF Sees, Copies
  <2>. QED
    BY <2>1, <2>3, <2>4, SettleTask
<1>. QED
  BY <1>4, <1>5, <1>6, <1>7, <1>8, <1>9, <1>10, <1>11 DEF Snaps!TaskStep

LEMMA SettleStep ==
    ASSUME WellKept, SnapTyped, SettleInv, [Snaps!Next]_Snaps!vars
    PROVE  SettleInv'
<1>1. AsksTyped /\ RestTyped /\ {"asks", "expiries", "sweeps", "crashes"} \subseteq Snaps!Kinds
  BY DEF SnapTyped, Snaps!Kinds
\* A step that leaves the requests, the tasks and the documents alone.
<1>2. ASSUME UNCHANGED <<docs, hs, tasks, past>>, dead \subseteq dead', spent'.crashes = spent.crashes
      PROVE  SettleInv'
  <2>1. \A i \in DOMAIN docs, g \in Handlers :
           Makes(hs[g], i) => \E k \in Handlers : Makes(hs'[k], i)
    BY <1>2
  <2>2. \A i \in DOMAIN docs, x \in tasks : Sees(x, i) => \E u \in tasks' : Sees(u, i)
    BY <1>2
  <2>. QED
    BY <1>2, <2>1, <2>2, SettleKept
<1>3. CASE UNCHANGED Snaps!vars
  BY <1>2, <1>3 DEF Snaps!vars
\* A request that comes.
<1>4. ASSUME NEW h \in Handlers, NEW a, hs[h] = Snaps!Free, Snaps!Spend("asks", MaxAsks),
             hs' = [hs EXCEPT ![h] = a], UNCHANGED <<docs, tasks, past, dead>>
      PROVE  SettleInv'
  <2>1. spent'.crashes = spent.crashes
    BY <1>1, <1>4, Spending DEF WellKept
  <2>2. \A i \in DOMAIN docs : Makes(hs[h], i) => Makes(a, i)
    BY <1>4 DEF Makes, Snaps!Free
  <2>. QED
    BY <1>1, <1>4, <2>1, <2>2, SettleAsk
<1>5. ASSUME NEW h \in Handlers, NEW i \in Ids, NEW p \in Priorities, NEW renew \in BOOLEAN,
             Snaps!UpdateGet(h, i, p, renew)
      PROVE  SettleInv'
  <2>1. PICK a : hs' = [hs EXCEPT ![h] = a]
    BY <1>5 DEF Snaps!UpdateGet
  <2>. QED
    BY <1>4, <1>5, <2>1 DEF Snaps!UpdateGet, Snaps!Ask
<1>6. ASSUME NEW h \in Handlers, NEW i \in Ids, Snaps!DeleteGet(h, i) \/ Snaps!Scoped(h, i)
      PROVE  SettleInv'
  <2>1. PICK a : hs' = [hs EXCEPT ![h] = a]
    BY <1>6 DEF Snaps!DeleteGet, Snaps!Scoped
  <2>. QED
    BY <1>4, <1>6, <2>1 DEF Snaps!DeleteGet, Snaps!Scoped, Snaps!Ask
<1>7. ASSUME NEW h \in Handlers, NEW p \in Priorities, Snaps!PurgeList(h, p)
      PROVE  SettleInv'
  <2>1. PICK a : hs' = [hs EXCEPT ![h] = a]
    BY <1>7 DEF Snaps!PurgeList
  <2>. QED
    BY <1>4, <1>7, <2>1 DEF Snaps!PurgeList, Snaps!Ask
<1>8. ASSUME NEW h \in Handlers, NEW op \in {"create", "clone"}, NEW i \in Ids, NEW src \in Ids,
             NEW p \in Priorities, Snaps!Insert(h, op, i, src, p)
      PROVE  SettleInv'
  <2>. DEFINE s == past.given + 1
              meta == [synth |-> s, status |-> "preparing", prio |-> p, life |-> 0]
              a == [pc |-> "index", op |-> op, id |-> i, meta |-> meta, src |-> src]
  <2>1. /\ hs[h] = Snaps!Free /\ Snaps!Spend("asks", MaxAsks)
        /\ hs' = [hs EXCEPT ![h] = a]
        /\ \A j \in DOMAIN docs' : j = i \/ (j \in DOMAIN docs /\ docs'[j] = docs[j])
        /\ past' = [past EXCEPT !.born = [j \in DOMAIN past.born \cup {i} |->
                                            IF j = i THEN s ELSE past.born[j]],
                                !.given = s]
        /\ UNCHANGED <<tasks, dead>>
    BY <1>8 DEF Snaps!Insert, Snaps!Ask
  <2>2. spent'.crashes = spent.crashes
    BY <1>1, <2>1, Spending DEF WellKept
  <2>3. past'.updated = past.updated
    BY <2>1 DEF SnapTyped, RestTyped
  <2>4. Makes(a, i)
    BY DEF Makes
  <2>. HIDE DEF meta, a, s
  <2>5. hs'[h] = a /\ \A g \in Handlers : g # h => hs'[g] = hs[g]
    BY <1>1, <2>1, AskMoves
  <2>6. \A j \in DOMAIN docs, g \in Handlers :
           Makes(hs[g], j) => \E k \in Handlers : Makes(hs'[k], j)
    BY <2>1, <2>5 DEF Makes, Snaps!Free
  <2>7. \A j \in DOMAIN docs, x \in tasks : Sees(x, j) => \E u \in tasks' : Sees(u, j)
    BY <2>1
  <2>8. \A j \in DOMAIN docs' : \/ j \in DOMAIN docs /\ docs'[j] = docs[j]
                                \/ \E g \in Handlers : Makes(hs'[g], j)
    BY <2>1, <2>4, <2>5
  <2>. QED
    BY <2>1, <2>2, <2>3, <2>6, <2>7, <2>8, SettleKept
<1>9. ASSUME NEW i \in Ids, Snaps!Expire(i)
      PROVE  SettleInv'
  <2>1. Snaps!Spend("expiries", MaxExpiries) /\ dead \subseteq dead' /\ UNCHANGED <<docs, hs, tasks, past>>
    BY <1>9 DEF Snaps!Expire
  <2>2. spent'.crashes = spent.crashes
    BY <1>1, <2>1, Spending DEF WellKept
  <2>. QED
    BY <1>2, <2>1, <2>2
<1>10. CASE Snaps!SweepWalk
  <2>1. Snaps!Spend("sweeps", MaxSweeps) /\ UNCHANGED <<docs, hs, tasks, past, dead>>
    BY <1>10 DEF Snaps!SweepWalk
  <2>2. spent'.crashes = spent.crashes
    BY <1>1, <2>1, Spending DEF WellKept
  <2>. QED
    BY <1>2, <2>1, <2>2
<1>11. ASSUME NEW v \in sweep, Snaps!SweepRemove(v)
       PROVE  SettleInv'
  <2>1. Snaps!snap_remove(v) /\ UNCHANGED <<hs, past, dead, spent>>
    BY <1>11 DEF Snaps!SweepRemove
  <2>2. /\ DOMAIN docs' \subseteq DOMAIN docs /\ \A i \in DOMAIN docs' : docs'[i] = docs[i]
        /\ tasks \subseteq tasks' /\ \A t \in tasks' : t \in tasks \/ t.kind # "put"
    BY <2>1, RemoveSettles
  <2>3. \A i \in DOMAIN docs, g \in Handlers :
           Makes(hs[g], i) => \E k \in Handlers : Makes(hs'[k], i)
    BY <2>1
  <2>4. \A i \in DOMAIN docs, x \in tasks : Sees(x, i) => \E u \in tasks' : Sees(u, i)
    BY <2>2
  <2>. QED
    BY <2>1, <2>2, <2>3, <2>4, SettleKept
<1>12. CASE Snaps!Crash
  <2>1. Snaps!Spend("crashes", MaxCrashes) /\ tasks' = {}
    BY <1>12 DEF Snaps!Crash
  <2>2. spent'.crashes # 0
    BY <1>1, <2>1, Spending DEF WellKept
  <2>. QED
    BY <2>1, <2>2 DEF SettleInv, PutSettles
<1>13. ASSUME NEW h \in Handlers, NEW i \in Ids
       PROVE  /\ \A op \in {"create", "clone"}, src \in Ids, p \in Priorities :
                   Snaps!Insert(h, op, i, src, p) => SettleInv'
              /\ \A p \in Priorities, renew \in BOOLEAN : Snaps!UpdateGet(h, i, p, renew) => SettleInv'
              /\ Snaps!DeleteGet(h, i) => SettleInv'
              /\ Snaps!Scoped(h, i) => SettleInv'
  BY <1>5, <1>6, <1>8
<1>. QED
  BY <1>3, <1>7, <1>9, <1>10, <1>11, <1>12, <1>13, SettleRequests, SettleTasks DEF Snaps!Next

\* THEOREM: once nothing is on its way and nothing was cut off, no live snapshot
\* is left in preparation, unless an update wrote its own earlier copy back
\* (fill_snapshot and clone_fill always settle the status they were started for).
THEOREM PreparationEnds == WellKept /\ Snaps!Spec => []Snaps!Settles
<1>. SUFFICES ASSUME WellKept PROVE Snaps!Spec => []Snaps!Settles
  OBVIOUS
<1>. DEFINE Inv == SnapTyped /\ SettleInv
<1>1. Snaps!Init => Inv
  <2>1. Snaps!Init => SettleInv
    BY DEF Snaps!Init, SettleInv, PutSettles
  <2>. QED
    BY <2>1, SnapTypedInit
<1>2. Inv /\ [Snaps!Next]_Snaps!vars => Inv'
  BY SnapTypedStep, SettleStep
<1>3. Inv => Snaps!Settles
  <2>. SUFFICES ASSUME Inv, Snaps!AtRest, NEW i \in DOMAIN docs, docs[i].status = "preparing"
                PROVE  Snaps!expired(docs[i]) \/ docs[i].synth \in past.updated
    BY DEF Snaps!Settles
  <2>1. Settling(i)
    BY DEF SettleInv, Snaps!AtRest
  <2>2. \A h \in Handlers : ~Makes(hs[h], i)
    BY DEF Snaps!AtRest, Snaps!Free, Makes
  <2>. QED
    BY <2>1, <2>2 DEF Settling, Snaps!AtRest
<1>. HIDE DEF Inv
<1>. QED
  BY <1>1, <1>2, <1>3, PTL DEF Snaps!Spec

-----------------------------------------------------------------------------
(* The cap of the registry.                                                *)

LEMMA SnapCount ==
    ASSUME NEW S
    PROVE  Snaps!Cardinality(S) = Cardinality(S)
BY DEF Snaps!Cardinality, Cardinality

LEMMA RankedOrders ==
    ASSUME WellKept, SnapTyped, NEW i \in DOMAIN docs, NEW j \in DOMAIN docs, NEW k \in DOMAIN docs
    PROVE  /\ ~Snaps!Ranked(i, i)
           /\ Snaps!Ranked(i, j) /\ Snaps!Ranked(j, k) => Snaps!Ranked(i, k)
<1>1. \A x \in DOMAIN docs : x \in Nat /\ docs[x].prio \in Nat
  BY DEF WellKept, SnapTyped, DocsTyped, Snaps!Metas
<1>2. /\ i \in Nat /\ j \in Nat /\ k \in Nat
      /\ docs[i].prio \in Nat /\ docs[j].prio \in Nat /\ docs[k].prio \in Nat
  BY <1>1
<1>. QED
  BY <1>2 DEF Snaps!Ranked

\* Of the first n of a set of documents there are no fewer than n.
LEMMA FirstOnes ==
    ASSUME WellKept, SnapTyped, NEW S, S \subseteq DOMAIN docs, IsFiniteSet(S),
           NEW n \in Nat, n <= Cardinality(S)
    PROVE  n <= Cardinality({i \in S : Cardinality({j \in S : Snaps!Ranked(j, i)}) < n})
<1>. DEFINE Below(i) == {j \in S : Snaps!Ranked(j, i)}
            L == {i \in S : Cardinality(Below(i)) < n}
            T == S \ L
            U == {Below(i) : i \in T}
<1>1. IsFiniteSet(L) /\ Cardinality(L) \in Nat
  BY FS_Subset, FS_CardinalityType
<1>2. CASE T = {}
  <2>1. L = S
    BY <1>2
  <2>. QED
    BY <2>1
<1>3. CASE T # {}
  <2>1. IsWellFoundedOn(StrictSubsetOrdering(S), FiniteSubsetsOf(S))
    BY FS_StrictSubsetOrderingWellFounded
  <2>2. \A i \in S : IsFiniteSet(Below(i)) /\ Below(i) \subseteq S /\ Cardinality(Below(i)) \in Nat
    BY FS_Subset, FS_CardinalityType
  <2>3. U \subseteq FiniteSubsetsOf(S) /\ U # {}
    BY <1>3, <2>2 DEF FiniteSubsetsOf
  <2>4. PICK x \in U : \A y \in U : ~ (<<y, x>> \in StrictSubsetOrdering(S))
    <3>. HIDE DEF U
    <3>. QED
      BY <2>1, <2>3, WFMin
  <2>5. PICK m \in T : x = Below(m)
    BY <2>4
  <2>6. ASSUME NEW j \in T, Snaps!Ranked(j, m)
        PROVE  FALSE
    <3>1. Below(j) \subseteq Below(m) /\ j \in Below(m) /\ j \notin Below(j)
      BY <2>6, RankedOrders
    <3>2. <<Below(j), Below(m)>> \in StrictSubsetOrdering(S)
      BY <3>1 DEF StrictSubsetOrdering
    <3>3. Below(j) \in U
      OBVIOUS
    <3>. QED
      BY <2>4, <2>5, <3>2, <3>3
  <2>7. Below(m) \subseteq L
    BY <2>6
  <2>8. Cardinality(Below(m)) <= Cardinality(L)
    BY <1>1, <2>7, FS_Subset
  <2>9. ~(Cardinality(Below(m)) < n) /\ Cardinality(Below(m)) \in Nat
    BY <2>2
  <2>. QED
    BY <1>1, <2>8, <2>9
<1>. QED
  BY <1>2, <1>3

\* What is left when a listing's victims are gone is within the cap.
LEMMA VictimsSuffice ==
    ASSUME WellKept, SnapTyped, IsFiniteSet(DOMAIN docs), NEW keep
    PROVE  Within(DOMAIN docs \ Snaps!Victims(keep))
<1>. DEFINE D == DOMAIN docs
            others == D \ {keep}
            V == Snaps!Victims(keep)
<1>1. Cap \in Nat /\ Cap >= 1 /\ Cardinality(D) \in Nat
  BY FS_CardinalityType DEF WellKept
<1>2. /\ IsFiniteSet(others) /\ Cardinality(others) \in Nat
      /\ Cardinality(others) >= Cardinality(D) - 1
  <2>1. IsFiniteSet(others) /\ Cardinality(others) = IF keep \in D THEN Cardinality(D) - 1
                                                     ELSE Cardinality(D)
    BY FS_RemoveElement
  <2>2. Cardinality(others) \in Nat
    BY <2>1, FS_CardinalityType
  <2>. QED
    BY <1>1, <2>1, <2>2
<1>3. Snaps!Over = IF Cardinality(D) - Cap >= 0 THEN Cardinality(D) - Cap ELSE 0
  <2>. DEFINE c == Cardinality(D) - Cap
              m == IF c >= 0 THEN c ELSE 0
  <2>1. Snaps!Over = CHOOSE x \in {c, 0} : \A y \in {c, 0} : x >= y
    BY SnapCount DEF Snaps!Over, Snaps!Max
  <2>2. c \in Int
    BY <1>1
  <2>. HIDE DEF c
  <2>3. m \in {c, 0} /\ \A y \in {c, 0} : m >= y
    BY <2>2
  <2>4. \A x \in {c, 0} : (\A y \in {c, 0} : x >= y) => x = m
    BY <2>2
  <2>. HIDE DEF m
  <2>5. (CHOOSE x \in {c, 0} : \A y \in {c, 0} : x >= y) = m
    BY <2>3, <2>4
  <2>. QED
    BY <2>1, <2>5 DEF m, c
<1>4. V = {i \in others : Cardinality({j \in others : Snaps!Ranked(j, i)}) < Snaps!Over}
  BY SnapCount DEF Snaps!Victims
<1>5. Snaps!Over \in Nat /\ Snaps!Over <= Cardinality(others) /\ Cardinality(D) - Snaps!Over <= Cap
  BY <1>1, <1>2, <1>3
<1>6. Snaps!Over <= Cardinality(V)
  <2>1. PICK n \in Nat : n = Snaps!Over
    BY <1>5
  <2>2. n <= Cardinality({i \in others : Cardinality({j \in others : Snaps!Ranked(j, i)}) < n})
    BY <1>2, <1>5, <2>1, FirstOnes
  <2>. QED
    BY <1>4, <2>1, <2>2
<1>7. V \subseteq D
  BY <1>4
<1>8. IsFiniteSet(V) /\ Cardinality(V) \in Nat
  BY <1>7, FS_Subset, FS_CardinalityType
<1>9. IsFiniteSet(D \ V) /\ Cardinality(D \ V) = Cardinality(D) - Cardinality(D \cap V)
  BY FS_Difference
<1>10. D \cap V = V
  BY <1>7
<1>11. Cardinality(D \ V) = Cardinality(D) - Cardinality(V)
  BY <1>9, <1>10
<1>. QED
  BY <1>1, <1>5, <1>6, <1>8, <1>9, <1>11 DEF Within

LEMMA WithinLess ==
    ASSUME WellKept, NEW S, Within(S), NEW T, T \subseteq S
    PROVE  Within(T)
<1>1. IsFiniteSet(T) /\ Cardinality(T) <= Cardinality(S) /\ Cardinality(T) \in Nat
      /\ Cardinality(S) \in Nat
  BY FS_Subset, FS_CardinalityType DEF Within
<1>. QED
  BY <1>1 DEF Within, WellKept

LEMMA CapHolds ==
    ASSUME WellKept, CapInv, DOMAIN docs' \subseteq DOMAIN docs, spent'.crashes = 0 => spent.crashes = 0,
           \A h \in Handlers : ToList(hs[h]) => \E g \in Handlers : ToList(hs'[g]) \/ Evicts(hs'[g], DOMAIN docs'),
           \A h \in Handlers : Evicts(hs[h], DOMAIN docs) =>
              \/ Within(DOMAIN docs')
              \/ \E g \in Handlers : Evicts(hs'[g], DOMAIN docs')
    PROVE  CapInv'
<1>1. IsFiniteSet(DOMAIN docs')
  BY FS_Subset DEF CapInv
<1>2. Within(DOMAIN docs) => Within(DOMAIN docs')
  BY WithinLess
<1>3. spent'.crashes = 0 => \/ \E h \in Handlers : ToList(hs'[h]) \/ Evicts(hs'[h], DOMAIN docs')
                            \/ Within(DOMAIN docs')
  BY <1>2 DEF CapInv
<1>. QED
  BY <1>1, <1>3 DEF CapInv, Within, Evicts, VictimIds, ToList

\* A request that moves, and still waits if it did.
LEMMA CapAsk ==
    ASSUME WellKept, CapInv, AsksTyped, NEW h \in Handlers, NEW a, hs' = [hs EXCEPT ![h] = a],
           ToList(hs[h]) => ToList(a) \/ Evicts(a, DOMAIN docs'),
           Evicts(hs[h], DOMAIN docs) => Evicts(a, DOMAIN docs') \/ Within(DOMAIN docs'),
           DOMAIN docs' \subseteq DOMAIN docs, spent'.crashes = spent.crashes
    PROVE  CapInv'
<1>1. hs'[h] = a /\ \A g \in Handlers : g # h => hs'[g] = hs[g]
  BY AskMoves
<1>2. \A g \in Handlers : Evicts(hs[g], DOMAIN docs) => Evicts(hs[g], DOMAIN docs')
  <2>1. \A W : DOMAIN docs' \ W \subseteq DOMAIN docs \ W
    OBVIOUS
  <2>. QED
    BY <2>1, WithinLess DEF Evicts
<1>3. ASSUME NEW g \in Handlers, ToList(hs[g])
      PROVE  \E k \in Handlers : ToList(hs'[k]) \/ Evicts(hs'[k], DOMAIN docs')
  BY <1>1, <1>3
<1>4. ASSUME NEW g \in Handlers, Evicts(hs[g], DOMAIN docs)
      PROVE  Within(DOMAIN docs') \/ \E k \in Handlers : Evicts(hs'[k], DOMAIN docs')
  BY <1>1, <1>2, <1>4
<1>. QED
  BY <1>3, <1>4, CapHolds

\* A step that leaves the requests alone.
LEMMA CapRest ==
    ASSUME WellKept, CapInv, UNCHANGED hs, DOMAIN docs' \subseteq DOMAIN docs,
           spent'.crashes = 0 => spent.crashes = 0
    PROVE  CapInv'
<1>1. \A g \in Handlers : Evicts(hs[g], DOMAIN docs) => Evicts(hs[g], DOMAIN docs')
  <2>1. \A W : DOMAIN docs' \ W \subseteq DOMAIN docs \ W
    OBVIOUS
  <2>. QED
    BY <2>1, WithinLess DEF Evicts
<1>2. ASSUME NEW g \in Handlers, ToList(hs[g])
      PROVE  \E k \in Handlers : ToList(hs'[k]) \/ Evicts(hs'[k], DOMAIN docs')
  BY <1>2
<1>3. ASSUME NEW g \in Handlers, Evicts(hs[g], DOMAIN docs)
      PROVE  Within(DOMAIN docs') \/ \E k \in Handlers : Evicts(hs'[k], DOMAIN docs')
  BY <1>1, <1>3
<1>. QED
  BY <1>2, <1>3, CapHolds

LEMMA CapRequests ==
    ASSUME WellKept, SnapTyped, CapInv, NEW h \in Handlers, Snaps!RequestStep(h)
    PROVE  CapInv'
<1>. DEFINE b == hs[h]
<1>1. AsksTyped /\ AskFine(b, spent.asks)
  BY AskAt DEF SnapTyped
<1>2. CASE Snaps!Index(h)
  <2>. DEFINE a == [b EXCEPT !.pc = "list"]
  <2>1. b.pc = "index" /\ hs' = [hs EXCEPT ![h] = a] /\ UNCHANGED <<docs, spent>>
    BY <1>2 DEF Snaps!Index
  <2>2. b \in Asking
    BY <1>1, <2>1, AskShape
  <2>3. a.pc = "list"
    BY <2>2 DEF Asking
  <2>. HIDE DEF a
  <2>4. ToList(a) /\ ~Evicts(hs[h], DOMAIN docs)
    BY <2>1, <2>3 DEF ToList, Evicts
  <2>. QED
    BY <1>1, <2>1, <2>4, CapAsk
<1>3. CASE Snaps!EvictList(h)
  <2>. DEFINE vs == {Snaps!Victim(i) : i \in Snaps!Victims(b.id)}
              a == [pc |-> "evict", op |-> b.op, id |-> b.id, meta |-> b.meta, src |-> b.src,
                    victims |-> vs]
  <2>1. b.pc = "list" /\ hs' = [hs EXCEPT ![h] = a] /\ UNCHANGED <<docs, spent>>
    BY <1>3 DEF Snaps!EvictList
  <2>2. VictimIds(a) = Snaps!Victims(b.id)
    <3>1. a.victims = vs
      OBVIOUS
    <3>2. \A i : Snaps!Victim(i).id = i
      BY DEF Snaps!Victim
    <3>. HIDE DEF a
    <3>3. VictimIds(a) = {v.id : v \in vs}
      BY <3>1 DEF VictimIds
    <3>4. \A i : i \in {v.id : v \in vs} <=> i \in Snaps!Victims(b.id)
      BY <3>2
    <3>. QED
      BY <3>3, <3>4
  <2>3. Within(DOMAIN docs \ Snaps!Victims(b.id))
    BY VictimsSuffice DEF CapInv
  <2>4. a.pc = "evict"
    OBVIOUS
  <2>. HIDE DEF a
  <2>5. Evicts(a, DOMAIN docs)
    BY <2>2, <2>3, <2>4 DEF Evicts
  <2>6. Evicts(a, DOMAIN docs')
    BY <2>1, <2>5
  <2>. QED
    BY <1>1, <2>1, <2>6, CapAsk
<1>4. CASE Snaps!Created(h)
  <2>1. /\ b.pc = "evict" /\ b.victims = {} /\ hs' = [hs EXCEPT ![h] = Snaps!Free]
        /\ UNCHANGED <<docs, spent>>
    BY <1>4 DEF Snaps!Created
  <2>2. VictimIds(b) = {}
    BY <2>1 DEF VictimIds
  <2>3. Evicts(b, DOMAIN docs) => Within(DOMAIN docs)
    BY <2>2, WithinLess DEF Evicts
  <2>4. ~ToList(b)
    BY <2>1 DEF ToList
  <2>5. Evicts(b, DOMAIN docs) => Within(DOMAIN docs')
    BY <2>1, <2>3
  <2>. QED
    BY <1>1, <2>1, <2>4, <2>5, CapAsk
<1>5. CASE Snaps!UpdatePut(h) \/ Snaps!ScopedWrite(h)
  <2>1. /\ b.pc \in {"put", "write"} /\ hs' = [hs EXCEPT ![h] = Snaps!Free]
        /\ DOMAIN docs' = DOMAIN docs /\ UNCHANGED spent
    BY <1>5 DEF Snaps!UpdatePut, Snaps!ScopedWrite, Snaps!snap_put
  <2>2. ~ToList(b) /\ ~Evicts(b, DOMAIN docs)
    BY <2>1 DEF ToList, Evicts
  <2>. QED
    BY <1>1, <2>1, <2>2, CapAsk
<1>6. ASSUME NEW v \in hs[h].victims, Snaps!Evict(h, v)
      PROVE  CapInv'
  <2>. DEFINE a == [b EXCEPT !.victims = b.victims \ {v}]
  <2>1. /\ b.pc = "evict" /\ hs' = [hs EXCEPT ![h] = a] /\ Snaps!snap_remove(v) /\ UNCHANGED spent
    BY <1>6 DEF Snaps!Evict
  <2>2. b \in Evicting
    BY <1>1, <2>1, AskShape
  <2>3. a.pc = "evict" /\ a.victims = b.victims \ {v}
    BY <2>1, <2>2 DEF Evicting
  <2>. HIDE DEF a
  <2>4. DOMAIN docs' = DOMAIN docs \ {v.id}
    BY <2>1 DEF Snaps!snap_remove, Snaps!Drop
  <2>5. VictimIds(b) \subseteq VictimIds(a) \cup {v.id}
    BY <2>3 DEF VictimIds
  <2>6. DOMAIN docs' \ VictimIds(a) \subseteq DOMAIN docs \ VictimIds(b)
    BY <2>4, <2>5
  <2>7. Evicts(b, DOMAIN docs) => Evicts(a, DOMAIN docs')
    BY <2>3, <2>6, WithinLess DEF Evicts
  <2>8. ~ToList(b)
    BY <2>1 DEF ToList
  <2>. QED
    BY <1>1, <2>1, <2>4, <2>7, <2>8, CapAsk
<1>7. ASSUME NEW v \in hs[h].victims, Snaps!Remove(h, v)
      PROVE  CapInv'
  <2>1. b.pc = "remove" /\ Snaps!snap_remove(v) /\ UNCHANGED spent
    BY <1>7 DEF Snaps!Remove
  <2>2. PICK a : hs' = [hs EXCEPT ![h] = a]
    BY <1>7 DEF Snaps!Remove
  <2>3. DOMAIN docs' \subseteq DOMAIN docs
    BY <2>1 DEF Snaps!snap_remove, Snaps!Drop
  <2>4. ~ToList(b) /\ ~Evicts(b, DOMAIN docs)
    BY <2>1 DEF ToList, Evicts
  <2>. QED
    BY <1>1, <2>1, <2>2, <2>3, <2>4, CapAsk
<1>. QED
  BY <1>2, <1>3, <1>4, <1>5, <1>6, <1>7 DEF Snaps!RequestStep

LEMMA CapStep ==
    ASSUME WellKept, SnapTyped, CapInv, [Snaps!Next]_Snaps!vars
    PROVE  CapInv'
<1>1. AsksTyped /\ RestTyped /\ {"asks", "expiries", "sweeps", "crashes"} \subseteq Snaps!Kinds
  BY DEF SnapTyped, Snaps!Kinds
<1>2. CASE UNCHANGED Snaps!vars
  BY <1>2, CapRest DEF Snaps!vars
\* A request that comes, and makes no snapshot.
<1>3. ASSUME NEW h \in Handlers, NEW a, hs[h] = Snaps!Free, Snaps!Spend("asks", MaxAsks),
             hs' = [hs EXCEPT ![h] = a], UNCHANGED docs
      PROVE  CapInv'
  <2>1. spent'.crashes = spent.crashes
    BY <1>1, <1>3, Spending DEF WellKept
  <2>2. ~ToList(hs[h]) /\ ~Evicts(hs[h], DOMAIN docs)
    BY <1>3 DEF ToList, Evicts, Snaps!Free
  <2>. QED
    BY <1>1, <1>3, <2>1, <2>2, CapAsk
<1>4. ASSUME NEW h \in Handlers, NEW i \in Ids, NEW p \in Priorities, NEW renew \in BOOLEAN,
             Snaps!UpdateGet(h, i, p, renew)
      PROVE  CapInv'
  <2>1. PICK a : hs' = [hs EXCEPT ![h] = a]
    BY <1>4 DEF Snaps!UpdateGet
  <2>. QED
    BY <1>3, <1>4, <2>1 DEF Snaps!UpdateGet, Snaps!Ask
<1>5. ASSUME NEW h \in Handlers, NEW i \in Ids, Snaps!DeleteGet(h, i) \/ Snaps!Scoped(h, i)
      PROVE  CapInv'
  <2>1. PICK a : hs' = [hs EXCEPT ![h] = a]
    BY <1>5 DEF Snaps!DeleteGet, Snaps!Scoped
  <2>. QED
    BY <1>3, <1>5, <2>1 DEF Snaps!DeleteGet, Snaps!Scoped, Snaps!Ask
<1>6. ASSUME NEW h \in Handlers, NEW p \in Priorities, Snaps!PurgeList(h, p)
      PROVE  CapInv'
  <2>1. PICK a : hs' = [hs EXCEPT ![h] = a]
    BY <1>6 DEF Snaps!PurgeList
  <2>. QED
    BY <1>3, <1>6, <2>1 DEF Snaps!PurgeList, Snaps!Ask
<1>7. ASSUME NEW h \in Handlers, NEW op \in {"create", "clone"}, NEW i \in Ids, NEW src \in Ids,
             NEW p \in Priorities, Snaps!Insert(h, op, i, src, p)
      PROVE  CapInv'
  <2>. DEFINE s == past.given + 1
              meta == [synth |-> s, status |-> "preparing", prio |-> p, life |-> 0]
              a == [pc |-> "index", op |-> op, id |-> i, meta |-> meta, src |-> src]
  <2>1. hs' = [hs EXCEPT ![h] = a] /\ DOMAIN docs' = DOMAIN docs \cup {i}
    BY <1>7 DEF Snaps!Insert
  <2>2. a.pc = "index"
    OBVIOUS
  <2>. HIDE DEF a
  <2>3. hs'[h] = a
    BY <1>1, <2>1, AskMoves
  <2>4. IsFiniteSet(DOMAIN docs')
    BY <2>1, FS_AddElement DEF CapInv
  <2>5. ToList(hs'[h])
    BY <2>2, <2>3 DEF ToList
  <2>. QED
    BY <2>4, <2>5 DEF CapInv, ToList
<1>8. ASSUME NEW t \in tasks, Snaps!TaskStep(t)
      PROVE  CapInv'
  <2>1. UNCHANGED <<hs, spent>> /\ DOMAIN docs' = DOMAIN docs
    <3>1. Snaps!FillStart(t) \/ Snaps!FillCheck(t) \/ Snaps!FillCancel(t) \/ Snaps!Finish(t)
            => UNCHANGED <<docs, hs, spent>>
      BY DEF Snaps!FillStart, Snaps!FillCheck, Snaps!FillCancel, Snaps!Finish
    <3>2. \A r : Snaps!FillQuery(t, r) \/ Snaps!CloneCopy(t, r) => UNCHANGED <<docs, hs, spent>>
      BY DEF Snaps!FillQuery, Snaps!CloneCopy
    <3>3. Snaps!PurgeSynth(t) \/ Snaps!Unindex(t) => UNCHANGED <<docs, hs, spent>>
      BY DEF Snaps!PurgeSynth, Snaps!Unindex
    <3>4. Snaps!FinishPut(t) => UNCHANGED <<hs, spent>> /\ DOMAIN docs' = DOMAIN docs
      BY DEF Snaps!FinishPut, Snaps!snap_put
    <3>. QED
      BY <1>8, <3>1, <3>2, <3>3, <3>4 DEF Snaps!TaskStep
  <2>. QED
    BY <2>1, CapRest
<1>9. ASSUME NEW i \in Ids, Snaps!Expire(i)
      PROVE  CapInv'
  <2>1. Snaps!Spend("expiries", MaxExpiries) /\ UNCHANGED <<docs, hs>>
    BY <1>9 DEF Snaps!Expire
  <2>2. spent'.crashes = spent.crashes
    BY <1>1, <2>1, Spending DEF WellKept
  <2>. QED
    BY <2>1, <2>2, CapRest
<1>10. CASE Snaps!SweepWalk
  <2>1. Snaps!Spend("sweeps", MaxSweeps) /\ UNCHANGED <<docs, hs>>
    BY <1>10 DEF Snaps!SweepWalk
  <2>2. spent'.crashes = spent.crashes
    BY <1>1, <2>1, Spending DEF WellKept
  <2>. QED
    BY <2>1, <2>2, CapRest
<1>11. ASSUME NEW v \in sweep, Snaps!SweepRemove(v)
       PROVE  CapInv'
  <2>1. UNCHANGED <<hs, spent>> /\ DOMAIN docs' \subseteq DOMAIN docs
    BY <1>11 DEF Snaps!SweepRemove, Snaps!snap_remove, Snaps!Drop
  <2>. QED
    BY <2>1, CapRest
<1>12. CASE Snaps!Crash
  <2>1. Snaps!Spend("crashes", MaxCrashes) /\ UNCHANGED docs
    BY <1>12 DEF Snaps!Crash
  <2>2. spent'.crashes # 0
    BY <1>1, <2>1, Spending DEF WellKept
  <2>. QED
    BY <2>1, <2>2 DEF CapInv
<1>13. ASSUME NEW h \in Handlers, NEW i \in Ids
       PROVE  /\ \A op \in {"create", "clone"}, src \in Ids, p \in Priorities :
                   Snaps!Insert(h, op, i, src, p) => CapInv'
              /\ \A p \in Priorities, renew \in BOOLEAN : Snaps!UpdateGet(h, i, p, renew) => CapInv'
              /\ Snaps!DeleteGet(h, i) => CapInv'
              /\ Snaps!Scoped(h, i) => CapInv'
  BY <1>4, <1>5, <1>7
<1>. QED
  BY <1>2, <1>6, <1>8, <1>9, <1>10, <1>11, <1>12, <1>13, CapRequests DEF Snaps!Next

\* THEOREM: whatever creates, clones, deletions and sweeps interleave, once every
\* request is answered and nothing was cut off the registry is within
\* snapshot_cap (evict_over_cap after every create_snapshot and clone_snapshot).
THEOREM SnapshotsWithinCap == WellKept /\ Snaps!Spec => []Snaps!CapKept
<1>. SUFFICES ASSUME WellKept PROVE Snaps!Spec => []Snaps!CapKept
  OBVIOUS
<1>. DEFINE Inv == SnapTyped /\ CapInv
<1>1. Snaps!Init => Inv
  <2>1. ASSUME Snaps!Init
        PROVE  CapInv
    <3>1. DOMAIN docs = {}
      BY <2>1 DEF Snaps!Init
    <3>2. IsFiniteSet(DOMAIN docs) /\ Cardinality(DOMAIN docs) = 0
      BY <3>1, FS_EmptySet
    <3>. QED
      BY <3>2 DEF CapInv, Within, WellKept
  <2>. QED
    BY <2>1, SnapTypedInit
<1>2. Inv /\ [Snaps!Next]_Snaps!vars => Inv'
  BY SnapTypedStep, CapStep
<1>3. Inv => Snaps!CapKept
  <2>. SUFFICES ASSUME Inv, Snaps!AtRest PROVE Snaps!Cardinality(DOMAIN docs) <= Cap
    BY DEF Snaps!CapKept
  <2>1. \A h \in Handlers : ~ToList(hs[h]) /\ ~Evicts(hs[h], DOMAIN docs)
    BY DEF Snaps!AtRest, Snaps!Free, ToList, Evicts
  <2>2. Within(DOMAIN docs)
    BY <2>1 DEF CapInv, Snaps!AtRest
  <2>. QED
    BY <2>2, SnapCount DEF Within
<1>. HIDE DEF Inv
<1>. QED
  BY <1>1, <1>2, <1>3, PTL DEF Snaps!Spec

-----------------------------------------------------------------------------
(* Every copy is named, or about to be freed.                              *)

\* A snapshot that is there is named by its synthetic tenant, which nobody tears down.
LEMMA StoredNamed ==
    ASSUME BornInv, NEW i \in DOMAIN docs
    PROVE  /\ docs[i].synth = past.born[i] /\ i \in DOMAIN past.born
           /\ Snaps!Named(past.born[i])
           /\ \A t \in tasks : t.kind = "teardown" => t.synth # past.born[i]
           /\ Unindexing(past.born[i]) \notin tasks
<1>1. docs[i].synth = past.born[i] /\ i \in DOMAIN past.born
  BY DEF BornInv, DocsBorn, Of
<1>2. Snaps!Named(past.born[i])
  BY <1>1 DEF Snaps!Named
<1>3. \A t \in tasks : t.kind = "teardown" => t.synth # past.born[i]
  BY <1>2 DEF BornInv, TornGone
<1>4. Unindexing(past.born[i]).kind = "teardown" /\ Unindexing(past.born[i]).synth = past.born[i]
  BY DEF Unindexing
<1>. QED
  BY <1>1, <1>2, <1>3, <1>4

LEMMA FilledKept ==
    ASSUME FilledIndexed, past'.born = past.born, DOMAIN docs' \subseteq DOMAIN docs,
           \A i \in DOMAIN docs : past.born[i] \in index => past.born[i] \in index',
           \A h \in Handlers : hs'[h] = hs[h] \/ AskIndexed(hs'[h])
                                 \/ (hs'[h].pc \in {"list", "evict"} /\
                                       hs'[h].id \in DOMAIN docs => past.born[hs'[h].id] \in index'),
           \A t \in tasks' : t \in tasks \/ TaskIndexed(t)
    PROVE  FilledIndexed'
<1>1. \A a : AskIndexed(a) => AskIndexed(a)'
  BY DEF AskIndexed
<1>2. \A t : TaskIndexed(t) => TaskIndexed(t)'
  BY DEF TaskIndexed
<1>3. ASSUME NEW h \in Handlers
      PROVE  AskIndexed(hs[h])'
  <2>1. CASE hs'[h] = hs[h] \/ AskIndexed(hs'[h])
    BY <1>1, <2>1 DEF FilledIndexed, AskIndexed
  <2>2. CASE hs'[h].pc \in {"list", "evict"} /\
               hs'[h].id \in DOMAIN docs => past.born[hs'[h].id] \in index'
    BY <2>2 DEF AskIndexed
  <2>. QED
    BY <2>1, <2>2
<1>4. \A t \in tasks' : TaskIndexed(t)'
  BY <1>2 DEF FilledIndexed
<1>5. \A t \in tasks' : (Copies(t) /\ t.id \in DOMAIN docs' => past'.born[t.id] \in index')
  BY <1>4 DEF TaskIndexed
<1>. QED
  BY <1>3, <1>5 DEF FilledIndexed, TaskIndexed, Copies

LEMMA DataKept ==
    ASSUME SynthInv, spent'.crashes = 0 => spent.crashes = 0, past.cut \subseteq past'.cut,
           \A s \in data' : s \in data \/ Writing(s)',
           \A s \in data' : s \in index /\ Unindexing(s) \notin tasks =>
                              (s \in index' /\ Unindexing(s) \notin tasks') \/ Writing(s)',
           \A s \in data' : Snaps!Named(s) => Snaps!Named(s)' \/ Snaps!Teardown(s) \in tasks',
           \A s \in data' : Snaps!Teardown(s) \in tasks => Snaps!Teardown(s) \in tasks',
           \A s \in data' : Writing(s) =>
              \/ Writing(s)'
              \/ s \in index' /\ Unindexing(s) \notin tasks' /\ Snaps!Named(s)'
    PROVE  DataNamed' /\ DataFreed'
<1>1. ASSUME NEW s \in data'
      PROVE  \/ s \in index' /\ Unindexing(s) \notin tasks'
             \/ s \in past'.cut \/ Writing(s)'
  <2>1. CASE s \in data
    <3>1. (s \in index /\ Unindexing(s) \notin tasks) \/ s \in past.cut \/ Writing(s)
      BY <2>1 DEF SynthInv, DataNamed
    <3>. QED
      BY <3>1
  <2>. QED
    BY <2>1
<1>2. ASSUME spent'.crashes = 0, NEW s \in data'
      PROVE  Snaps!Named(s)' \/ Snaps!Teardown(s) \in tasks' \/ Writing(s)'
  <2>1. CASE s \in data
    <3>1. Snaps!Named(s) \/ Snaps!Teardown(s) \in tasks \/ Writing(s)
      BY <1>2, <2>1 DEF SynthInv, DataFreed
    <3>. QED
      BY <3>1
  <2>. QED
    BY <2>1
<1>3. DataNamed'
  <2>1. \A s : Unindexing(s)' = Unindexing(s)
    BY DEF Unindexing
  <2>. QED
    BY <1>1, <2>1 DEF DataNamed
<1>4. DataFreed'
  <2>1. \A s : Snaps!Teardown(s)' = Snaps!Teardown(s)
    BY DEF Snaps!Teardown
  <2>. QED
    BY <1>2, <2>1 DEF DataFreed
<1>. QED
  BY <1>3, <1>4

\* A step that writes no copy and ends no task.
LEMMA DataGrows ==
    ASSUME SynthInv, UNCHANGED data, spent'.crashes = spent.crashes, past'.cut = past.cut,
           index \subseteq index', tasks \subseteq tasks',
           \A t \in tasks' : t \in tasks \/ t.pc # "unindex",
           \A s : Snaps!Named(s) => Snaps!Named(s)' \/ Snaps!Teardown(s) \in tasks'
    PROVE  DataNamed' /\ DataFreed'
<1>1. \A s : Unindexing(s).pc = "unindex"
  BY DEF Unindexing
<1>2. \A s : Unindexing(s) \notin tasks => Unindexing(s) \notin tasks'
  BY <1>1
<1>3. \A s : Writing(s) => Writing(s)'
  BY DEF Writing
<1>. QED
  BY <1>2, <1>3, DataKept

LEMMA RemoveNamed ==
    ASSUME BornInv, NEW v, Of(v.id, v.synth), Snaps!snap_remove(v)
    PROVE  /\ \A s : Snaps!Named(s) => Snaps!Named(s)' \/ Snaps!Teardown(s) \in tasks'
           /\ DOMAIN docs' \subseteq DOMAIN docs
           /\ tasks \subseteq tasks' /\ \A t \in tasks' : t \in tasks \/ (t.pc # "unindex" /\ ~Copies(t))
<1>1. /\ docs' = [j \in DOMAIN docs \ {v.id} |-> docs[j]]
      /\ tasks' = tasks \cup {Snaps!Teardown(v.synth)}
  BY DEF Snaps!snap_remove, Snaps!Drop
<1>2. ASSUME NEW s, Snaps!Named(s), s # v.synth
      PROVE  Snaps!Named(s)'
  <2>1. PICK i \in DOMAIN docs : docs[i].synth = s
    BY <1>2 DEF Snaps!Named
  <2>2. i # v.id
    BY <1>2, <2>1, StoredNamed DEF Of
  <2>3. i \in DOMAIN docs' /\ docs'[i] = docs[i]
    BY <1>1, <2>2
  <2>. QED
    BY <2>1, <2>3 DEF Snaps!Named
<1>3. Snaps!Teardown(v.synth).pc = "purge" /\ ~Copies(Snaps!Teardown(v.synth))
  BY DEF Snaps!Teardown, Copies
<1>. QED
  BY <1>1, <1>2, <1>3

LEMMA SynthAsk ==
    ASSUME SnapTyped, BornInv, SynthInv, NEW h \in Handlers, NEW a, hs' = [hs EXCEPT ![h] = a],
           a.pc # "write",
           a.pc \in {"list", "evict"} /\ a.id \in DOMAIN docs => past.born[a.id] \in index',
           past'.born = past.born, past'.cut = past.cut, DOMAIN docs' \subseteq DOMAIN docs,
           index \subseteq index', tasks \subseteq tasks', UNCHANGED data,
           \A t \in tasks' : t \in tasks \/ (t.pc # "unindex" /\ TaskIndexed(t)),
           \A s : Snaps!Named(s) => Snaps!Named(s)' \/ Snaps!Teardown(s) \in tasks',
           spent'.crashes = spent.crashes
    PROVE  SynthInv'
<1>1. hs'[h] = a /\ \A g \in Handlers : g # h => hs'[g] = hs[g]
  BY AskMoves DEF SnapTyped
<1>2. NoWrite'
  BY <1>1 DEF SynthInv, NoWrite
<1>3. FilledIndexed'
  BY <1>1, FilledKept DEF SynthInv
<1>4. DataNamed' /\ DataFreed'
  BY DataGrows
<1>. QED
  BY <1>2, <1>3, <1>4 DEF SynthInv

LEMMA SynthRequests ==
    ASSUME WellKept, SnapTyped, BornInv, SynthInv, NEW h \in Handlers, Snaps!RequestStep(h)
    PROVE  SynthInv'
<1>. DEFINE b == hs[h]
<1>1. AskFine(b, spent.asks) /\ AskOf(b) /\ b.pc # "write" /\ AskIndexed(b)
  BY AskAt DEF BornInv, AsksBorn, SynthInv, NoWrite, FilledIndexed
<1>2. past \in [born : Born, given : 0..MaxSnapshots, cut : SUBSET (0..MaxSnapshots),
               updated : SUBSET Snaps!Synths]
  BY DEF SnapTyped, RestTyped
<1>3. CASE Snaps!Index(h)
  <2>. DEFINE a == [b EXCEPT !.pc = "list"]
  <2>1. /\ b.pc = "index" /\ hs' = [hs EXCEPT ![h] = a] /\ index' = index \cup {b.meta.synth}
        /\ UNCHANGED <<docs, data, tasks, sweep, past, dead, spent>>
    BY <1>3 DEF Snaps!Index
  <2>2. b \in Asking
    BY <1>1, <2>1, AskShape
  <2>3. a.pc = "list" /\ a.id = b.id
    BY <2>2 DEF Asking
  <2>4. b.meta.synth = past.born[b.id]
    BY <1>1, <2>1 DEF AskOf, Of, HasMeta
  <2>5. \A s : Snaps!Named(s) => Snaps!Named(s)'
    BY <2>1 DEF Snaps!Named
  <2>. HIDE DEF a
  <2>. QED
    BY <2>1, <2>3, <2>4, <2>5, SynthAsk
<1>4. CASE Snaps!EvictList(h)
  <2>. DEFINE a == [pc |-> "evict", op |-> b.op, id |-> b.id, meta |-> b.meta, src |-> b.src,
                    victims |-> {Snaps!Victim(i) : i \in Snaps!Victims(b.id)}]
  <2>1. /\ b.pc = "list" /\ hs' = [hs EXCEPT ![h] = a]
        /\ UNCHANGED <<docs, index, data, tasks, sweep, past, dead, spent>>
    BY <1>4 DEF Snaps!EvictList
  <2>2. a.pc = "evict" /\ a.id = b.id
    OBVIOUS
  <2>. HIDE DEF a
  <2>3. a.id \in DOMAIN docs => past.born[a.id] \in index'
    BY <1>1, <2>1, <2>2 DEF AskIndexed
  <2>4. \A s : Snaps!Named(s) => Snaps!Named(s)'
    BY <2>1 DEF Snaps!Named
  <2>. QED
    BY <2>1, <2>2, <2>3, <2>4, SynthAsk
<1>5. CASE Snaps!Created(h)
  <2>. DEFINE t == IF b.op = "create" THEN Snaps!Fill("fill", b.id, 0, Queries)
                   ELSE Snaps!Fill("clone", b.id, b.src, 0)
  <2>1. /\ b.pc = "evict" /\ hs' = [hs EXCEPT ![h] = Snaps!Free] /\ tasks' = tasks \cup {t}
        /\ UNCHANGED <<docs, index, data, sweep, past, dead, spent>>
    BY <1>5 DEF Snaps!Created
  <2>2. t.id = b.id /\ t.pc = "start"
    BY DEF Snaps!Fill
  <2>. HIDE DEF t
  <2>3. TaskIndexed(t)
    BY <1>1, <2>1, <2>2 DEF AskIndexed, TaskIndexed
  <2>4. \A s : Snaps!Named(s) => Snaps!Named(s)'
    BY <2>1 DEF Snaps!Named
  <2>5. Snaps!Free.pc = "free"
    BY DEF Snaps!Free
  <2>. QED
    BY <2>1, <2>2, <2>3, <2>4, <2>5, SynthAsk
<1>6. CASE Snaps!UpdatePut(h)
  <2>1. /\ b.pc = "put" /\ hs' = [hs EXCEPT ![h] = Snaps!Free] /\ Snaps!snap_put(b.id, b.meta)
        /\ past' = [past EXCEPT !.updated = past.updated \cup {b.meta.synth}]
        /\ UNCHANGED <<index, data, tasks, sweep, dead, spent>>
    BY <1>6 DEF Snaps!UpdatePut
  <2>2. past'.born = past.born /\ past'.cut = past.cut
    BY <1>2, <2>1
  <2>3. Of(b.id, b.meta.synth)
    BY <1>1, <2>1 DEF AskOf, HasMeta
  <2>4. DOMAIN docs' = DOMAIN docs /\ \A j \in DOMAIN docs : docs'[j].synth = docs[j].synth
    BY <2>1, <2>3, PutOf
  <2>5. \A s : Snaps!Named(s) => Snaps!Named(s)'
    BY <2>4 DEF Snaps!Named
  <2>6. Snaps!Free.pc = "free"
    BY DEF Snaps!Free
  <2>. QED
    BY <2>1, <2>2, <2>4, <2>5, <2>6, SynthAsk
<1>7. ASSUME NEW v \in hs[h].victims, Snaps!Evict(h, v)
      PROVE  SynthInv'
  <2>. DEFINE a == [b EXCEPT !.victims = b.victims \ {v}]
  <2>1. /\ b.pc = "evict" /\ hs' = [hs EXCEPT ![h] = a] /\ Snaps!snap_remove(v)
        /\ UNCHANGED <<index, data, sweep, past, dead, spent>>
    BY <1>7 DEF Snaps!Evict
  <2>2. b \in Evicting
    BY <1>1, <2>1, AskShape
  <2>3. a.pc = "evict" /\ a.id = b.id
    BY <2>1, <2>2 DEF Evicting
  <2>. HIDE DEF a
  <2>4. Of(v.id, v.synth)
    BY <1>1, <2>1 DEF AskOf
  <2>5. a.id \in DOMAIN docs => past.born[a.id] \in index'
    BY <1>1, <2>1, <2>3 DEF AskIndexed
  <2>6. /\ \A s : Snaps!Named(s) => Snaps!Named(s)' \/ Snaps!Teardown(s) \in tasks'
        /\ DOMAIN docs' \subseteq DOMAIN docs
        /\ tasks \subseteq tasks' /\ \A t \in tasks' : t \in tasks \/ (t.pc # "unindex" /\ ~Copies(t))
    BY <2>1, <2>4, RemoveNamed
  <2>7. \A t \in tasks' : t \in tasks \/ (t.pc # "unindex" /\ TaskIndexed(t))
    BY <2>6 DEF TaskIndexed
  <2>. QED
    BY <2>1, <2>3, <2>5, <2>6, <2>7, SynthAsk
<1>8. ASSUME NEW v \in hs[h].victims, Snaps!Remove(h, v)
      PROVE  SynthInv'
  <2>. DEFINE a == IF b.victims = {v} THEN Snaps!Free
                   ELSE [pc |-> "remove", victims |-> b.victims \ {v}]
  <2>1. /\ b.pc = "remove" /\ hs' = [hs EXCEPT ![h] = a] /\ Snaps!snap_remove(v)
        /\ UNCHANGED <<index, data, sweep, past, dead, spent>>
    BY <1>8 DEF Snaps!Remove
  <2>2. a.pc \in {"free", "remove"}
    BY DEF Snaps!Free
  <2>. HIDE DEF a
  <2>3. Of(v.id, v.synth)
    BY <1>1, <2>1 DEF AskOf
  <2>4. /\ \A s : Snaps!Named(s) => Snaps!Named(s)' \/ Snaps!Teardown(s) \in tasks'
        /\ DOMAIN docs' \subseteq DOMAIN docs
        /\ tasks \subseteq tasks' /\ \A t \in tasks' : t \in tasks \/ (t.pc # "unindex" /\ ~Copies(t))
    BY <2>1, <2>3, RemoveNamed
  <2>5. \A t \in tasks' : t \in tasks \/ (t.pc # "unindex" /\ TaskIndexed(t))
    BY <2>4 DEF TaskIndexed
  <2>. QED
    BY <2>1, <2>2, <2>4, <2>5, SynthAsk
<1>9. ~Snaps!ScopedWrite(h)
  BY <1>1 DEF Snaps!ScopedWrite
<1>. QED
  BY <1>3, <1>4, <1>5, <1>6, <1>7, <1>8, <1>9 DEF Snaps!RequestStep

\* The teardown of a snapshot that is gone.
LEMMA SynthTeardown ==
    ASSUME SnapTyped, BornInv, SynthInv, NEW t \in tasks, Snaps!PurgeSynth(t) \/ Snaps!Unindex(t)
    PROVE  SynthInv'
<1>1. t.kind = "teardown" /\ UNCHANGED <<docs, hs, sweep, past, dead, spent>>
  BY DEF Snaps!PurgeSynth, Snaps!Unindex
<1>2. t \in Teardowns
  BY <1>1, TaskAt, TaskShape
<1>3. \A i \in DOMAIN docs : past.born[i] # t.synth
  BY <1>1, StoredNamed
<1>4. NoWrite'
  BY <1>1 DEF SynthInv, NoWrite
<1>5. \A s : Snaps!Named(s) <=> Snaps!Named(s)'
  BY <1>1 DEF Snaps!Named
<1>6. \A s : ~(Copies(t)) /\ Unindexing(s).kind = "teardown"
  BY <1>1 DEF Copies, Unindexing
<1>7. CASE Snaps!PurgeSynth(t)
  <2>. DEFINE x == [t EXCEPT !.pc = "unindex"]
  <2>1. /\ t.pc = "purge" /\ data' = data \ {t.synth} /\ tasks' = (tasks \ {t}) \cup {x}
        /\ UNCHANGED index
    BY <1>7 DEF Snaps!PurgeSynth, Snaps!Become
  <2>2. x.kind = "teardown" /\ x.synth = t.synth
    BY <1>1, <1>2 DEF Teardowns
  <2>3. t = Snaps!Teardown(t.synth)
    BY <1>1, <1>2, <2>1 DEF Teardowns, Snaps!Teardown
  <2>. HIDE DEF x
  <2>4. \A s : s # t.synth => Unindexing(s) # x /\ Snaps!Teardown(s) # t
    BY <2>2 DEF Unindexing, Snaps!Teardown
  <2>5. TaskIndexed(x)
    BY <2>2 DEF TaskIndexed, Copies
  <2>6. \A s : Writing(s) => Writing(s)'
    BY <1>6, <2>1 DEF Writing, Copies
  <2>7. FilledIndexed'
    BY <1>1, <2>1, <2>5, FilledKept DEF SynthInv
  <2>8. \A s \in data' : s # t.synth
    BY <2>1
  <2>9. \A s \in data' : /\ Unindexing(s) \notin tasks => Unindexing(s) \notin tasks'
                         /\ Snaps!Teardown(s) \in tasks => Snaps!Teardown(s) \in tasks'
    BY <2>1, <2>4, <2>8
  <2>10. DataNamed' /\ DataFreed'
    BY <1>1, <1>5, <2>1, <2>6, <2>9, DataKept
  <2>. QED
    BY <1>4, <2>7, <2>10 DEF SynthInv
<1>8. CASE Snaps!Unindex(t)
  <2>1. /\ t.pc = "unindex" /\ index' = index \ {t.synth} /\ tasks' = tasks \ {t}
        /\ UNCHANGED data
    BY <1>8 DEF Snaps!Unindex, Snaps!Become
  <2>2. t = Unindexing(t.synth)
    BY <1>1, <1>2, <2>1 DEF Teardowns, Unindexing
  <2>3. \A s : Snaps!Teardown(s) # t
    BY <2>1 DEF Snaps!Teardown
  <2>4. \A s : Writing(s) => Writing(s)'
    BY <1>6, <2>1 DEF Writing, Copies
  <2>5. \A i \in DOMAIN docs : past.born[i] \in index => past.born[i] \in index'
    BY <1>3, <2>1
  <2>6. FilledIndexed'
    BY <1>1, <2>1, <2>5, FilledKept DEF SynthInv
  <2>7. \A s : s \in index /\ Unindexing(s) \notin tasks => s \in index' /\ Unindexing(s) \notin tasks'
    BY <2>1, <2>2
  <2>8. \A s : Snaps!Teardown(s) \in tasks => Snaps!Teardown(s) \in tasks'
    BY <2>1, <2>3
  <2>9. DataNamed' /\ DataFreed'
    BY <1>1, <1>5, <2>1, <2>4, <2>7, <2>8, DataKept
  <2>. QED
    BY <1>4, <2>6, <2>9 DEF SynthInv
<1>. QED
  BY <1>7, <1>8

\* A task that goes on, or ends.
LEMMA SynthTask ==
    ASSUME SynthInv, NEW t \in tasks, t.kind # "teardown", NEW u, Snaps!Become(t, u),
           \A x \in u : x.kind # "teardown" /\ (Copies(x) => Copies(t) /\ x.id = t.id),
           UNCHANGED <<index, hs, past, spent>>, DOMAIN docs' = DOMAIN docs,
           \A s : Snaps!Named(s) => Snaps!Named(s)',
           \A s \in data' : s \in data \/ Writing(s)',
           \A s \in data' : Copies(t) /\ t.synth = s /\ t.pc \in Busy =>
              \/ Writing(s)'
              \/ s \in index /\ Unindexing(s) \notin tasks /\ Snaps!Named(s)
    PROVE  SynthInv'
<1>1. tasks' = (tasks \ {t}) \cup u
  BY DEF Snaps!Become
<1>2. \A x \in u : TaskIndexed(x)
  BY DEF SynthInv, FilledIndexed, TaskIndexed
<1>3. FilledIndexed'
  <2>1. \A x \in tasks' : x \in tasks \/ TaskIndexed(x)
    BY <1>1, <1>2
  <2>. QED
    BY <2>1, FilledKept DEF SynthInv
<1>4. NoWrite'
  BY DEF SynthInv, NoWrite
<1>5. \A s : Unindexing(s).kind = "teardown" /\ Snaps!Teardown(s).kind = "teardown"
  BY DEF Unindexing, Snaps!Teardown
<1>6. \A s : /\ Unindexing(s) \notin tasks => Unindexing(s) \notin tasks'
             /\ Snaps!Teardown(s) \in tasks => Snaps!Teardown(s) \in tasks'
  BY <1>1, <1>5
<1>7. ASSUME NEW s \in data', Writing(s)
      PROVE  Writing(s)' \/ (s \in index' /\ Unindexing(s) \notin tasks' /\ Snaps!Named(s)')
  <2>1. PICK x \in tasks : Copies(x) /\ x.synth = s /\ x.pc \in Busy
    BY <1>7 DEF Writing
  <2>2. CASE x = t
    BY <1>6, <2>1, <2>2
  <2>3. CASE x # t
    <3>1. x \in tasks'
      BY <1>1, <2>3
    <3>. QED
      BY <2>1, <3>1 DEF Writing, Copies
  <2>. QED
    BY <2>2, <2>3
<1>8. DataNamed' /\ DataFreed'
  BY <1>6, <1>7, DataKept
<1>. QED
  BY <1>3, <1>4, <1>8 DEF SynthInv

LEMMA SynthTasks ==
    ASSUME WellKept, SnapTyped, BornInv, SynthInv, NEW t \in tasks, Snaps!TaskStep(t)
    PROVE  SynthInv'
<1>1. TaskFine(t, spent.asks) /\ TaskOf(t) /\ TaskIndexed(t)
  BY TaskAt DEF BornInv, TasksBorn, SynthInv, FilledIndexed
\* A copy that is written to is still being written.
<1>2. ASSUME NEW x, Copies(t), Snaps!Become(t, {x}), x.kind = t.kind, x.id = t.id, x.synth = t.synth,
             x.pc \in Busy, UNCHANGED <<docs, index, hs, past, spent>>, data' \subseteq data \cup {t.synth}
      PROVE  SynthInv'
  <2>1. x \in tasks' /\ Copies(x)
    BY <1>2 DEF Snaps!Become, Copies
  <2>2. Writing(x.synth)'
    BY <1>2, <2>1 DEF Writing, Copies
  <2>3. \A s : s = x.synth => Writing(s)'
    BY <2>2
  <2>4. \A s : Snaps!Named(s) => Snaps!Named(s)'
    BY <1>2 DEF Snaps!Named
  <2>5. t.kind # "teardown" /\ x.kind # "teardown"
    BY <1>2 DEF Copies
  <2>. QED
    BY <1>2, <2>3, <2>4, <2>5, SynthTask
\* A copy that nothing was written to goes on.
<1>3. ASSUME NEW u, Copies(t), t.pc \notin Busy, Snaps!Become(t, u),
             \A x \in u : x.kind # "teardown" /\ (Copies(x) => x.id = t.id),
             UNCHANGED <<docs, index, data, hs, past, spent>>
      PROVE  SynthInv'
  <2>1. \A s : Snaps!Named(s) => Snaps!Named(s)'
    BY <1>3 DEF Snaps!Named
  <2>2. t.kind # "teardown"
    BY <1>3 DEF Copies
  <2>. QED
    BY <1>3, <2>1, <2>2, SynthTask
<1>4. CASE Snaps!FillStart(t)
  <2>1. /\ Copies(t) /\ t.pc = "start" /\ UNCHANGED <<docs, index, data, hs, past, spent>>
    BY <1>4 DEF Snaps!FillStart, Copies
  <2>2. t \in Fills \cup Clones
    BY <1>1, <2>1, TaskShape DEF Copies
  <2>. DEFINE s == docs[t.id].synth
              l == docs[t.src].synth
              fill == [t EXCEPT !.synth = s, !.pc = "check"]
              go == [t EXCEPT !.synth = s, !.left = l, !.pc = "copy"]
              no == [t EXCEPT !.seen = {"failure"}, !.pc = "finish"]
  <2>3. \/ Snaps!Become(t, {fill}) \/ Snaps!Become(t, {go}) \/ Snaps!Become(t, {no})
        \/ Snaps!Become(t, {})
    BY <1>4 DEF Snaps!FillStart
  <2>. HIDE DEF s, l
  <2>4. /\ fill.kind = t.kind /\ fill.id = t.id
        /\ go.kind = t.kind /\ go.id = t.id
        /\ no.kind = t.kind /\ no.id = t.id
    BY <2>2 DEF Fills, Clones
  <2>. HIDE DEF fill, go, no
  <2>5. t.pc \notin Busy /\ t.kind # "teardown"
    BY <2>1 DEF Busy, Copies
  <2>. QED
    BY <1>3, <2>1, <2>3, <2>4, <2>5
<1>5. CASE Snaps!FillCheck(t)
  <2>. DEFINE pc == IF ~Snaps!Live(t.id) THEN "cancel"
                    ELSE IF t.kind = "fill" /\ t.left > 0 THEN "copy" ELSE "finish"
              x == [t EXCEPT !.pc = pc]
  <2>1. /\ Copies(t) /\ t.pc = "check" /\ Snaps!Become(t, {x})
        /\ UNCHANGED <<docs, index, data, hs, past, spent>>
    BY <1>5 DEF Snaps!FillCheck, Copies
  <2>2. pc \in Busy \/ Snaps!Live(t.id)
    BY DEF Busy
  <2>3. t \in Fills \cup Clones
    BY <1>1, <2>1, TaskShape DEF Copies
  <2>. HIDE DEF pc
  <2>4. x.kind = t.kind /\ x.id = t.id /\ x.pc = pc /\ x.synth = t.synth
    BY <2>3 DEF Fills, Clones
  <2>. HIDE DEF x
  <2>5. CASE pc \in Busy
    BY <1>2, <2>1, <2>4, <2>5
  <2>6. CASE Snaps!Live(t.id)
    <3>1. t.id \in DOMAIN docs
      BY <2>6 DEF Snaps!Live
    <3>2. t.synth \in Snaps!Synths /\ t.synth # 0
      BY <1>1, <2>1 DEF TaskFine, Busy, Snaps!Synths
    <3>3. t.synth = past.born[t.id]
      BY <1>1, <2>1, <3>2 DEF TaskOf
    <3>4. t.synth \in index
      BY <1>1, <2>1, <3>1, <3>3 DEF TaskIndexed
    <3>5. Unindexing(t.synth) \notin tasks /\ Snaps!Named(t.synth)
      BY <3>1, <3>3, StoredNamed
    <3>6. \A s : Snaps!Named(s) => Snaps!Named(s)'
      BY <2>1 DEF Snaps!Named
    <3>7. t.kind # "teardown"
      BY <2>1 DEF Copies
    <3>. QED
      BY <2>1, <2>4, <3>4, <3>5, <3>6, <3>7, SynthTask
  <2>. QED
    BY <2>2, <2>5, <2>6
<1>6. CASE Snaps!FillCancel(t)
  <2>1. /\ Copies(t) /\ Snaps!Become(t, {}) /\ data' = data \ {t.synth}
        /\ UNCHANGED <<docs, index, hs, past, spent>>
    BY <1>6 DEF Snaps!FillCancel, Copies
  <2>2. \A s : Snaps!Named(s) => Snaps!Named(s)'
    BY <2>1 DEF Snaps!Named
  <2>3. t.kind # "teardown"
    BY <2>1 DEF Copies
  <2>. QED
    BY <2>1, <2>2, <2>3, SynthTask
<1>7. ASSUME NEW r, Snaps!FillQuery(t, r)
      PROVE  SynthInv'
  <2>. DEFINE x == [t EXCEPT !.pc = "check", !.left = t.left - 1, !.seen = t.seen \cup {r}]
  <2>1. /\ Copies(t) /\ Snaps!Become(t, {x}) /\ UNCHANGED <<docs, index, hs, past, spent>>
        /\ data' \subseteq data \cup {t.synth}
    BY <1>7 DEF Snaps!FillQuery, Copies
  <2>2. t \in Fills \cup Clones
    BY <1>1, <2>1, TaskShape DEF Copies
  <2>3. x.kind = t.kind /\ x.id = t.id /\ x.pc = "check" /\ x.synth = t.synth
    BY <2>2 DEF Fills, Clones
  <2>4. x.pc \in Busy
    BY <2>3 DEF Busy
  <2>. HIDE DEF x
  <2>. QED
    BY <1>2, <2>1, <2>3, <2>4
<1>8. ASSUME NEW f, Snaps!CloneCopy(t, f)
      PROVE  SynthInv'
  <2>. DEFINE seen == {IF f THEN "failure" ELSE "success"}
              x == [t EXCEPT !.pc = "check", !.seen = seen]
  <2>1. /\ Copies(t) /\ Snaps!Become(t, {x}) /\ UNCHANGED <<docs, index, hs, past, spent>>
        /\ data' \subseteq data \cup {t.synth}
    BY <1>8 DEF Snaps!CloneCopy, Copies
  <2>2. t \in Fills \cup Clones
    BY <1>1, <2>1, TaskShape DEF Copies
  <2>. HIDE DEF seen
  <2>3. x.kind = t.kind /\ x.id = t.id /\ x.pc = "check" /\ x.synth = t.synth
    BY <2>2 DEF Fills, Clones
  <2>4. x.pc \in Busy
    BY <2>3 DEF Busy
  <2>. HIDE DEF x
  <2>. QED
    BY <1>2, <2>1, <2>3, <2>4
<1>9. CASE Snaps!Finish(t)
  <2>. DEFINE m == [docs[t.id] EXCEPT !.status = Snaps!status(t)]
              x == [kind |-> "put", id |-> t.id, meta |-> m]
  <2>1. /\ Copies(t) /\ t.pc = "finish" /\ UNCHANGED <<docs, index, data, hs, past, spent>>
        /\ (Snaps!Become(t, {x}) \/ Snaps!Become(t, {}))
    BY <1>9 DEF Snaps!Finish, Copies
  <2>2. x.kind = "put"
    OBVIOUS
  <2>. HIDE DEF x
  <2>3. t.pc \notin Busy /\ x.kind # "teardown" /\ ~Copies(x)
    BY <2>1, <2>2 DEF Busy, Copies
  <2>. QED
    BY <1>3, <2>1, <2>3
<1>10. CASE Snaps!FinishPut(t)
  <2>1. /\ t.kind = "put" /\ Snaps!snap_put(t.id, t.meta) /\ Snaps!Become(t, {})
        /\ UNCHANGED <<index, data, hs, sweep, past, dead, spent>>
    BY <1>10 DEF Snaps!FinishPut
  <2>2. Of(t.id, t.meta.synth)
    BY <1>1, <2>1 DEF TaskOf
  <2>3. DOMAIN docs' = DOMAIN docs /\ \A j \in DOMAIN docs : docs'[j].synth = docs[j].synth
    BY <2>1, <2>2, PutOf
  <2>4. \A s : Snaps!Named(s) => Snaps!Named(s)'
    BY <2>3 DEF Snaps!Named
  <2>5. t.kind # "teardown" /\ ~Copies(t)
    BY <2>1 DEF Copies
  <2>. QED
    BY <2>1, <2>3, <2>4, <2>5, SynthTask
<1>11. CASE Snaps!PurgeSynth(t) \/ Snaps!Unindex(t)
  BY <1>11, SynthTeardown
<1>. QED
  BY <1>4, <1>5, <1>6, <1>7, <1>8, <1>9, <1>10, <1>11 DEF Snaps!TaskStep

LEMMA SynthInsert ==
    ASSUME WellKept, ~Reuse, SnapTyped, BornInv, SynthInv, NEW h \in Handlers,
           NEW op \in {"create", "clone"}, NEW i \in Ids, NEW src \in Ids, NEW p \in Priorities,
           Snaps!Insert(h, op, i, src, p)
    PROVE  SynthInv'
<1>. DEFINE s == past.given + 1
            meta == [synth |-> s, status |-> "preparing", prio |-> p, life |-> 0]
            a == [pc |-> "index", op |-> op, id |-> i, meta |-> meta, src |-> src]
            born == [j \in DOMAIN past.born \cup {i} |-> IF j = i THEN s ELSE past.born[j]]
<1>1. /\ i \notin DOMAIN docs /\ i \notin DOMAIN past.born /\ Snaps!Spend("asks", MaxAsks)
      /\ DOMAIN docs' = DOMAIN docs \cup {i} /\ \A j \in DOMAIN docs : docs'[j] = docs[j]
      /\ hs' = [hs EXCEPT ![h] = a]
      /\ past' = [past EXCEPT !.born = born, !.given = s]
      /\ UNCHANGED <<index, data, tasks>>
  BY DEF Snaps!Insert, Snaps!Ask
<1>2. past'.born = born /\ past'.cut = past.cut
  <2>1. past \in [born : Born, given : 0..MaxSnapshots, cut : SUBSET (0..MaxSnapshots),
                 updated : SUBSET Snaps!Synths]
    BY DEF SnapTyped, RestTyped
  <2>. HIDE DEF born, s
  <2>. QED
    BY <1>1, <2>1
<1>3. \A j \in DOMAIN past.born : j # i /\ past'.born[j] = past.born[j]
  BY <1>1, <1>2
<1>4. a.pc = "index"
  OBVIOUS
<1>. HIDE DEF a, meta, born, s
<1>5. hs'[h] = a /\ \A g \in Handlers : g # h => hs'[g] = hs[g]
  BY <1>1, AskMoves DEF SnapTyped
<1>6. spent'.crashes = spent.crashes
  <2>1. "asks" \in Snaps!Kinds /\ MaxAsks \in Nat /\ RestTyped
    BY DEF Snaps!Kinds, WellKept, SnapTyped
  <2>. QED
    BY <1>1, <2>1, Spending
<1>7. NoWrite'
  BY <1>4, <1>5 DEF SynthInv, NoWrite
<1>8. ASSUME NEW g \in Handlers
      PROVE  AskIndexed(hs[g])'
  <2>1. CASE g = h
    BY <1>4, <1>5, <2>1 DEF AskIndexed
  <2>2. CASE g # h
    <3>1. AskOf(hs[g]) /\ AskIndexed(hs[g]) /\ hs'[g] = hs[g]
      BY <1>5, <2>2 DEF BornInv, AsksBorn, SynthInv, FilledIndexed
    <3>2. hs[g].pc \in {"list", "evict"} => hs[g].id \in DOMAIN past.born
      BY <3>1 DEF AskOf, Of, HasMeta
    <3>. QED
      BY <1>1, <1>3, <3>1, <3>2 DEF AskIndexed
  <2>. QED
    BY <2>1, <2>2
<1>9. ASSUME NEW t \in tasks'
      PROVE  TaskIndexed(t)'
  <2>1. TaskOf(t) /\ TaskIndexed(t)
    BY <1>1 DEF BornInv, TasksBorn, SynthInv, FilledIndexed
  <2>2. Copies(t) => t.id \in DOMAIN past.born
    BY <2>1 DEF TaskOf
  <2>. QED
    BY <1>1, <1>3, <2>1, <2>2 DEF TaskIndexed
<1>10. FilledIndexed'
  <2>1. \A t \in tasks' : (Copies(t) /\ t.id \in DOMAIN docs' => past'.born[t.id] \in index')
    BY <1>9 DEF TaskIndexed
  <2>. QED
    BY <1>8, <2>1 DEF FilledIndexed, TaskIndexed, Copies
<1>11. \A x : Snaps!Named(x) => Snaps!Named(x)'
  BY <1>1 DEF Snaps!Named
<1>12. DataNamed' /\ DataFreed'
  BY <1>1, <1>2, <1>6, <1>11, DataGrows
<1>. QED
  BY <1>7, <1>10, <1>12 DEF SynthInv

LEMMA SynthCrash ==
    ASSUME WellKept, SnapTyped, SynthInv, Snaps!Crash
    PROVE  SynthInv'
<1>. DEFINE cut == {t.synth : t \in {u \in tasks : u.kind \in {"fill", "clone"}}}
<1>1. /\ Snaps!Spend("crashes", MaxCrashes) /\ hs' = [h \in Handlers |-> Snaps!Free] /\ tasks' = {}
      /\ past' = [past EXCEPT !.cut = past.cut \cup cut]
      /\ UNCHANGED <<docs, index, data>>
  BY DEF Snaps!Crash
<1>2. spent'.crashes # 0
  <2>1. "crashes" \in Snaps!Kinds /\ MaxCrashes \in Nat /\ RestTyped
    BY DEF Snaps!Kinds, WellKept, SnapTyped
  <2>. QED
    BY <1>1, <2>1, Spending
<1>3. past'.cut = past.cut \cup cut
  BY <1>1 DEF SnapTyped, RestTyped
<1>4. \A s : Writing(s) => s \in cut
  BY DEF Writing, Copies
<1>. HIDE DEF cut
<1>5. \A s \in data : s \in index \/ s \in past'.cut
  BY <1>3, <1>4 DEF SynthInv, DataNamed
<1>6. DataNamed'
  BY <1>1, <1>5 DEF DataNamed
<1>7. DataFreed'
  BY <1>2 DEF DataFreed
<1>8. \A h \in Handlers : hs'[h].pc = "free"
  BY <1>1 DEF Snaps!Free
<1>9. NoWrite'
  BY <1>8 DEF NoWrite
<1>10. FilledIndexed'
  BY <1>1, <1>8 DEF FilledIndexed, AskIndexed
<1>. QED
  BY <1>6, <1>7, <1>9, <1>10 DEF SynthInv

LEMMA SynthStep ==
    ASSUME WellKept, ~Reuse, "scoped" \notin Ops, SnapTyped, BornInv, SynthInv,
           [Snaps!Next]_Snaps!vars
    PROVE  SynthInv'
<1>1. AsksTyped /\ RestTyped /\ {"asks", "expiries", "sweeps", "crashes"} \subseteq Snaps!Kinds
  BY DEF SnapTyped, Snaps!Kinds
\* A step that leaves the requests and the index alone, and removes no task.
<1>2. ASSUME UNCHANGED <<hs, index, data, past>>, DOMAIN docs' \subseteq DOMAIN docs,
             tasks \subseteq tasks',
             \A t \in tasks' : t \in tasks \/ (t.pc # "unindex" /\ ~Copies(t)),
             \A s : Snaps!Named(s) => Snaps!Named(s)' \/ Snaps!Teardown(s) \in tasks',
             spent'.crashes = spent.crashes
      PROVE  SynthInv'
  <2>1. NoWrite'
    BY <1>2 DEF SynthInv, NoWrite
  <2>2. \A t \in tasks' : t \in tasks \/ TaskIndexed(t)
    BY <1>2 DEF TaskIndexed
  <2>3. FilledIndexed'
    BY <1>2, <2>2, FilledKept DEF SynthInv
  <2>4. DataNamed' /\ DataFreed'
    BY <1>2, DataGrows
  <2>. QED
    BY <2>1, <2>3, <2>4 DEF SynthInv
<1>3. UNCHANGED docs => \A s : Snaps!Named(s) => Snaps!Named(s)'
  BY DEF Snaps!Named
<1>4. CASE UNCHANGED Snaps!vars
  BY <1>2, <1>3, <1>4 DEF Snaps!vars
\* A request that comes, and makes no snapshot.
<1>5. ASSUME NEW h \in Handlers, NEW i \in Ids, NEW p \in Priorities, NEW renew \in BOOLEAN,
             Snaps!UpdateGet(h, i, p, renew)
      PROVE  SynthInv'
  <2>. DEFINE a == [pc |-> "put", op |-> "update", id |-> i, src |-> i,
                    meta |-> [docs[i] EXCEPT !.prio = p,
                                             !.life = @ + (IF renew THEN 1 ELSE 0)]]
  <2>1. /\ hs' = [hs EXCEPT ![h] = a] /\ Snaps!Spend("asks", MaxAsks)
        /\ UNCHANGED <<docs, index, data, tasks, past>>
    BY <1>5 DEF Snaps!UpdateGet, Snaps!Ask
  <2>2. a.pc = "put"
    OBVIOUS
  <2>. HIDE DEF a
  <2>3. spent'.crashes = spent.crashes
    BY <1>1, <2>1, Spending DEF WellKept
  <2>. QED
    BY <1>1, <1>3, <2>1, <2>2, <2>3, SynthAsk
<1>6. ASSUME NEW h \in Handlers, NEW i \in Ids, Snaps!DeleteGet(h, i)
      PROVE  SynthInv'
  <2>. DEFINE a == [pc |-> "remove", victims |-> {Snaps!Victim(i)}]
  <2>1. /\ hs' = [hs EXCEPT ![h] = a] /\ Snaps!Spend("asks", MaxAsks)
        /\ UNCHANGED <<docs, index, data, tasks, past>>
    BY <1>6 DEF Snaps!DeleteGet, Snaps!Ask
  <2>2. a.pc = "remove"
    OBVIOUS
  <2>. HIDE DEF a
  <2>3. spent'.crashes = spent.crashes
    BY <1>1, <2>1, Spending DEF WellKept
  <2>. QED
    BY <1>1, <1>3, <2>1, <2>2, <2>3, SynthAsk
<1>7. \A h \in Handlers, i \in Ids : ~Snaps!Scoped(h, i)
  BY DEF Snaps!Scoped, Snaps!Ask
<1>8. ASSUME NEW h \in Handlers, NEW p \in Priorities, Snaps!PurgeList(h, p)
      PROVE  SynthInv'
  <2>. DEFINE hit == {i \in DOMAIN docs : docs[i].prio = p}
              vs == {Snaps!Victim(i) : i \in hit}
              a == IF hit = {} THEN Snaps!Free ELSE [pc |-> "remove", victims |-> vs]
  <2>1. /\ hs' = [hs EXCEPT ![h] = a] /\ Snaps!Spend("asks", MaxAsks)
        /\ UNCHANGED <<docs, index, data, tasks, past>>
    BY <1>8 DEF Snaps!PurgeList, Snaps!Ask
  <2>. HIDE DEF hit, vs
  <2>2. a.pc \in {"free", "remove"}
    BY DEF Snaps!Free
  <2>. HIDE DEF a
  <2>3. spent'.crashes = spent.crashes
    BY <1>1, <2>1, Spending DEF WellKept
  <2>. QED
    BY <1>1, <1>3, <2>1, <2>2, <2>3, SynthAsk
<1>9. ASSUME NEW i \in Ids, Snaps!Expire(i)
       PROVE  SynthInv'
  <2>1. Snaps!Spend("expiries", MaxExpiries) /\ UNCHANGED <<docs, index, data, hs, tasks, past>>
    BY <1>9 DEF Snaps!Expire
  <2>2. spent'.crashes = spent.crashes
    BY <1>1, <2>1, Spending DEF WellKept
  <2>. QED
    BY <1>2, <1>3, <2>1, <2>2
<1>10. CASE Snaps!SweepWalk
  <2>1. Snaps!Spend("sweeps", MaxSweeps) /\ UNCHANGED <<docs, index, data, hs, tasks, past>>
    BY <1>10 DEF Snaps!SweepWalk
  <2>2. spent'.crashes = spent.crashes
    BY <1>1, <2>1, Spending DEF WellKept
  <2>. QED
    BY <1>2, <1>3, <2>1, <2>2
<1>11. ASSUME NEW v \in sweep, Snaps!SweepRemove(v)
       PROVE  SynthInv'
  <2>1. Snaps!snap_remove(v) /\ UNCHANGED <<index, data, hs, past, spent>>
    BY <1>11 DEF Snaps!SweepRemove
  <2>2. Of(v.id, v.synth)
    BY DEF BornInv, SweepBorn
  <2>. QED
    BY <1>2, <2>1, <2>2, RemoveNamed
<1>12. ASSUME NEW h \in Handlers, NEW i \in Ids
       PROVE  /\ \A op \in {"create", "clone"}, src \in Ids, p \in Priorities :
                   Snaps!Insert(h, op, i, src, p) => SynthInv'
              /\ \A p \in Priorities, renew \in BOOLEAN : Snaps!UpdateGet(h, i, p, renew) => SynthInv'
              /\ Snaps!DeleteGet(h, i) => SynthInv'
              /\ Snaps!Scoped(h, i) => SynthInv'
  BY <1>5, <1>6, <1>7, SynthInsert
<1>. QED
  BY <1>4, <1>8, <1>9, <1>10, <1>11, <1>12, SynthRequests, SynthTasks, SynthCrash DEF Snaps!Next

\* THEOREM: while ids are not taken again and no request writes under a snapshot,
\* a copy is named by its document, by the reverse index or by the task that
\* writes it, unless a stop cut that task off (purge_data_bg); and once nothing
\* is on its way, what no document names is freed (purge_synth, fill_cancelled).
THEOREM SnapshotCopiesAccounted ==
    WellKept /\ ~Reuse /\ "scoped" \notin Ops /\ Snaps!Spec => []Snaps!CopiesAccounted
<1>. SUFFICES ASSUME WellKept, ~Reuse, "scoped" \notin Ops PROVE Snaps!Spec => []Snaps!CopiesAccounted
  OBVIOUS
<1>. DEFINE Inv == SnapTyped /\ BornInv /\ SynthInv
<1>1. Snaps!Init => Inv
  <2>1. Snaps!Init => SynthInv
    BY DEF Snaps!Init, SynthInv, NoWrite, FilledIndexed, AskIndexed, DataNamed, DataFreed, Snaps!Free
  <2>. QED
    BY <2>1, BornInit, SnapTypedInit
<1>2. Inv /\ [Snaps!Next]_Snaps!vars => Inv'
  BY SnapTypedStep, BornStep, SynthStep
<1>3. Inv => Snaps!CopiesAccounted
  <2>. SUFFICES ASSUME Inv PROVE Snaps!CopyNamed /\ Snaps!CopyFreed
    BY DEF Snaps!CopiesAccounted
  <2>1. \A s : Writing(s) => Snaps!Copying(s)
    BY DEF Writing, Snaps!Copying, Copies
  <2>2. Snaps!CopyNamed
    BY <2>1 DEF SynthInv, DataNamed, Snaps!CopyNamed
  <2>3. ASSUME Snaps!AtRest, NEW s \in data
        PROVE  s \in {docs[i].synth : i \in DOMAIN docs}
    <3>1. Snaps!Named(s)
      BY <2>3 DEF SynthInv, DataFreed, Writing, Snaps!AtRest
    <3>. QED
      BY <3>1 DEF Snaps!Named
  <2>. QED
    BY <2>2, <2>3 DEF Snaps!CopyFreed
<1>. HIDE DEF Inv
<1>. QED
  BY <1>1, <1>2, <1>3, PTL DEF Snaps!Spec
=============================================================================
