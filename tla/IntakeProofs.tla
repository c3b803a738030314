---------------------------- MODULE IntakeProofs ----------------------------
(***************************************************************************)
(* Proofs about Intake, for any finite sets of fetches, postings and       *)
(* processes, any number of attempts and of texts.                         *)
(***************************************************************************)
EXTENDS MCIntake, TLAPS, FiniteSetTheorems

\* Every row that a fetch has created is counted by a fetch that has committed.
Committed == {f \in Fetches : fetches[f].pc \in {"flush", "done", "failed"}}
CompaniesOK == companies <= Cardinality(Committed)

\* A text that is on the board, in a listing or in the table has a version, and
\* none of them is ahead of the board.
PostingOK(u) ==
    /\ board[u].listed => board[u].version # 0
    /\ jobs[u].text <= board[u].version

FetchOK(f) ==
    /\ fetches[f].inline \subseteq Listed(f)
    /\ fetches[f].pc \in {"idle", "resolved"} => Listed(f) = {}
    /\ fetches[f].pc \in {"idle", "resolved", "listed", "done"} => fetches[f].buffer = {}
    /\ \A u \in Urls : fetches[f].listing[u] <= board[u].version

\* What a fetch has listed is in the table, in its buffer or handed to the queue.
PassedOn(f) ==
    fetches[f].pc \in {"filtered", "flush", "done"} =>
        \A u \in Listed(f) :
            jobs[u].text # 0 \/ u \in fetches[f].buffer \/ status[<<f, u>>] # "none"

\* A task comes from a buffer, after the commit, and is done when its posting
\* is in the table or was refused.
TaskOK(f, u) ==
    /\ status[<<f, u>>] # "none" => f \in Committed /\ u \notin fetches[f].buffer
    /\ status[<<f, u>>] = "none" => posts[<<f, u>>] = 0
    /\ status[<<f, u>>] = "done" => jobs[u].text # 0 \/ <<f, u>> \in refused

RequestOK(r) == status[r.task] # "none"

IngestOK(i) ==
    LET u == UrlOf(i.task)
        f == FetchOf(i.task)
    IN
    /\ status[i.task] # "none"
    /\ i.text # 0 /\ i.text <= board[u].version
    /\ u \in fetches[f].inline => i.text = fetches[f].listing[u]
    /\ i.pc = "committed" => jobs[u].text # 0

IInv ==
    /\ TypeOK
    /\ CompaniesOK
    /\ \A u \in Urls : PostingOK(u)
    /\ \A f \in Fetches : FetchOK(f) /\ PassedOn(f) /\ \A u \in Urls : TaskOK(f, u)
    /\ \A r \in requests : RequestOK(r)
    /\ \A i \in ingests : IngestOK(i)

-----------------------------------------------------------------------------

\* With one process there is one coroutine, and a fetch that creates a company
\* has seen none.
OneCoroutine ==
    /\ \A f, g \in Fetches : Running(f) /\ Running(g) => f = g
    /\ \A i, j \in ingests : i = j
    /\ \A f \in Fetches : Running(f) => ingests = {}
CreatesOnlyFirst ==
    /\ \A f \in Fetches :
           fetches[f].pc \in {"resolved", "listed", "filtered"} /\ fetches[f].creates
               => companies = 0
    /\ companies <= 1

\* A fetch or one of its ingest-jobs has not ended.
InFlight(t) ==
    \/ status[t] \in {"queued", "posting"}
    \/ \E r \in requests : r.task = t
    \/ \E i \in ingests : i.task = t
Active(f) == Running(f) \/ \E u \in Urls : InFlight(<<f, u>>)
OneActive == \A f, g \in Fetches : Active(f) /\ Active(g) => f = g

\* What is about to be written is no older than what is in the table.
WritesNewer ==
    /\ \A f \in Fetches : Active(f) =>
           \A u \in fetches[f].inline : jobs[u].text <= fetches[f].listing[u]
    /\ \A i \in ingests : i.pc = "read" => jobs[UrlOf(i.task)].text <= i.text

\* While no post times out there is one request or execution per task, and it
\* is awaited.
OnePost ==
    /\ \A r \in requests \cup ingests : Awaited(r)
    /\ \A r, s \in requests : r.task = s.task => r = s
    /\ \A i, j \in ingests : i.task = j.task => i = j
    /\ \A r \in requests, i \in ingests : r.task # i.task

\* What is still to be written is not in the table, and what an extraction has
\* read is what the table holds.
WritesOnce ==
    /\ \A f \in Fetches : Running(f) => \A u \in fetches[f].buffer : jobs[u].text = 0
    /\ \A t \in Tasks : status[t] = "queued" => jobs[UrlOf(t)].text = 0
    /\ \A r \in requests : jobs[UrlOf(r.task)].text = 0
    /\ \A i \in ingests : i.pc = "read" => jobs[UrlOf(i.task)].text = 0
    /\ \A u \in Urls : /\ jobs[u].extracted \in {0, jobs[u].text}
                       /\ extracting[u] \in {0, jobs[u].text}

Serial == ~overlapped => OneActive
MonotoneInv == ~overlapped => WritesNewer
OnceInv == ~overlapped /\ ~timedOut => OnePost /\ WritesOnce

-----------------------------------------------------------------------------
(* The tasks.                                                              *)

QueueTyped ==
    /\ status \in [Tasks -> Queue!Status]
    /\ posts \in [Tasks -> 0..MaxAttempts]
    /\ \A t \in Tasks : status[t] = "queued" => posts[t] < MaxAttempts

Others(t) == \A s \in Tasks : s # t => status'[s] = status[s] /\ posts'[s] = posts[s]

LEMMA Accepted ==
    ASSUME QueueTyped, NEW t \in Tasks, posts[t] = 0, Queue!Accept(t)
    PROVE  /\ QueueTyped' /\ Others(t)
           /\ status[t] = "none" /\ status'[t] = "queued" /\ posts'[t] = posts[t]
  BY IntakeConstants DEF Queue!Accept, QueueTyped, Others, Queue!Status

LEMMA Posted ==
    ASSUME QueueTyped, NEW t \in Tasks, Queue!Post(t)
    PROVE  /\ QueueTyped' /\ Others(t)
           /\ status[t] = "queued" /\ posts[t] + 1 \in 1..MaxAttempts
           /\ status'[t] = "posting" /\ posts'[t] = posts[t] + 1
  BY IntakeConstants DEF Queue!Post, QueueTyped, Others, Queue!Status

LEMMA Delivered ==
    ASSUME QueueTyped, NEW t \in Tasks, Queue!Deliver(t)
    PROVE  /\ QueueTyped' /\ Others(t)
           /\ status[t] = "posting" /\ status'[t] = "done" /\ posts'[t] = posts[t]
  BY DEF Queue!Deliver, QueueTyped, Others, Queue!Status

LEMMA Failed ==
    ASSUME QueueTyped, NEW t \in Tasks, Queue!Fail(t)
    PROVE  /\ QueueTyped' /\ Others(t)
           /\ status[t] = "posting" /\ status'[t] \in {"queued", "dropped"}
           /\ posts'[t] = posts[t]
  <1> DEFINE x == IF posts[t] < MaxAttempts THEN "queued" ELSE "dropped"
  <1>1. status' = [status EXCEPT ![t] = x] /\ posts' = posts
    BY DEF Queue!Fail
  <1>2. x \in {"queued", "dropped"} /\ (x = "queued" => posts[t] < MaxAttempts)
    OBVIOUS
  <1> HIDE DEF x
  <1> QED
    BY <1>1, <1>2 DEF Queue!Fail, QueueTyped, Others, Queue!Status

LEMMA Lost ==
    ASSUME QueueTyped, Queue!Lose
    PROVE  /\ QueueTyped'
           /\ \A t \in Tasks : /\ posts'[t] = posts[t]
                               /\ status'[t] \in {status[t], "dropped"}
                               /\ status'[t] \notin {"queued", "posting"}
                               /\ status'[t] = "dropped" => status[t] # "none"
  BY DEF Queue!Lose, QueueTyped, Queue!Status

\* An answer ends the post of its own task, or nothing.
LEMMA Answered ==
    ASSUME QueueTyped, NEW r, r.task \in Tasks, NEW ok \in BOOLEAN, Answer(r, ok)
    PROVE  /\ QueueTyped' /\ Others(r.task)
           /\ \A t \in Tasks : posts'[t] = posts[t]
           /\ \/ UNCHANGED <<status, posts>> /\ ~Awaited(r)
              \/ /\ status[r.task] = "posting"
                 /\ status'[r.task] \in IF ok THEN {"done"} ELSE {"queued", "dropped"}
  <1>1. CASE ~Awaited(r)
    BY <1>1 DEF Answer, queueVars, QueueTyped, Others
  <1>2. CASE Awaited(r) /\ ok
    BY <1>2, Delivered DEF Answer, Others
  <1>3. CASE Awaited(r) /\ ~ok
    BY <1>3, Failed DEF Answer, Others
  <1> QED
    BY <1>1, <1>2, <1>3

-----------------------------------------------------------------------------
(* What every step keeps.                                                  *)

FetchesKept == \A f \in Fetches :
    /\ f \in Committed => f \in Committed'
    /\ f \in Committed => /\ fetches'[f].listing = fetches[f].listing
                          /\ fetches'[f].inline = fetches[f].inline
                          /\ fetches'[f].buffer \subseteq fetches[f].buffer

Keeps ==
    /\ \A u \in Urls : board'[u].version >= board[u].version
    /\ \A u \in Urls : jobs[u].text # 0 => jobs'[u].text # 0
    /\ \A t \in Tasks : status[t] # "none" => status'[t] # "none"
    /\ FetchesKept
    /\ refused \subseteq refused'

\* Nothing but the end of its coroutine happens to a fetch.
Ends(f) ==
    /\ fetches'[f].listing = fetches[f].listing
    /\ fetches'[f].inline = fetches[f].inline
    /\ fetches'[f].buffer = fetches[f].buffer
    /\ fetches'[f].pc \in {fetches[f].pc, "failed"}

LEMMA Types ==
    ASSUME TypeOK
    PROVE  /\ QueueTyped
           /\ \A u \in Urls : /\ board[u].version \in Nat /\ board[u].listed \in BOOLEAN
                              /\ jobs[u].text \in Nat /\ jobs[u].extracted \in Nat
                              /\ extracting[u] \in Nat
           /\ \A f \in Fetches : /\ fetches[f] \in Fetch
                                 /\ fetches[f].listing \in [Urls -> Nat]
                                 /\ Listed(f) \subseteq Urls
                                 /\ fetches[f].buffer \subseteq Urls
           /\ \A f \in Fetches, u \in Urls : <<f, u>> \in Tasks
           /\ \A t \in Tasks : FetchOf(t) \in Fetches /\ UrlOf(t) \in Urls
                               /\ t = <<FetchOf(t), UrlOf(t)>>
           /\ \A r \in requests : r.task \in Tasks
           /\ \A i \in ingests : i.task \in Tasks /\ i.text \in Nat
           /\ Version \subseteq Nat
  <1>1. Version \subseteq Nat
    BY IntakeConstants DEF Version
  <1>2. QueueTyped
    BY DEF TypeOK, QueueTyped
  <1>3. \A u \in Urls : /\ board[u].version \in Version /\ board[u].listed \in BOOLEAN
                        /\ jobs[u].text \in Version /\ jobs[u].extracted \in Version
                        /\ extracting[u] \in Version
    BY DEF TypeOK
  <1>4. \A f \in Fetches : /\ fetches[f] \in Fetch
                           /\ fetches[f].listing \in [Urls -> Version]
                           /\ Listed(f) \subseteq Urls
                           /\ fetches[f].buffer \subseteq Urls
    BY DEF TypeOK, Fetch, Listed
  <1>5. /\ \A r \in requests : r.task \in Tasks
        /\ \A i \in ingests : i.task \in Tasks /\ i.text \in Version
    BY DEF TypeOK, Request, Ingest
  <1>6. \A t \in Tasks : FetchOf(t) \in Fetches /\ UrlOf(t) \in Urls
                         /\ t = <<FetchOf(t), UrlOf(t)>>
    BY DEF Tasks, FetchOf, UrlOf
  <1> QED
    BY <1>1, <1>2, <1>3, <1>4, <1>5, <1>6 DEF Tasks

LEMMA Kept ==
    ASSUME IInv, TypeOK', CompaniesOK', Keeps,
           \A u \in Urls : PostingOK(u)',
           \A f \in Fetches : Ends(f) \/ (FetchOK(f)' /\ PassedOn(f)'),
           \A f \in Fetches, u \in Urls :
               \/ UNCHANGED <<status[<<f, u>>], posts[<<f, u>>]>>
               \/ TaskOK(f, u)',
           \A r \in requests' : r \in requests \/ RequestOK(r)',
           \A i \in ingests' : i \in ingests \/ IngestOK(i)'
    PROVE  IInv'
  <1> USE Types
  <1>0. TypeOK /\ \A u \in Urls : board'[u].version \in Nat
    <2>1. \A u \in Urls : board'[u].version \in Version
      BY DEF TypeOK
    <2> QED
      BY <2>1, IntakeConstants DEF IInv, Version
  <1>1. ASSUME NEW f \in Fetches, Ends(f) PROVE FetchOK(f)' /\ PassedOn(f)'
    <2>1. FetchOK(f) /\ PassedOn(f)
      BY DEF IInv
    <2>2. Listed(f)' = Listed(f) /\ Listed(f) \subseteq Urls
      BY <1>0, <1>1 DEF Ends, Listed
    <2>3. FetchOK(f)'
      <3>1. \A u \in Urls : /\ fetches[f].listing[u] \in Nat
                            /\ board[u].version \in Nat /\ board'[u].version \in Nat
        BY <1>0
      <3>2. \A u \in Urls : fetches[f].listing[u] <= board'[u].version
        BY <2>1, <3>1 DEF FetchOK, Keeps
      <3> QED
        BY <1>1, <2>1, <2>2, <3>2 DEF FetchOK, Ends
    <2>4. PassedOn(f)'
      BY <1>0, <1>1, <2>1, <2>2 DEF PassedOn, Ends, Keeps
    <2> QED
      BY <2>3, <2>4
  <1>2. ASSUME NEW f \in Fetches, NEW u \in Urls,
               UNCHANGED <<status[<<f, u>>], posts[<<f, u>>]>>
        PROVE  TaskOK(f, u)'
    <2>1. TaskOK(f, u)
      BY DEF IInv
    <2> QED
      BY <1>2, <2>1 DEF TaskOK, Keeps, FetchesKept
  <1>3. ASSUME NEW r \in requests PROVE RequestOK(r)'
    BY <1>0 DEF IInv, RequestOK, Keeps
  <1>4. ASSUME NEW i \in ingests PROVE IngestOK(i)'
    <2> DEFINE u == UrlOf(i.task)
               f == FetchOf(i.task)
    <2>1. i.task \in Tasks /\ u \in Urls /\ f \in Fetches /\ i.task = <<f, u>>
      BY <1>0
    <2>2. IngestOK(i) /\ TaskOK(f, u)
      BY <2>1 DEF IInv
    <2>3. status[i.task] # "none" /\ f \in Committed
      BY <2>1, <2>2 DEF IngestOK, TaskOK
    <2>4. /\ status'[i.task] # "none"
          /\ fetches'[f].inline = fetches[f].inline
          /\ fetches'[f].listing = fetches[f].listing
          /\ board[u].version <= board'[u].version
          /\ jobs[u].text # 0 => jobs'[u].text # 0
      BY <2>1, <2>3 DEF Keeps, FetchesKept
    <2>5. i.text <= board'[u].version
      <3>1. i.text \in Nat /\ board[u].version \in Nat /\ board'[u].version \in Nat
        BY <1>0, <2>1
      <3> QED
        BY <2>2, <2>4, <3>1 DEF IngestOK
    <2> QED
      BY <2>2, <2>4, <2>5 DEF IngestOK
  <1> QED
    BY <1>1, <1>2, <1>3, <1>4 DEF IInv

-----------------------------------------------------------------------------
(* The steps of a fetch.                                                   *)

LEMMA CompaniesKept ==
    ASSUME TypeOK, CompaniesOK, Committed \subseteq Committed',
           \/ companies' = companies
           \/ companies' = companies + 1 /\ \E f \in Fetches : f \notin Committed /\ f \in Committed'
    PROVE  CompaniesOK' /\ companies' \in 0..Cardinality(Fetches)
  <1>1. IsFiniteSet(Fetches) /\ Committed \subseteq Fetches /\ Committed' \subseteq Fetches
    BY IntakeConstants DEF Committed
  <1>2. IsFiniteSet(Committed) /\ IsFiniteSet(Committed')
    BY <1>1, FS_Subset
  <1> DEFINE a == Cardinality(Committed)
             b == Cardinality(Committed')
             n == Cardinality(Fetches)
  <1>3. a \in Nat /\ b \in Nat /\ n \in Nat /\ companies \in Nat /\ companies <= a
    BY <1>1, <1>2, FS_CardinalityType DEF TypeOK, CompaniesOK
  <1>4. a <= b /\ b <= n
    BY <1>1, <1>2, FS_Subset
  <1>5. ASSUME NEW f \in Fetches, f \notin Committed, f \in Committed' PROVE a + 1 <= b
    <2>1. IsFiniteSet(Committed \cup {f}) /\ Cardinality(Committed \cup {f}) = a + 1
      BY <1>2, <1>5, FS_AddElement
    <2>2. Committed \cup {f} \subseteq Committed'
      BY <1>5
    <2> QED
      BY <1>2, <2>1, <2>2, FS_Subset
  <1>6. companies' \in Nat /\ companies' <= b
    BY <1>3, <1>4, <1>5
  <1> QED
    BY <1>3, <1>4, <1>6 DEF CompaniesOK

\* A fetch moves on, and the rows and tasks of the others stay.
Moves(f, x) ==
    /\ fetches' = [fetches EXCEPT ![f] = x]
    /\ UNCHANGED <<board, jobs, requests, ingests, refused, extracting>>

LEMMA Moved ==
    ASSUME IInv, NEW f \in Fetches, NEW x \in Fetch, Moves(f, x),
           QueueTyped',
           \A t \in Tasks : FetchOf(t) # f => UNCHANGED <<status[t], posts[t]>>,
           \A u \in Urls : UNCHANGED <<status[<<f, u>>], posts[<<f, u>>]>> \/ TaskOK(f, u)',
           \A t \in Tasks : status[t] # "none" => status'[t] # "none",
           \/ companies' = companies
           \/ companies' = companies + 1 /\ f \notin Committed /\ f \in Committed',
           f \in Committed =>
               /\ x.pc \in {"flush", "done", "failed"}
               /\ x.listing = fetches[f].listing /\ x.inline = fetches[f].inline
               /\ x.buffer \subseteq fetches[f].buffer,
           FetchOK(f)', PassedOn(f)'
    PROVE  IInv'
  <1>1. TypeOK /\ CompaniesOK /\ \A u \in Urls : PostingOK(u)
    BY DEF IInv
  <1>2. /\ fetches'[f] = x /\ fetches' \in [Fetches -> Fetch]
        /\ \A g \in Fetches : g # f => fetches'[g] = fetches[g]
    BY <1>1 DEF Moves, TypeOK
  <1>3. FetchesKept /\ Committed \subseteq Committed'
    BY <1>2 DEF Committed, FetchesKept
  <1>4. CompaniesOK' /\ companies' \in 0..Cardinality(Fetches)
    BY <1>1, <1>3, CompaniesKept
  <1>5. TypeOK'
    BY <1>1, <1>2, <1>4 DEF Moves, TypeOK, QueueTyped
  <1>6. \A u \in Urls : board[u].version \in Nat
    BY <1>1, Types
  <1>7. Keeps
    BY <1>3, <1>6 DEF Keeps, Moves
  <1>8. \A g \in Fetches : Ends(g) \/ (FetchOK(g)' /\ PassedOn(g)')
    BY <1>2 DEF Ends
  <1>9. \A g \in Fetches, u \in Urls :
            \/ UNCHANGED <<status[<<g, u>>], posts[<<g, u>>]>>
            \/ TaskOK(g, u)'
    BY DEF Tasks, FetchOf
  <1>10. \A u \in Urls : PostingOK(u)'
    BY <1>1 DEF Moves, PostingOK
  <1>11. requests' = requests /\ ingests' = ingests
    BY DEF Moves
  <1> QED
    BY <1>4, <1>5, <1>7, <1>8, <1>9, <1>10, <1>11, Kept

\* Only the point where a fetch stands changes.
LEMMA MovedOn ==
    ASSUME IInv, NEW f \in Fetches, NEW pc \in {"flush", "done", "failed"},
           fetches' = [fetches EXCEPT ![f].pc = pc],
           UNCHANGED <<board, jobs, queueVars, requests, ingests, refused, extracting>>,
           \/ companies' = companies
           \/ companies' = companies + 1 /\ f \notin Committed,
           pc = "flush" => fetches[f].pc = "filtered",
           pc = "done" => \/ fetches[f].pc = "resolved"
                          \/ fetches[f].pc = "flush" /\ fetches[f].buffer = {}
    PROVE  IInv'
  <1> DEFINE x == [fetches[f] EXCEPT !.pc = pc]
  <1>0. TypeOK /\ fetches[f] \in Fetch /\ FetchOK(f) /\ PassedOn(f) /\ QueueTyped
    BY Types DEF IInv
  <1>1. /\ x \in Fetch /\ x.pc = pc /\ x.listing = fetches[f].listing
        /\ x.inline = fetches[f].inline /\ x.buffer = fetches[f].buffer
    BY <1>0 DEF Fetch, FetchPc
  <1>2. fetches' = [fetches EXCEPT ![f] = x] /\ fetches'[f] = x
    BY <1>0 DEF TypeOK
  <1>3. Moves(f, x) /\ QueueTyped' /\ status' = status /\ posts' = posts
    BY <1>0, <1>2 DEF Moves, queueVars, QueueTyped
  <1> HIDE DEF x
  <1>4. f \in Committed'
    BY <1>1, <1>2 DEF Committed
  <1>5. Listed(f)' = Listed(f)
    BY <1>1, <1>2 DEF Listed
  <1>6. FetchOK(f)'
    BY <1>0, <1>1, <1>2, <1>3, <1>5 DEF FetchOK, Moves
  <1>7. PassedOn(f)'
    <2>1. Listed(f) = {} \/ fetches[f].pc \in {"filtered", "flush"} \/ pc = "failed"
      BY <1>0 DEF FetchOK
    <2> QED
      BY <1>0, <1>1, <1>2, <1>3, <1>5, <2>1 DEF PassedOn, Moves
  <1> QED
    BY <1>1, <1>3, <1>4, <1>6, <1>7, Moved

LEMMA ResolveStep ==
    ASSUME IInv, NEW f \in Fetches, FetchResolve(f)
    PROVE  IInv'
  <1> DEFINE x == [fetches[f] EXCEPT !.pc = "resolved", !.creates = (companies = 0)]
  <1>1. TypeOK /\ fetches[f] \in Fetch /\ FetchOK(f) /\ QueueTyped
    BY Types DEF IInv
  <1>2. /\ x \in Fetch /\ x.pc = "resolved" /\ x.listing = fetches[f].listing
        /\ x.inline = fetches[f].inline /\ x.buffer = fetches[f].buffer
    BY <1>1 DEF Fetch, FetchPc
  <1>3. /\ fetches' = [fetches EXCEPT ![f] = x] /\ fetches[f].pc = "idle"
        /\ fetches'[f] = x
        /\ companies' = companies /\ status' = status /\ posts' = posts
    BY <1>1 DEF FetchResolve, TypeOK, tables, queueVars
  <1> HIDE DEF x
  <1>4. Moves(f, x) /\ QueueTyped' /\ f \notin Committed
    BY <1>1, <1>3 DEF Moves, FetchResolve, tables, QueueTyped, Committed
  <1>5. Listed(f)' = Listed(f)
    BY <1>2, <1>3 DEF Listed
  <1>6. FetchOK(f)' /\ PassedOn(f)'
    BY <1>1, <1>2, <1>3, <1>4, <1>5 DEF FetchOK, PassedOn, Moves
  <1> QED
    BY <1>2, <1>3, <1>4, <1>6, Moved

LEMMA ListsStep ==
    ASSUME IInv, NEW f \in Fetches, FetchLists(f)
    PROVE  IInv'
  <1>1. TypeOK /\ fetches[f] \in Fetch /\ FetchOK(f) /\ QueueTyped
    BY Types DEF IInv
  <1> DEFINE listing == [u \in Urls |-> IF board[u].listed THEN board[u].version ELSE 0]
  <1>2. PICK inline \in SUBSET {u \in Urls : board[u].listed} :
            fetches' = [fetches EXCEPT ![f] = [@ EXCEPT !.pc = "listed", !.inline = inline,
                            !.listing = listing]]
    BY DEF FetchLists
  <1> DEFINE x == [fetches[f] EXCEPT !.pc = "listed", !.inline = inline, !.listing = listing]
  <1>3. listing \in [Urls -> Version]
    BY <1>1, IntakeConstants DEF TypeOK, Version
  <1>4. \A u \in Urls : /\ listing[u] <= board[u].version
                        /\ board[u].listed => listing[u] # 0
    <2>1. \A u \in Urls : board[u].version \in Nat /\ PostingOK(u)
      BY Types DEF IInv
    <2> QED
      BY <2>1 DEF PostingOK
  <1> HIDE DEF listing
  <1>5. /\ x \in Fetch /\ x.pc = "listed" /\ x.listing = listing
        /\ x.inline = inline /\ x.buffer = fetches[f].buffer
    BY <1>1, <1>3 DEF Fetch, FetchPc
  <1>6. /\ fetches' = [fetches EXCEPT ![f] = x] /\ fetches[f].pc = "resolved"
        /\ fetches'[f] = x
        /\ companies' = companies /\ status' = status /\ posts' = posts
    BY <1>1, <1>2 DEF FetchLists, TypeOK, tables, queueVars
  <1> HIDE DEF x
  <1>7. Moves(f, x) /\ QueueTyped' /\ f \notin Committed
    BY <1>1, <1>6 DEF Moves, FetchLists, tables, QueueTyped, Committed
  <1>8. Listed(f)' = {u \in Urls : listing[u] # 0}
    BY <1>5, <1>6 DEF Listed
  <1>9. FetchOK(f)' /\ PassedOn(f)'
    BY <1>1, <1>4, <1>5, <1>6, <1>7, <1>8 DEF FetchOK, PassedOn, Moves
  <1> QED
    BY <1>5, <1>6, <1>7, <1>9, Moved

LEMMA FiltersStep ==
    ASSUME IInv, NEW f \in Fetches, FetchFilters(f)
    PROVE  IInv'
  <1> DEFINE urls == {u \in Listed(f) : jobs[u].text = 0}
             x == [fetches[f] EXCEPT !.pc = "filtered", !.buffer = urls]
  <1>1. TypeOK /\ fetches[f] \in Fetch /\ FetchOK(f) /\ QueueTyped /\ urls \subseteq Urls
    BY Types DEF IInv
  <1>2. /\ x \in Fetch /\ x.pc = "filtered" /\ x.listing = fetches[f].listing
        /\ x.inline = fetches[f].inline /\ x.buffer = urls
    BY <1>1 DEF Fetch, FetchPc
  <1>3. /\ fetches' = [fetches EXCEPT ![f] = x] /\ fetches[f].pc = "listed"
        /\ fetches'[f] = x
        /\ companies' = companies /\ status' = status /\ posts' = posts
    BY <1>1 DEF FetchFilters, FetchGathers, TypeOK, tables, queueVars
  <1> HIDE DEF x
  <1>4. Moves(f, x) /\ QueueTyped' /\ f \notin Committed
    BY <1>1, <1>3 DEF Moves, FetchFilters, FetchGathers, tables, QueueTyped, Committed
  <1>5. Listed(f)' = Listed(f)
    BY <1>2, <1>3 DEF Listed
  <1>6. FetchOK(f)' /\ PassedOn(f)'
    BY <1>1, <1>2, <1>3, <1>4, <1>5 DEF FetchOK, PassedOn, Moves
  <1> QED
    BY <1>2, <1>3, <1>4, <1>6, Moved

LEMMA FlushesStep ==
    ASSUME IInv, NEW f \in Fetches, FetchFlushes(f)
    PROVE  IInv'
  <1>1. /\ TypeOK /\ fetches[f] \in Fetch /\ FetchOK(f) /\ PassedOn(f) /\ QueueTyped
        /\ fetches[f].buffer \subseteq Urls /\ Listed(f) \subseteq Urls
    BY Types DEF IInv
  <1>2. PICK v \in fetches[f].buffer :
            /\ Queue!Accept(<<f, v>>)
            /\ fetches' = [fetches EXCEPT ![f].buffer = @ \ {v}]
    BY DEF FetchFlushes
  <1> DEFINE x == [fetches[f] EXCEPT !.buffer = @ \ {v}]
  <1>3. /\ x \in Fetch /\ x.pc = fetches[f].pc /\ x.listing = fetches[f].listing
        /\ x.inline = fetches[f].inline /\ x.buffer = fetches[f].buffer \ {v}
    BY <1>1 DEF Fetch, FetchPc
  <1>4. /\ fetches' = [fetches EXCEPT ![f] = x] /\ fetches[f].pc = "flush"
        /\ fetches'[f] = x /\ companies' = companies
    BY <1>1, <1>2 DEF FetchFlushes, TypeOK, tables
  <1> HIDE DEF x
  <1>5. v \in Urls /\ <<f, v>> \in Tasks /\ TaskOK(f, v)
    BY <1>1, <1>2, Types DEF IInv
  <1>6. posts[<<f, v>>] = 0 /\ status[<<f, v>>] = "none"
    BY <1>2, <1>5 DEF Queue!Accept, TaskOK
  <1>7. /\ QueueTyped' /\ Others(<<f, v>>)
        /\ status'[<<f, v>>] = "queued"
    BY <1>1, <1>2, <1>5, <1>6, Accepted
  <1>8. Moves(f, x) /\ f \in Committed /\ f \in Committed'
    BY <1>3, <1>4 DEF Moves, FetchFlushes, tables, Committed
  <1>9. /\ Listed(f)' = Listed(f)
        /\ \A u \in Urls : u # v => UNCHANGED <<status[<<f, u>>], posts[<<f, u>>]>>
        /\ \A t \in Tasks : FetchOf(t) # f => UNCHANGED <<status[t], posts[t]>>
        /\ \A t \in Tasks : status[t] # "none" => status'[t] # "none"
    <2>1. \A u \in Urls : <<f, u>> \in Tasks
      BY DEF Tasks
    <2> QED
      BY <1>3, <1>4, <1>6, <1>7, <2>1 DEF Listed, Others, FetchOf
  <1>10. FetchOK(f)'
    BY <1>1, <1>3, <1>4, <1>8, <1>9 DEF FetchOK, Moves
  <1>11. PassedOn(f)'
    BY <1>1, <1>3, <1>4, <1>7, <1>8, <1>9 DEF PassedOn, Moves
  <1>12. TaskOK(f, v)'
    BY <1>3, <1>4, <1>7, <1>8 DEF TaskOK
  <1> QED
    BY <1>3, <1>4, <1>7, <1>8, <1>9, <1>10, <1>11, <1>12, Moved

LEMMA FetchSteps ==
    ASSUME IInv, NEW f \in Fetches, FetchStep(f)
    PROVE  IInv'
  <1>0. TypeOK /\ companies \in Nat /\ fetches[f].creates \in BOOLEAN
    <2>1. Cardinality(Fetches) \in Nat /\ TypeOK
      BY IntakeConstants, FS_CardinalityType DEF IInv
    <2> QED
      BY <2>1 DEF TypeOK, Fetch
  <1>1. CommitsCompany(f) => jobs' = jobs /\ companies' \in {companies, companies + 1}
    BY <1>0 DEF CommitsCompany
  <1>2. CASE FetchRefused(f)
    BY <1>2, MovedOn DEF FetchRefused, FetchGoes, tables
  <1>3. CASE FetchPermanent(f)
    BY <1>1, <1>3, MovedOn DEF FetchPermanent, FetchGoes, Committed
  <1>4. CASE FetchCommits(f)
    BY <1>1, <1>4, MovedOn DEF FetchCommits, FetchGoes, Committed
  <1>5. CASE FetchFails(f)
    BY <1>5, MovedOn DEF FetchFails, FetchGoes, tables
  <1>6. CASE FetchFlushFails(f)
    BY <1>6, MovedOn DEF FetchFlushFails, FetchGoes, tables
  <1>7. CASE FetchAnswers(f)
    BY <1>7, MovedOn DEF FetchAnswers, FetchGoes, tables
  <1> QED
    BY <1>2, <1>3, <1>4, <1>5, <1>6, <1>7, ListsStep, FiltersStep, FlushesStep DEF FetchStep

-----------------------------------------------------------------------------
(* The other steps.                                                        *)

\* The fetches stay, and so do their companies.
LEMMA FetchesStay ==
    ASSUME IInv, UNCHANGED <<fetches, companies>>
    PROVE  /\ CompaniesOK' /\ Committed' = Committed /\ FetchesKept
           /\ \A f \in Fetches : Ends(f)
           /\ fetches' \in [Fetches -> Fetch] /\ companies' \in 0..Cardinality(Fetches)
  BY DEF IInv, CompaniesOK, Committed, FetchesKept, Ends, TypeOK

LEMMA BoardSteps ==
    ASSUME IInv, NEW v \in Urls, Board(v)
    PROVE  IInv'
  <1>1. /\ TypeOK /\ \A u \in Urls : PostingOK(u) /\ board[u].version \in Nat /\ jobs[u].text \in Nat
        /\ board[v] \in [version : Version, listed : BOOLEAN]
    BY Types DEF IInv, TypeOK
  <1>2. UNCHANGED <<companies, jobs, fetches, status, posts, requests, ingests, refused, extracting>>
    BY DEF Board, BoardPublishes, BoardRemoves, tables, queueVars
  <1>3. /\ board' \in [Urls -> [version : Version, listed : BOOLEAN]]
        /\ \A u \in Urls : /\ board'[u].version >= board[u].version
                           /\ board'[u].listed => board'[u].version # 0
    <2>1. ASSUME NEW b \in [version : Version, listed : BOOLEAN],
                 board' = [board EXCEPT ![v] = b],
                 b.version >= board[v].version, b.listed => b.version # 0
          PROVE  <1>3
      <3>1. board'[v] = b /\ \A u \in Urls : u # v => board'[u] = board[u]
        BY <1>1, <2>1 DEF TypeOK
      <3>2. board' \in [Urls -> [version : Version, listed : BOOLEAN]]
        BY <1>1, <2>1 DEF TypeOK
      <3> QED
        BY <1>1, <2>1, <3>1, <3>2 DEF PostingOK
    <2>2. CASE BoardPublishes(v)
      <3> DEFINE b == [version |-> board[v].version + 1, listed |-> TRUE]
      <3>1. board' = [board EXCEPT ![v] = b]
        BY <2>2 DEF BoardPublishes
      <3>2. b \in [version : Version, listed : BOOLEAN]
        <4>1. board[v].version < MaxVersion /\ board[v].version \in Nat /\ MaxVersion \in Nat
          BY <1>1, <2>2, IntakeConstants DEF BoardPublishes
        <4> QED
          BY <4>1 DEF Version
      <3>3. b.version >= board[v].version /\ b.version # 0
        BY <1>1
      <3> HIDE DEF b
      <3> QED
        BY <2>1, <3>1, <3>2, <3>3
    <2>3. CASE BoardRemoves(v)
      <3> DEFINE b == [board[v] EXCEPT !.listed = FALSE]
      <3>1. board' = [board EXCEPT ![v] = b]
        BY <1>1, <2>3 DEF BoardRemoves, TypeOK
      <3>2. b \in [version : Version, listed : BOOLEAN] /\ b.version = board[v].version /\ ~b.listed
        BY <1>1
      <3>3. b.version >= board[v].version
        BY <1>1, <3>2
      <3> HIDE DEF b
      <3> QED
        BY <2>1, <3>1, <3>2, <3>3
    <2> QED
      BY <2>2, <2>3 DEF Board
  <1>4. TypeOK'
    BY <1>1, <1>2, <1>3 DEF TypeOK
  <1>5. \A u \in Urls : PostingOK(u)'
    <2>1. \A u \in Urls : board'[u].version \in Nat
      BY <1>3, IntakeConstants DEF Version
    <2> QED
      BY <1>1, <1>2, <1>3, <2>1 DEF PostingOK
  <1>6. FetchesKept
    BY <1>2, FetchesStay
  <1>7. Keeps
    BY <1>2, <1>3, <1>6 DEF Keeps
  <1> QED
    BY <1>2, <1>4, <1>5, <1>7, FetchesStay, Kept

\* The queue, the requests and the executions change, and nothing else, except
\* for a row that gets a text.
LEMMA TasksChange ==
    ASSUME IInv, QueueTyped', UNCHANGED <<board, companies, fetches, extracting>>,
           jobs' \in [Urls -> [text : Version, extracted : Version]],
           \A u \in Urls : jobs[u].text # 0 => jobs'[u].text # 0,
           \A u \in Urls : PostingOK(u)',
           requests' \subseteq Request, ingests' \subseteq Ingest,
           refused \subseteq refused', refused' \subseteq Tasks,
           \A t \in Tasks : status[t] # "none" => status'[t] # "none",
           \A f \in Fetches, u \in Urls :
               UNCHANGED <<status[<<f, u>>], posts[<<f, u>>]>> \/ TaskOK(f, u)',
           \A r \in requests' : r \in requests \/ RequestOK(r)',
           \A i \in ingests' : i \in ingests \/ IngestOK(i)'
    PROVE  IInv'
  <1>1. TypeOK'
    BY DEF IInv, TypeOK, QueueTyped
  <1>2. \A u \in Urls : board[u].version \in Nat
    BY Types DEF IInv
  <1>3. Keeps
    BY <1>2, FetchesStay DEF Keeps
  <1> QED
    BY <1>1, <1>3, FetchesStay, Kept

LEMMA RowsStay ==
    ASSUME IInv, UNCHANGED <<board, jobs>>
    PROVE  /\ jobs' \in [Urls -> [text : Version, extracted : Version]]
           /\ \A u \in Urls : jobs[u].text # 0 => jobs'[u].text # 0
           /\ \A u \in Urls : PostingOK(u)'
  BY DEF IInv, TypeOK, PostingOK

\* A task that was handed over, and is not done, is in order.
LEMMA StillOnItsWay ==
    ASSUME IInv, UNCHANGED fetches, NEW t \in Tasks, status[t] # "none",
           status'[t] \notin {"none", "done"}
    PROVE  TaskOK(FetchOf(t), UrlOf(t))'
  <1> DEFINE f == FetchOf(t)
             u == UrlOf(t)
  <1>1. f \in Fetches /\ u \in Urls /\ t = <<f, u>>
    BY Types DEF IInv
  <1>2. TaskOK(f, u)
    BY <1>1 DEF IInv
  <1>3. Committed' = Committed
    BY DEF Committed
  <1> QED
    BY <1>1, <1>2, <1>3 DEF TaskOK

LEMMA QueueSteps ==
    ASSUME IInv, NEW t \in Tasks, Post(t) \/ PostTimeout(t)
    PROVE  IInv'
  <1>1. QueueTyped /\ TypeOK /\ t = <<FetchOf(t), UrlOf(t)>>
    BY Types DEF IInv
  <1>2. /\ QueueTyped' /\ Others(t)
        /\ status[t] # "none" /\ status'[t] \in {"posting", "queued", "dropped"}
        /\ Post(t) => posts[t] + 1 \in 1..MaxAttempts
    BY <1>1, Posted, Failed DEF Post, PostTimeout
  <1>3. /\ UNCHANGED <<board, companies, jobs, fetches, ingests, refused, extracting>>
        /\ \/ requests' = requests
           \/ requests' = requests \cup {[task |-> t, post |-> posts[t] + 1]} /\ Post(t)
    BY DEF Post, PostTimeout, tables
  <1>4. requests' \subseteq Request /\ \A r \in requests' : r \in requests \/ RequestOK(r)'
    <2>1. \A r \in requests' : r \in requests \/ (r \in Request /\ r.task = t)
      BY <1>2, <1>3 DEF Request
    <2> QED
      BY <1>1, <1>2, <2>1 DEF TypeOK, RequestOK
  <1>5. \A f \in Fetches, u \in Urls :
            UNCHANGED <<status[<<f, u>>], posts[<<f, u>>]>> \/ TaskOK(f, u)'
    <2>1. TaskOK(FetchOf(t), UrlOf(t))'
      BY <1>2, <1>3, StillOnItsWay
    <2>2. \A f \in Fetches, u \in Urls : <<f, u>> \in Tasks
                                         /\ (<<f, u>> = t => f = FetchOf(t) /\ u = UrlOf(t))
      BY <1>1 DEF Tasks, FetchOf, UrlOf
    <2> QED
      BY <1>2, <2>1, <2>2 DEF Others
  <1>6. ingests' \subseteq Ingest /\ refused' \subseteq Tasks
    BY <1>1, <1>3 DEF TypeOK
  <1>7. \A s \in Tasks : status[s] # "none" => status'[s] # "none"
    BY <1>2 DEF Others
  <1> QED
    BY <1>2, <1>3, <1>4, <1>5, <1>6, <1>7, RowsStay, TasksChange

LEMMA ReadsStep ==
    ASSUME IInv, NEW p \in Processes, NEW r \in requests, IngestReads(p, r)
    PROVE  IInv'
  <1> DEFINE u == UrlOf(r.task)
             f == FetchOf(r.task)
             text == IF u \in fetches[f].inline THEN fetches[f].listing[u] ELSE board[u].version
  <1>0. PICK i : i = [pc |-> "read", process |-> p, task |-> r.task, post |-> r.post, text |-> text]
    OBVIOUS
  <1>1. /\ TypeOK /\ QueueTyped /\ r \in Request /\ RequestOK(r)
        /\ r.task \in Tasks /\ u \in Urls /\ f \in Fetches /\ FetchOK(f) /\ PostingOK(u)
    BY Types DEF IInv, TypeOK
  <1>2. /\ u \in fetches[f].inline \/ board[u].listed
        /\ requests' = requests \ {r} /\ ingests' = ingests \cup {i}
        /\ UNCHANGED <<board, companies, jobs, fetches, status, posts, refused, extracting>>
    BY <1>0 DEF IngestReads, tables, queueVars
  <1>3. text \in Version /\ text # 0 /\ text <= board[u].version
    <2>1. fetches[f].listing[u] \in Version /\ board[u].version \in Version
      BY <1>1 DEF TypeOK, Fetch
    <2>2. board[u].version \in Nat
      BY <1>1, Types
    <2> QED
      BY <1>1, <1>2, <2>1, <2>2 DEF FetchOK, PostingOK, Listed
  <1>4. u \in fetches[f].inline => text = fetches[f].listing[u]
    OBVIOUS
  <1> HIDE DEF text
  <1>5. /\ i \in Ingest /\ i.task = r.task /\ i.text = text /\ i.pc = "read"
    BY <1>0, <1>1, <1>3 DEF Ingest, Request
  <1>6. IngestOK(i)'
    BY <1>1, <1>2, <1>3, <1>4, <1>5 DEF IngestOK, RequestOK
  <1>7. QueueTyped' /\ requests' \subseteq Request /\ ingests' \subseteq Ingest /\ refused' \subseteq Tasks
    BY <1>1, <1>2, <1>5 DEF TypeOK, QueueTyped
  <1>8. /\ \A q \in requests' : q \in requests
        /\ \A j \in ingests' : j \in ingests \/ IngestOK(j)'
    BY <1>2, <1>6
  <1> QED
    BY <1>2, <1>7, <1>8, RowsStay, TasksChange

\* A post is answered: with a 2xx the posting is in the table or refused.
LEMMA AnswerStep ==
    ASSUME IInv, NEW r, r.task \in Tasks, status[r.task] # "none",
           NEW ok \in BOOLEAN, Answer(r, ok),
           UNCHANGED <<board, companies, jobs, fetches, extracting>>,
           requests' \subseteq requests, ingests' \subseteq ingests,
           refused \subseteq refused', refused' \subseteq Tasks,
           ok => jobs[UrlOf(r.task)].text # 0 \/ r.task \in refused'
    PROVE  IInv'
  <1> DEFINE t == r.task
  <1>1. TypeOK /\ QueueTyped /\ t = <<FetchOf(t), UrlOf(t)>> /\ FetchOf(t) \in Fetches /\ UrlOf(t) \in Urls
    BY Types DEF IInv
  <1>2. /\ QueueTyped' /\ Others(t)
        /\ \/ UNCHANGED <<status, posts>>
           \/ status'[t] \in IF ok THEN {"done"} ELSE {"queued", "dropped"}
    BY <1>1, Answered
  <1>3. status'[t] # "none" /\ \A s \in Tasks : status[s] # "none" => status'[s] # "none"
    BY <1>2 DEF Others
  <1>4. UNCHANGED <<status, posts>> \/ TaskOK(FetchOf(t), UrlOf(t))'
    <2>1. ASSUME status'[t] = "done", ok PROVE TaskOK(FetchOf(t), UrlOf(t))'
      <3>1. TaskOK(FetchOf(t), UrlOf(t))
        BY <1>1 DEF IInv
      <3>2. Committed' = Committed
        BY DEF Committed
      <3> QED
        BY <1>1, <2>1, <3>1, <3>2 DEF TaskOK
    <2> QED
      BY <1>1, <1>2, <2>1, StillOnItsWay
  <1>5. \A f \in Fetches, u \in Urls :
            UNCHANGED <<status[<<f, u>>], posts[<<f, u>>]>> \/ TaskOK(f, u)'
    <2>1. \A f \in Fetches, u \in Urls : <<f, u>> \in Tasks
                                         /\ (<<f, u>> = t => f = FetchOf(t) /\ u = UrlOf(t))
      BY <1>1 DEF Tasks, FetchOf, UrlOf
    <2> QED
      BY <1>2, <1>4, <2>1 DEF Others
  <1>6. requests' \subseteq Request /\ ingests' \subseteq Ingest
    BY <1>1 DEF TypeOK
  <1> QED
    BY <1>2, <1>3, <1>5, <1>6, RowsStay, TasksChange

LEMMA IngestCommitsStep ==
    ASSUME IInv, NEW i \in ingests, IngestCommits(i)
    PROVE  IInv'
  <1> DEFINE v == UrlOf(i.task)
             c == [i EXCEPT !.pc = "committed"]
             row == [jobs[v] EXCEPT !.text = i.text]
  <1>1. /\ TypeOK /\ QueueTyped /\ i \in Ingest /\ IngestOK(i)
        /\ i.task \in Tasks /\ v \in Urls /\ i.text \in Version
        /\ jobs[v] \in [text : Version, extracted : Version]
        /\ \A u \in Urls : PostingOK(u)
    BY Types DEF IInv, TypeOK, Ingest
  <1>2. /\ jobs' = [jobs EXCEPT ![v] = row]
        /\ ingests' = (ingests \ {i}) \cup {c}
        /\ UNCHANGED <<board, companies, fetches, status, posts, requests, refused, extracting>>
    BY <1>1 DEF IngestCommits, tables, queueVars, TypeOK
  <1>3. row \in [text : Version, extracted : Version] /\ row.text = i.text
    BY <1>1
  <1>4. c \in Ingest /\ c.task = i.task /\ c.text = i.text
    BY <1>1 DEF Ingest
  <1> HIDE DEF c, row
  <1>5. /\ jobs' \in [Urls -> [text : Version, extracted : Version]]
        /\ jobs'[v].text = i.text /\ \A u \in Urls : u # v => jobs'[u] = jobs[u]
    BY <1>1, <1>2, <1>3 DEF TypeOK
  <1>6. /\ \A u \in Urls : jobs[u].text # 0 => jobs'[u].text # 0
        /\ \A u \in Urls : PostingOK(u)'
    BY <1>1, <1>2, <1>5 DEF IngestOK, PostingOK
  <1>7. IngestOK(c)'
    BY <1>1, <1>2, <1>4, <1>5 DEF IngestOK
  <1>8. QueueTyped' /\ ingests' \subseteq Ingest /\ requests' \subseteq Request /\ refused' \subseteq Tasks
    BY <1>1, <1>2, <1>4 DEF TypeOK, QueueTyped
  <1>9. \A j \in ingests' : j \in ingests \/ IngestOK(j)'
    BY <1>2, <1>7
  <1> QED
    BY <1>2, <1>5, <1>6, <1>8, <1>9, TasksChange

LEMMA IngestSteps ==
    ASSUME IInv, IngestStep
    PROVE  IInv'
  <1>0. /\ \A r \in requests : RequestOK(r) /\ r.task \in Tasks
        /\ \A i \in ingests : IngestOK(i) /\ i.task \in Tasks
        /\ refused \subseteq Tasks
    BY Types DEF IInv, TypeOK
  <1>1. ASSUME NEW p \in Processes, NEW r \in requests, IngestPermanent(p, r) PROVE IInv'
    <2>1. Answer(r, TRUE) /\ refused' = refused \cup {r.task} /\ requests' = requests \ {r}
      BY <1>1 DEF IngestPermanent
    <2>2. UNCHANGED <<board, companies, jobs, fetches, extracting, ingests>>
      BY <1>1 DEF IngestPermanent, tables
    <2> QED
      BY <1>0, <2>1, <2>2, AnswerStep DEF RequestOK
  <1>2. ASSUME NEW i \in ingests, IngestAnswers(i) \/ IngestFails(i) PROVE IInv'
    <2>1. /\ UNCHANGED <<board, companies, jobs, fetches, extracting, refused, requests>>
          /\ ingests' \subseteq ingests
          /\ \/ Answer(i, TRUE) /\ i.pc = "committed"
             \/ Answer(i, FALSE)
      BY <1>2 DEF IngestAnswers, IngestFails, IngestEnds, tables
    <2> QED
      BY <1>0, <2>1, AnswerStep DEF IngestOK
  <1> QED
    BY <1>1, <1>2, ReadsStep, IngestCommitsStep DEF IngestStep

LEMMA ExtractSteps ==
    ASSUME IInv, NEW v \in Urls, ExtractStep(v)
    PROVE  IInv'
  <1>1. /\ TypeOK /\ QueueTyped /\ extracting[v] \in Version
        /\ jobs[v] \in [text : Version, extracted : Version]
        /\ \A u \in Urls : PostingOK(u)
    BY Types DEF IInv, TypeOK
  <1>2. UNCHANGED <<board, companies, fetches, status, posts, requests, ingests, refused>>
    BY DEF ExtractStep, ExtractReads, ExtractCommits, ExtractFails, ExtractEnds, tables, queueVars
  <1>3. extracting' \in [Urls -> Version]
    BY <1>1, IntakeConstants DEF ExtractStep, ExtractReads, ExtractCommits, ExtractFails,
       ExtractEnds, TypeOK, Version
  <1>4. /\ jobs' \in [Urls -> [text : Version, extracted : Version]]
        /\ \A u \in Urls : jobs'[u].text = jobs[u].text
    <2>1. CASE jobs' = jobs
      BY <1>1, <2>1 DEF TypeOK
    <2>2. CASE ExtractCommits(v)
      <3> DEFINE x == IF jobs[v].extracted = 0 THEN extracting[v] ELSE jobs[v].extracted
                 row == [jobs[v] EXCEPT !.extracted = x]
      <3>1. jobs' = [jobs EXCEPT ![v] = row]
        BY <1>1, <2>2 DEF ExtractCommits, TypeOK
      <3>2. x \in Version
        BY <1>1
      <3> HIDE DEF x
      <3>3. row \in [text : Version, extracted : Version] /\ row.text = jobs[v].text
        BY <1>1, <3>2
      <3> HIDE DEF row
      <3> QED
        BY <1>1, <3>1, <3>3 DEF TypeOK
    <2> QED
      BY <2>1, <2>2 DEF ExtractStep, ExtractReads, ExtractFails, tables
  <1>5. TypeOK'
    BY <1>1, <1>2, <1>3, <1>4 DEF TypeOK
  <1>6. \A u \in Urls : PostingOK(u)'
    BY <1>1, <1>2, <1>4 DEF PostingOK
  <1>7. \A u \in Urls : board[u].version \in Nat
    BY <1>1, Types
  <1>8. Keeps
    BY <1>2, <1>4, <1>7, FetchesStay DEF Keeps
  <1> QED
    BY <1>2, <1>5, <1>6, <1>8, FetchesStay, Kept

LEMMA CrashStep ==
    ASSUME IInv, NEW p \in Processes, Crash(p)
    PROVE  IInv'
  <1> DEFINE x(f) == IF Running(f) /\ fetches[f].process = p
                     THEN [fetches[f] EXCEPT !.pc = "failed"] ELSE fetches[f]
  <1>1. TypeOK /\ QueueTyped /\ CompaniesOK /\ \A u \in Urls : PostingOK(u)
    BY Types DEF IInv
  <1>2. /\ fetches' = [f \in Fetches |-> x(f)]
        /\ UNCHANGED <<board, companies, jobs, refused>>
        /\ ingests' \subseteq ingests /\ requests' \subseteq requests
    BY DEF Crash, tables
  <1>3. \A f \in Fetches : /\ x(f) \in Fetch /\ x(f).pc \in {fetches[f].pc, "failed"}
                           /\ x(f).listing = fetches[f].listing /\ x(f).inline = fetches[f].inline
                           /\ x(f).buffer = fetches[f].buffer
    <2>1. \A f \in Fetches : fetches[f] \in Fetch
      BY <1>1 DEF TypeOK
    <2> QED
      BY <2>1 DEF Fetch, FetchPc
  <1> HIDE DEF x
  <1>4. fetches' \in [Fetches -> Fetch] /\ \A f \in Fetches : Ends(f)
    BY <1>2, <1>3 DEF Ends
  <1>5. FetchesKept /\ Committed \subseteq Committed'
    BY <1>4 DEF FetchesKept, Committed, Ends
  <1>6. /\ QueueTyped' /\ extracting' \in [Urls -> Version]
        /\ \A t \in Tasks : /\ posts'[t] = posts[t]
                            /\ status'[t] = status[t] \/ (status'[t] = "dropped" /\ status[t] # "none")
    <2>1. CASE QueueInProcess
      <3>1. Queue!Lose /\ extracting' = [u \in Urls |-> 0] /\ 0 \in Version
        BY <2>1, IntakeConstants DEF Crash, Version
      <3>2. extracting' \in [Urls -> Version]
        BY <3>1
      <3>3. /\ QueueTyped'
            /\ \A t \in Tasks : /\ posts'[t] = posts[t]
                                /\ status'[t] \in {status[t], "dropped"}
                                /\ status'[t] = "dropped" => status[t] # "none"
        BY <1>1, <3>1, Lost
      <3> QED
        BY <3>2, <3>3
    <2>2. CASE ~QueueInProcess
      BY <1>1, <2>2 DEF Crash, queueVars, QueueTyped, TypeOK
    <2> QED
      BY <2>1, <2>2
  <1>7. CompaniesOK' /\ companies' \in 0..Cardinality(Fetches)
    BY <1>1, <1>2, <1>5, CompaniesKept
  <1>8. TypeOK'
    BY <1>1, <1>2, <1>4, <1>6, <1>7 DEF TypeOK, QueueTyped
  <1>9. \A u \in Urls : PostingOK(u)' /\ board[u].version \in Nat
    BY <1>1, <1>2, Types DEF PostingOK
  <1>10. Keeps
    BY <1>2, <1>5, <1>6, <1>9 DEF Keeps
  <1>11. ASSUME NEW f \in Fetches, NEW u \in Urls
         PROVE  UNCHANGED <<status[<<f, u>>], posts[<<f, u>>]>> \/ TaskOK(f, u)'
    <2>1. <<f, u>> \in Tasks /\ TaskOK(f, u)
      BY DEF Tasks, IInv
    <2>2. f \in Committed => f \in Committed' /\ fetches'[f].buffer = fetches[f].buffer
      BY <1>4, <1>5 DEF Ends
    <2> QED
      BY <1>6, <2>1, <2>2 DEF TaskOK
  <1> QED
    BY <1>2, <1>4, <1>7, <1>8, <1>9, <1>10, <1>11, Kept

-----------------------------------------------------------------------------
(* The theorems about Spec.                                                *)

LEMMA InitialState == Init => IInv
  <1> SUFFICES ASSUME Init PROVE IInv
    OBVIOUS
  <1> USE DEF Init
  <1>1. 0 \in Version /\ 0 \in 0..MaxAttempts /\ MaxAttempts > 0
    BY IntakeConstants DEF Version
  <1>2. IsFiniteSet(Committed) /\ Committed \subseteq Fetches /\ IsFiniteSet(Fetches)
    <2>1. Committed \subseteq Fetches
      BY DEF Committed
    <2> QED
      BY <2>1, IntakeConstants, FS_Subset
  <1>3. CompaniesOK /\ companies \in 0..Cardinality(Fetches)
    BY <1>2, FS_CardinalityType DEF CompaniesOK
  <1>4. \A f \in Fetches : /\ fetches[f] \in Fetch /\ fetches[f].pc = "idle"
                           /\ Listed(f) = {} /\ fetches[f].inline = {} /\ fetches[f].buffer = {}
                           /\ \A u \in Urls : fetches[f].listing[u] = 0
    <2> TAKE f \in Fetches
    <2>1. fetches[f] \in [pc : {"idle"}, process : Processes, creates : {FALSE},
                         listing : {[u \in Urls |-> 0]}, inline : {{}}, buffer : {{}}]
      OBVIOUS
    <2>2. fetches[f].listing = [u \in Urls |-> 0] /\ fetches[f].listing \in [Urls -> Version]
      BY <1>1, <2>1
    <2>3. fetches[f] \in Fetch
      BY <2>1, <2>2 DEF Fetch, FetchPc
    <2> QED
      BY <2>1, <2>2, <2>3 DEF Listed
  <1>5. QueueTyped /\ \A t \in Tasks : status[t] = "none" /\ posts[t] = 0
    BY <1>1 DEF QueueTyped, Queue!Init, Queue!Status
  <1>6. fetches \in [Fetches -> Fetch]
    BY <1>4
  <1>7. TypeOK
    BY <1>1, <1>3, <1>5, <1>6 DEF TypeOK, QueueTyped
  <1>8. \A u \in Urls : PostingOK(u)
    BY DEF PostingOK
  <1>9. \A f \in Fetches : FetchOK(f) /\ PassedOn(f)
    BY <1>4 DEF FetchOK, PassedOn
  <1>10. \A f \in Fetches, u \in Urls : TaskOK(f, u)
    BY <1>5 DEF TaskOK, Tasks
  <1> QED
    BY <1>3, <1>7, <1>8, <1>9, <1>10 DEF IInv

LEMMA NextStep == IInv /\ [Next]_vars => IInv'
  <1>1. ASSUME IInv, Next PROVE IInv'
    BY <1>1, BoardSteps, ExtractSteps, FetchSteps, ResolveStep, QueueSteps, IngestSteps, CrashStep
    DEF Next, Step
  <1>2. ASSUME IInv, UNCHANGED vars PROVE IInv'
    BY <1>2 DEF vars, IInv, TypeOK, CompaniesOK, Committed, PostingOK, FetchOK, Listed, PassedOn,
       TaskOK, RequestOK, IngestOK
  <1> QED
    BY <1>1, <1>2

\* The inductive invariant, with any number of processes and of fetches that
\* run at the same time, crashes and timeouts included.
THEOREM Invariance == Spec => []IInv
  <1> QED
    BY InitialState, NextStep, PTL DEF Spec

\* Every state is well typed; companies has at most a row per fetch.
THEOREM TypeCorrect == Spec => []TypeOK
  <1>1. IInv => TypeOK
    BY DEF IInv
  <1> QED
    BY <1>1, Invariance, PTL

\* What an answered fetch has listed is in the table, on its way there, or
\* somebody said why not.
THEOREM NothingListedIsLost == Spec => []ListedIsCovered
  <1>1. IInv => ListedIsCovered
    <2> SUFFICES ASSUME IInv, NEW f \in Fetches, fetches[f].pc = "done", NEW u \in Listed(f),
                        jobs[u].text = 0
                 PROVE  \/ status[<<f, u>>] \in {"queued", "posting", "dropped"}
                        \/ <<f, u>> \in refused
      BY DEF ListedIsCovered
    <2>1. u \in Urls /\ <<f, u>> \in Tasks /\ status[<<f, u>>] \in Queue!Status
      BY Types DEF Tasks, Listed, IInv, QueueTyped
    <2>2. FetchOK(f) /\ PassedOn(f) /\ TaskOK(f, u)
      BY <2>1 DEF IInv
    <2>3. status[<<f, u>>] # "none"
      BY <2>2 DEF FetchOK, PassedOn
    <2> QED
      BY <2>1, <2>2, <2>3 DEF TaskOK, Queue!Status
  <1> QED
    BY <1>1, Invariance, PTL

-----------------------------------------------------------------------------
(* What the steps do to the rows, the tasks and the fetches.               *)

\* A step of a fetch: it goes on, and lists, filters, commits or enqueues.
LEMMA FetchEffect ==
    ASSUME IInv, NEW f \in Fetches, FetchStep(f)
    PROVE  /\ UNCHANGED <<board, jobs, requests, ingests, refused, extracting>>
           /\ Running(f) /\ fetches'[f].pc # "resolved"
           /\ \A g \in Fetches : g # f => fetches'[g] = fetches[g]
           /\ fetches'[f].creates = fetches[f].creates
           /\ \/ companies' = companies
              \/ /\ fetches[f].creates /\ companies' = companies + 1
                 /\ fetches[f].pc \in {"resolved", "filtered"}
                 /\ fetches'[f].pc \in {"flush", "done"}
           /\ fetches'[f].pc \in {"listed", "filtered"} =>
                  fetches[f].pc \in {"resolved", "listed", "filtered"}
           /\ \/ /\ fetches'[f].inline = fetches[f].inline
                 /\ fetches'[f].listing = fetches[f].listing
              \/ \A u \in fetches'[f].inline :
                     u \in Urls /\ fetches'[f].listing[u] = board[u].version
           /\ \A u \in fetches'[f].buffer : u \in fetches[f].buffer \/ jobs[u].text = 0
           /\ \/ UNCHANGED <<status, posts>>
              \/ \E u \in fetches[f].buffer :
                     /\ Others(<<f, u>>) /\ QueueTyped'
                     /\ status[<<f, u>>] = "none" /\ status'[<<f, u>>] = "queued"
  <1>1. TypeOK /\ QueueTyped /\ fetches[f] \in Fetch /\ fetches[f].buffer \subseteq Urls
    BY Types DEF IInv
  <1>2. companies \in Nat /\ fetches[f].creates \in BOOLEAN
    <2>1. Cardinality(Fetches) \in Nat
      BY IntakeConstants, FS_CardinalityType
    <2> QED
      BY <1>1, <2>1 DEF TypeOK, Fetch
  <1>3. CommitsCompany(f) => /\ jobs' = jobs
                             /\ \/ companies' = companies
                                \/ fetches[f].creates /\ companies' = companies + 1
    BY <1>2 DEF CommitsCompany
  <1>4. CASE FetchRefused(f) \/ FetchPermanent(f) \/ FetchCommits(f) \/ FetchFails(f)
             \/ FetchFlushFails(f) \/ FetchAnswers(f)
    <2>1. PICK pc \in {"flush", "done", "failed"} : FetchGoes(f, pc)
      BY <1>4 DEF FetchRefused, FetchPermanent, FetchCommits, FetchFails, FetchFlushFails,
         FetchAnswers
    <2> DEFINE x == [fetches[f] EXCEPT !.pc = pc]
    <2>2. fetches' = [fetches EXCEPT ![f] = x]
      BY <1>1, <2>1 DEF FetchGoes, TypeOK
    <2>3. /\ x.pc = pc /\ x.listing = fetches[f].listing /\ x.inline = fetches[f].inline
          /\ x.buffer = fetches[f].buffer /\ x.creates = fetches[f].creates
      BY <1>1 DEF Fetch
    <2> HIDE DEF x
    <2>4. fetches'[f] = x /\ \A g \in Fetches : g # f => fetches'[g] = fetches[g]
      BY <1>1, <2>2 DEF TypeOK
    <2>5. UNCHANGED <<board, status, posts, requests, ingests, refused, extracting>>
      BY <2>1 DEF FetchGoes, queueVars
    <2>6. Running(f) /\ jobs' = jobs
      BY <1>3, <1>4 DEF FetchRefused, FetchPermanent, FetchCommits, FetchFails, FetchFlushFails,
         FetchAnswers, Running, tables
    <2>7. \/ companies' = companies
          \/ /\ fetches[f].creates /\ companies' = companies + 1
             /\ fetches[f].pc \in {"resolved", "filtered"} /\ pc \in {"flush", "done"}
      <3>1. fetches'[f].pc = pc
        BY <2>3, <2>4
      <3>2. CASE FetchPermanent(f)
        <4>1. FetchGoes(f, "done") /\ CommitsCompany(f) /\ fetches[f].pc = "resolved"
          BY <3>2 DEF FetchPermanent
        <4>2. fetches'[f].pc = "done"
          BY <1>1, <4>1 DEF FetchGoes, TypeOK, Fetch
        <4> QED
          BY <1>3, <3>1, <4>1, <4>2
      <3>3. CASE FetchCommits(f)
        <4>1. FetchGoes(f, "flush") /\ CommitsCompany(f) /\ fetches[f].pc = "filtered"
          BY <3>3 DEF FetchCommits
        <4>2. fetches'[f].pc = "flush"
          BY <1>1, <4>1 DEF FetchGoes, TypeOK, Fetch
        <4> QED
          BY <1>3, <3>1, <4>1, <4>2
      <3> QED
        BY <1>4, <3>2, <3>3 DEF FetchRefused, FetchFails, FetchFlushFails, FetchAnswers, tables
    <2> QED
      BY <2>3, <2>4, <2>5, <2>6, <2>7
  <1>5. CASE FetchLists(f)
    <2> DEFINE listing == [u \in Urls |-> IF board[u].listed THEN board[u].version ELSE 0]
    <2>1. PICK inline \in SUBSET {u \in Urls : board[u].listed} :
              fetches' = [fetches EXCEPT ![f] = [@ EXCEPT !.pc = "listed", !.inline = inline,
                              !.listing = listing]]
      BY <1>5 DEF FetchLists
    <2> DEFINE x == [fetches[f] EXCEPT !.pc = "listed", !.inline = inline, !.listing = listing]
    <2>2. \A u \in inline : u \in Urls /\ listing[u] = board[u].version
      OBVIOUS
    <2> HIDE DEF listing
    <2>3. /\ x.pc = "listed" /\ x.listing = listing /\ x.inline = inline
          /\ x.buffer = fetches[f].buffer /\ x.creates = fetches[f].creates
      BY <1>1 DEF Fetch
    <2>4. fetches'[f] = x /\ \A g \in Fetches : g # f => fetches'[g] = fetches[g]
      BY <1>1, <2>1 DEF TypeOK
    <2> HIDE DEF x
    <2>5. /\ fetches[f].pc = "resolved" /\ Running(f) /\ companies' = companies
          /\ UNCHANGED <<board, jobs, status, posts, requests, ingests, refused, extracting>>
      BY <1>5 DEF FetchLists, Running, tables, queueVars
    <2> QED
      BY <2>2, <2>3, <2>4, <2>5
  <1>6. CASE FetchFilters(f)
    <2> DEFINE urls == {u \in Listed(f) : jobs[u].text = 0}
               x == [fetches[f] EXCEPT !.pc = "filtered", !.buffer = urls]
    <2>1. fetches' = [fetches EXCEPT ![f] = x]
      BY <1>1, <1>6 DEF FetchFilters, FetchGathers, TypeOK
    <2>2. /\ x.pc = "filtered" /\ x.listing = fetches[f].listing /\ x.inline = fetches[f].inline
          /\ \A u \in x.buffer : jobs[u].text = 0
          /\ x.creates = fetches[f].creates
      BY <1>1 DEF Fetch
    <2> HIDE DEF x
    <2>3. fetches'[f] = x /\ \A g \in Fetches : g # f => fetches'[g] = fetches[g]
      BY <1>1, <2>1 DEF TypeOK
    <2>4. /\ fetches[f].pc = "listed" /\ Running(f) /\ companies' = companies
          /\ UNCHANGED <<board, jobs, status, posts, requests, ingests, refused, extracting>>
      BY <1>6 DEF FetchFilters, FetchGathers, Running, tables, queueVars
    <2> QED
      BY <2>2, <2>3, <2>4
  <1>7. CASE FetchFlushes(f)
    <2>1. PICK v \in fetches[f].buffer :
              /\ Queue!Accept(<<f, v>>)
              /\ fetches' = [fetches EXCEPT ![f].buffer = @ \ {v}]
      BY <1>7 DEF FetchFlushes
    <2> DEFINE x == [fetches[f] EXCEPT !.buffer = @ \ {v}]
    <2>2. fetches' = [fetches EXCEPT ![f] = x]
      BY <1>1, <2>1 DEF TypeOK
    <2>3. /\ x.pc = fetches[f].pc /\ x.listing = fetches[f].listing
          /\ x.inline = fetches[f].inline /\ x.buffer = fetches[f].buffer \ {v}
          /\ x.creates = fetches[f].creates
      BY <1>1 DEF Fetch
    <2> HIDE DEF x
    <2>4. fetches'[f] = x /\ \A g \in Fetches : g # f => fetches'[g] = fetches[g]
      BY <1>1, <2>2 DEF TypeOK
    <2>5. /\ fetches[f].pc = "flush" /\ Running(f) /\ companies' = companies
          /\ UNCHANGED <<board, jobs, requests, ingests, refused, extracting>>
      BY <1>7 DEF FetchFlushes, Running, tables
    <2>6. v \in Urls /\ <<f, v>> \in Tasks /\ TaskOK(f, v)
      BY <1>1, Types DEF IInv
    <2>7. status[<<f, v>>] = "none" /\ posts[<<f, v>>] = 0
      BY <2>1, <2>6 DEF Queue!Accept, TaskOK
    <2>8. Others(<<f, v>>) /\ QueueTyped' /\ status'[<<f, v>>] = "queued"
      BY <1>1, <2>1, <2>6, <2>7, Accepted
    <2> QED
      BY <2>3, <2>4, <2>5, <2>7, <2>8
  <1> QED
    BY <1>4, <1>5, <1>6, <1>7 DEF FetchStep

LEMMA ResolveEffect ==
    ASSUME TypeOK, NEW f \in Fetches, FetchResolve(f)
    PROVE  /\ UNCHANGED <<board, companies, jobs, status, posts, requests, ingests, refused, extracting>>
           /\ \A g \in Fetches : g # f => fetches'[g] = fetches[g]
           /\ fetches'[f].pc = "resolved" /\ fetches'[f].creates = (companies = 0)
           /\ fetches'[f].inline = fetches[f].inline
           /\ fetches'[f].listing = fetches[f].listing
           /\ fetches'[f].buffer = fetches[f].buffer
  <1> DEFINE x == [fetches[f] EXCEPT !.pc = "resolved", !.creates = (companies = 0)]
  <1>1. fetches' = [fetches EXCEPT ![f] = x] /\ fetches[f] \in Fetch
    BY DEF FetchResolve, TypeOK
  <1>2. /\ x.pc = "resolved" /\ x.creates = (companies = 0) /\ x.inline = fetches[f].inline
        /\ x.listing = fetches[f].listing /\ x.buffer = fetches[f].buffer
    BY <1>1 DEF Fetch
  <1> HIDE DEF x
  <1>3. fetches'[f] = x /\ \A g \in Fetches : g # f => fetches'[g] = fetches[g]
    BY <1>1 DEF TypeOK
  <1> QED
    BY <1>2, <1>3 DEF FetchResolve, tables, queueVars

LEMMA CrashEffect ==
    ASSUME TypeOK, NEW p \in Processes, Crash(p)
    PROVE  /\ UNCHANGED <<board, companies, jobs>>
           /\ ingests' \subseteq ingests /\ requests' \subseteq requests
           /\ \A f \in Fetches : /\ fetches'[f] = fetches[f] \/ fetches'[f].pc = "failed"
                                 /\ fetches'[f].inline = fetches[f].inline
                                 /\ fetches'[f].listing = fetches[f].listing
                                 /\ fetches'[f].buffer = fetches[f].buffer
           /\ \/ UNCHANGED <<status, posts>> /\ UNCHANGED <<requests, extracting>>
              \/ /\ \A t \in Tasks : status'[t] \notin {"queued", "posting"}
                 /\ requests' = {} /\ ingests' = {}
                 /\ \A u \in Urls : extracting'[u] = 0
  <1>1. ASSUME NEW f \in Fetches
        PROVE  /\ fetches'[f] = fetches[f] \/ fetches'[f].pc = "failed"
               /\ fetches'[f].inline = fetches[f].inline
               /\ fetches'[f].listing = fetches[f].listing
               /\ fetches'[f].buffer = fetches[f].buffer
    <2>1. fetches[f] \in Fetch
      BY DEF TypeOK
    <2>2. \/ fetches'[f] = fetches[f]
          \/ fetches'[f] = [fetches[f] EXCEPT !.pc = "failed"]
      BY DEF Crash
    <2> QED
      BY <2>1, <2>2 DEF Fetch
  <1>2. CASE QueueInProcess
    <2>1. \A q \in Processes : q = p
      <3>1. PICK q : Processes = {q}
        BY <1>2, IntakeConstants, FS_Singleton
      <3> QED
        BY <3>1
    <2>2. ingests' = {}
      <3>1. \A i \in ingests : i.process \in Processes
        BY DEF TypeOK, Ingest
      <3> QED
        BY <2>1, <3>1 DEF Crash
    <2>3. \A t \in Tasks : status'[t] \notin {"queued", "posting"}
      <3>1. QueueTyped /\ Queue!Lose
        BY <1>2, Types DEF Crash
      <3> QED
        BY <3>1, Lost
    <2> QED
      BY <1>1, <1>2, <2>2, <2>3 DEF Crash, tables
  <1>3. CASE ~QueueInProcess
    BY <1>1, <1>3 DEF Crash, tables, queueVars
  <1> QED
    BY <1>2, <1>3

-----------------------------------------------------------------------------
(* One process.                                                            *)

LEMMA SingleLoop ==
    ASSUME TypeOK, Cardinality(Processes) = 1, NEW p \in Processes, LoopFree(p)
    PROVE  ingests = {} /\ \A f \in Fetches : ~Running(f)
  <1>1. PICK q : Processes = {q}
    BY IntakeConstants, FS_Singleton
  <1>2. /\ \A f \in Fetches : fetches[f].process \in Processes
        /\ \A i \in ingests : i.process \in Processes
    BY DEF TypeOK, Fetch, Ingest
  <1> QED
    BY <1>1, <1>2 DEF LoopFree

LEMMA OneCoroutineStep ==
    ASSUME IInv, OneCoroutine, CreatesOnlyFirst, Cardinality(Processes) = 1, Next
    PROVE  OneCoroutine' /\ CreatesOnlyFirst'
  <1>0. TypeOK /\ companies \in Nat
    <2>1. Cardinality(Fetches) \in Nat /\ TypeOK
      BY IntakeConstants, FS_CardinalityType DEF IInv
    <2> QED
      BY <2>1 DEF TypeOK
  <1>1. CASE UNCHANGED <<fetches, companies>> /\ ingests' \subseteq ingests
    BY <1>1 DEF OneCoroutine, CreatesOnlyFirst, Running
  <1>2. ASSUME NEW f \in Fetches, FetchStep(f) PROVE OneCoroutine' /\ CreatesOnlyFirst'
    <2>1. \A g \in Fetches : g # f => ~Running(g) /\ fetches'[g] = fetches[g]
      BY <1>2, FetchEffect DEF OneCoroutine
    <2>2. OneCoroutine'
      BY <1>2, <2>1, FetchEffect DEF OneCoroutine, Running
    <2>3. CreatesOnlyFirst'
      <3>1. \A g \in Fetches : g # f =>
                fetches'[g].pc \notin {"resolved", "listed", "filtered"}
        BY <2>1 DEF Running
      <3>2. \/ companies' = companies
            \/ fetches[f].creates /\ companies' = companies + 1
               /\ fetches[f].pc \in {"resolved", "filtered"}
               /\ fetches'[f].pc \in {"flush", "done"}
        BY <1>2, FetchEffect
      <3>3. /\ fetches'[f].creates = fetches[f].creates
            /\ fetches'[f].pc \in {"resolved", "listed", "filtered"} =>
                   fetches[f].pc \in {"resolved", "listed", "filtered"}
        BY <1>2, FetchEffect
      <3> QED
        BY <1>0, <3>1, <3>2, <3>3 DEF CreatesOnlyFirst
    <2> QED
      BY <2>2, <2>3
  <1>3. ASSUME NEW f \in Fetches, FetchResolve(f) PROVE OneCoroutine' /\ CreatesOnlyFirst'
    <2>1. ingests = {} /\ \A g \in Fetches : ~Running(g)
      <3>1. fetches[f].process \in Processes /\ LoopFree(fetches[f].process)
        BY <1>0, <1>3 DEF TypeOK, Fetch, FetchResolve
      <3> QED
        BY <1>0, <3>1, SingleLoop
    <2>2. /\ UNCHANGED <<companies, ingests>> /\ fetches'[f].creates = (companies = 0)
          /\ \A g \in Fetches : g # f => fetches'[g] = fetches[g]
      BY <1>0, <1>3, ResolveEffect
    <2>3. fetches'[f].creates => companies = 0
      BY <2>2, Zenon
    <2>4. \A g \in Fetches : g # f =>
              ~Running(g)' /\ fetches'[g].pc \notin {"resolved", "listed", "filtered"}
      BY <2>1, <2>2 DEF Running
    <2>5. OneCoroutine'
      BY <2>1, <2>2, <2>4 DEF OneCoroutine
    <2>6. CreatesOnlyFirst'
      BY <2>2, <2>3, <2>4 DEF CreatesOnlyFirst
    <2> QED
      BY <2>5, <2>6
  <1>4. ASSUME NEW p \in Processes, Crash(p) PROVE OneCoroutine' /\ CreatesOnlyFirst'
    <2>1. ingests' \subseteq ingests /\ companies' = companies
          /\ \A f \in Fetches : fetches'[f] = fetches[f] \/ fetches'[f].pc = "failed"
      BY <1>0, <1>4, CrashEffect
    <2> QED
      BY <2>1 DEF OneCoroutine, CreatesOnlyFirst, Running
  <1>5. ASSUME NEW p \in Processes, NEW r \in requests, IngestReads(p, r)
        PROVE  OneCoroutine' /\ CreatesOnlyFirst'
    <2>1. ingests = {} /\ \A g \in Fetches : ~Running(g)
      BY <1>0, <1>5, SingleLoop DEF IngestReads
    <2>2. UNCHANGED <<fetches, companies>> /\ \E i : ingests' = {i}
      BY <1>5, <2>1 DEF IngestReads, tables
    <2> QED
      BY <2>1, <2>2 DEF OneCoroutine, CreatesOnlyFirst, Running
  <1>6. ASSUME NEW i \in ingests, IngestCommits(i) PROVE OneCoroutine' /\ CreatesOnlyFirst'
    <2>1. ingests = {i} /\ UNCHANGED <<fetches, companies>>
      BY <1>6 DEF OneCoroutine, IngestCommits
    <2>2. \E j : ingests' = {j}
      BY <1>6, <2>1 DEF IngestCommits
    <2> QED
      BY <2>1, <2>2 DEF OneCoroutine, CreatesOnlyFirst, Running
  <1>7. ASSUME NEW t \in Tasks, Post(t) \/ PostTimeout(t)
        PROVE  UNCHANGED <<fetches, companies, ingests>>
    BY <1>7 DEF Post, PostTimeout, tables
  <1>8. ASSUME NEW u \in Urls, Board(u) \/ ExtractStep(u)
        PROVE  UNCHANGED <<fetches, companies, ingests>>
    BY <1>8 DEF Board, BoardPublishes, BoardRemoves, ExtractStep, ExtractReads, ExtractCommits,
       ExtractFails, ExtractEnds, tables
  <1>9. ASSUME NEW p \in Processes, NEW r \in requests, IngestPermanent(p, r)
        PROVE  UNCHANGED <<fetches, companies, ingests>>
    BY <1>9 DEF IngestPermanent, tables
  <1>10. ASSUME NEW i \in ingests, IngestAnswers(i) \/ IngestFails(i)
         PROVE  UNCHANGED <<fetches, companies>> /\ ingests' \subseteq ingests
    BY <1>10 DEF IngestAnswers, IngestFails, IngestEnds, tables
  <1> QED
    BY <1>1, <1>2, <1>3, <1>4, <1>5, <1>6, <1>7, <1>8, <1>9, <1>10 DEF Next, Step, IngestStep

\* One process never gives a board two companies, although nothing in the
\* schema forbids it.
THEOREM OneProcessOneCompany == Spec => []OneCompanyPerBoard
<1> DEFINE Single == Cardinality(Processes) = 1
           J == IInv /\ (Single => OneCoroutine /\ CreatesOnlyFirst)
<1>1. Init => J
  <2>1. Init => \A f \in Fetches : fetches[f].pc = "idle"
    BY DEF Init
  <2>2. ASSUME Init PROVE OneCoroutine /\ CreatesOnlyFirst
    <3>1. ingests = {} /\ companies = 0 /\ \A f \in Fetches : fetches[f].pc = "idle"
      BY <2>1, <2>2 DEF Init
    <3> QED
      BY <3>1 DEF OneCoroutine, CreatesOnlyFirst, Running
  <2> QED
    BY <2>2, InitialState
<1>2. J /\ [Next]_vars => J'
  <2>1. ASSUME UNCHANGED vars PROVE UNCHANGED <<fetches, companies, ingests>>
    BY <2>1 DEF vars
  <2>2. ASSUME UNCHANGED vars, OneCoroutine, CreatesOnlyFirst
        PROVE  OneCoroutine' /\ CreatesOnlyFirst'
    BY <2>1, <2>2 DEF OneCoroutine, CreatesOnlyFirst, Running
  <2> QED
    BY <2>2, OneCoroutineStep, NextStep
<1>3. J => OneCompanyPerBoard
  BY DEF OneCompanyPerBoard, OneCompany, CreatesOnlyFirst
<1> QED
  BY <1>1, <1>2, <1>3, PTL DEF Spec

-----------------------------------------------------------------------------
(* The steps of the tasks, once more, for what the rows may become.        *)

LEMMA PostEffect ==
    ASSUME IInv, NEW t \in Tasks, Post(t)
    PROVE  /\ UNCHANGED <<board, jobs, fetches, ingests, extracting>>
           /\ Others(t) /\ status[t] = "queued" /\ status'[t] = "posting"
           /\ \E r : /\ requests' = requests \cup {r}
                     /\ r.task = t /\ r.post = posts'[t]
  <1>1. QueueTyped
    BY Types DEF IInv
  <1>2. /\ Others(t) /\ status[t] = "queued" /\ status'[t] = "posting"
        /\ posts'[t] = posts[t] + 1
    BY <1>1, Posted DEF Post
  <1> DEFINE r == [task |-> t, post |-> posts[t] + 1]
  <1>3. requests' = requests \cup {r}
    BY DEF Post
  <1>4. r.task = t /\ r.post = posts'[t]
    BY <1>2
  <1> HIDE DEF r
  <1> QED
    BY <1>2, <1>3, <1>4 DEF Post, tables

LEMMA TimeoutEffect ==
    ASSUME IInv, NEW t \in Tasks, PostTimeout(t)
    PROVE  /\ UNCHANGED <<board, jobs, fetches, ingests, requests, extracting>>
           /\ Others(t) /\ status[t] = "posting"
  <1>1. QueueTyped
    BY Types DEF IInv
  <1> QED
    BY <1>1, Failed DEF PostTimeout, tables

LEMMA ReadsEffect ==
    ASSUME IInv, NEW p \in Processes, NEW r \in requests, IngestReads(p, r)
    PROVE  /\ UNCHANGED <<board, jobs, fetches, status, posts, extracting>>
           /\ LoopFree(p)
           /\ requests' = requests \ {r}
           /\ \E i : /\ ingests' = ingests \cup {i}
                     /\ i.task = r.task /\ i.post = r.post /\ i.pc = "read"
                     /\ i.text = IF UrlOf(r.task) \in fetches[FetchOf(r.task)].inline
                                 THEN fetches[FetchOf(r.task)].listing[UrlOf(r.task)]
                                 ELSE board[UrlOf(r.task)].version
  <1> DEFINE text == IF UrlOf(r.task) \in fetches[FetchOf(r.task)].inline
                     THEN fetches[FetchOf(r.task)].listing[UrlOf(r.task)]
                     ELSE board[UrlOf(r.task)].version
             i == [pc |-> "read", process |-> p, task |-> r.task, post |-> r.post, text |-> text]
  <1>1. ingests' = ingests \cup {i}
    BY DEF IngestReads
  <1>2. i.task = r.task /\ i.post = r.post /\ i.pc = "read" /\ i.text = text
    OBVIOUS
  <1> HIDE DEF i
  <1> QED
    BY <1>1, <1>2 DEF IngestReads, tables, queueVars

LEMMA CommitsEffect ==
    ASSUME IInv, NEW i \in ingests, IngestCommits(i)
    PROVE  /\ UNCHANGED <<board, fetches, status, posts, requests, extracting>>
           /\ i.pc = "read"
           /\ \E c : /\ ingests' = (ingests \ {i}) \cup {c}
                     /\ c.task = i.task /\ c.post = i.post /\ c.pc = "committed"
           /\ jobs'[UrlOf(i.task)].text = i.text
           /\ jobs'[UrlOf(i.task)].extracted = jobs[UrlOf(i.task)].extracted
           /\ \A u \in Urls : u # UrlOf(i.task) => jobs'[u] = jobs[u]
  <1>1. i \in Ingest /\ TypeOK /\ UrlOf(i.task) \in Urls
    BY Types DEF IInv, TypeOK
  <1>2. jobs[UrlOf(i.task)] \in [text : Version, extracted : Version]
    BY <1>1 DEF TypeOK
  <1> DEFINE row == [jobs[UrlOf(i.task)] EXCEPT !.text = i.text]
  <1>3. jobs' = [jobs EXCEPT ![UrlOf(i.task)] = row]
    BY <1>1 DEF IngestCommits, TypeOK
  <1>4. row.text = i.text /\ row.extracted = jobs[UrlOf(i.task)].extracted
    BY <1>2
  <1> HIDE DEF row
  <1>5. /\ jobs'[UrlOf(i.task)] = row
        /\ \A u \in Urls : u # UrlOf(i.task) => jobs'[u] = jobs[u]
    BY <1>1, <1>3 DEF TypeOK
  <1> DEFINE c == [i EXCEPT !.pc = "committed"]
  <1>6. c.task = i.task /\ c.post = i.post /\ c.pc = "committed"
    BY <1>1 DEF Ingest
  <1>7. ingests' = (ingests \ {i}) \cup {c}
    BY DEF IngestCommits
  <1> HIDE DEF c
  <1> QED
    BY <1>4, <1>5, <1>6, <1>7 DEF IngestCommits, queueVars

\* A request or an execution ends, and its post, when it is awaited.
Answers(r, outcomes) ==
    /\ UNCHANGED <<board, jobs, fetches, extracting>>
    /\ Others(r.task) /\ \A t \in Tasks : posts'[t] = posts[t]
    /\ \/ UNCHANGED <<status, posts>> /\ ~Awaited(r)
       \/ status[r.task] = "posting" /\ status'[r.task] \in outcomes

LEMMA EndsEffect ==
    ASSUME IInv
    PROVE  /\ \A p \in Processes, r \in requests : IngestPermanent(p, r) =>
                  Answers(r, {"done"}) /\ requests' = requests \ {r} /\ ingests' = ingests
           /\ \A i \in ingests : IngestAnswers(i) =>
                  Answers(i, {"done"}) /\ requests' = requests /\ ingests' = ingests \ {i}
           /\ \A i \in ingests : IngestFails(i) =>
                  /\ Answers(i, {"queued", "dropped"}) /\ i.pc = "read"
                  /\ requests' = requests /\ ingests' = ingests \ {i}
  <1>1. /\ QueueTyped /\ \A r \in requests : r.task \in Tasks
        /\ \A i \in ingests : i.task \in Tasks
    BY Types DEF IInv
  <1>2. ASSUME NEW p \in Processes, NEW r \in requests, IngestPermanent(p, r)
        PROVE  Answers(r, {"done"}) /\ requests' = requests \ {r} /\ ingests' = ingests
    <2>1. Answer(r, TRUE) /\ r.task \in Tasks
      BY <1>1, <1>2 DEF IngestPermanent
    <2> QED
      BY <1>1, <1>2, <2>1, Answered DEF IngestPermanent, Answers, tables
  <1>3. ASSUME NEW i \in ingests, IngestAnswers(i)
        PROVE  Answers(i, {"done"}) /\ requests' = requests /\ ingests' = ingests \ {i}
    <2>1. Answer(i, TRUE) /\ i.task \in Tasks
      BY <1>1, <1>3 DEF IngestAnswers, IngestEnds
    <2> QED
      BY <1>1, <1>3, <2>1, Answered DEF IngestAnswers, IngestEnds, Answers, tables
  <1>4. ASSUME NEW i \in ingests, IngestFails(i)
        PROVE  /\ Answers(i, {"queued", "dropped"}) /\ i.pc = "read"
               /\ requests' = requests /\ ingests' = ingests \ {i}
    <2>1. Answer(i, FALSE) /\ i.task \in Tasks
      BY <1>1, <1>4 DEF IngestFails, IngestEnds
    <2> QED
      BY <1>1, <1>4, <2>1, Answered DEF IngestFails, IngestEnds, Answers, tables
  <1> QED
    BY <1>2, <1>3, <1>4

-----------------------------------------------------------------------------
(* One fetch at a time.                                                    *)

LEMMA Flow ==
    ASSUME \A f \in Fetches : Running(f)' => Running(f),
           \A t \in Tasks : InFlight(t)' => InFlight(t) \/ Running(FetchOf(t))
    PROVE  \A f \in Fetches : Active(f)' => Active(f)
  BY DEF Active, Tasks, FetchOf

\* Only a request for a fetch makes it active.
LEMMA ActiveShrinks ==
    ASSUME IInv, Step \/ \E t \in Tasks : PostTimeout(t)
    PROVE  \A f \in Fetches : Active(f)' => Active(f)
  <1>0. /\ TypeOK /\ \A r \in requests : r.task \in Tasks
        /\ \A i \in ingests : i.task \in Tasks
    BY Types DEF IInv
  <1>1. ASSUME NEW f \in Fetches, FetchStep(f) PROVE \A g \in Fetches : Active(g)' => Active(g)
    <2>1. /\ UNCHANGED <<requests, ingests>> /\ Running(f)
          /\ \A g \in Fetches : g # f => fetches'[g] = fetches[g]
      BY <1>1, FetchEffect
    <2>2. \A t \in Tasks : status'[t] = status[t] \/ FetchOf(t) = f
      <3>1. UNCHANGED status \/ \E u \in fetches[f].buffer : Others(<<f, u>>)
        BY <1>1, FetchEffect
      <3> QED
        BY <3>1 DEF Others, FetchOf, Tasks
    <2> QED
      BY <2>1, <2>2, Flow DEF Running, InFlight
  <1>2. ASSUME NEW t \in Tasks, Post(t) \/ PostTimeout(t)
        PROVE  \A g \in Fetches : Active(g)' => Active(g)
    <2>1. /\ UNCHANGED <<fetches, ingests>> /\ Others(t) /\ InFlight(t)
          /\ \A r \in requests' : r \in requests \/ r.task = t
      BY <1>2, PostEffect, TimeoutEffect DEF InFlight
    <2> QED
      BY <2>1, Flow DEF Running, InFlight, Others
  <1>3. ASSUME NEW p \in Processes, NEW r \in requests, IngestReads(p, r)
        PROVE  \A g \in Fetches : Active(g)' => Active(g)
    <2>1. /\ UNCHANGED <<fetches, status>> /\ requests' \subseteq requests
          /\ \A i \in ingests' : i \in ingests \/ i.task = r.task
      BY <1>3, ReadsEffect
    <2> QED
      BY <2>1, Flow DEF Running, InFlight
  <1>4. ASSUME NEW i \in ingests, IngestCommits(i) PROVE \A g \in Fetches : Active(g)' => Active(g)
    <2>1. /\ UNCHANGED <<fetches, status, requests>>
          /\ \A j \in ingests' : j \in ingests \/ j.task = i.task
      BY <1>4, CommitsEffect
    <2> QED
      BY <2>1, Flow DEF Running, InFlight
  <1>5. ASSUME NEW r, NEW outcomes, Answers(r, outcomes), r.task \in Tasks,
               requests' \subseteq requests, ingests' \subseteq ingests
        PROVE  \A g \in Fetches : Active(g)' => Active(g)
    <2>1. \A t \in Tasks : status'[t] = status[t] \/ status[t] = "posting"
      BY <1>5 DEF Answers, Others
    <2> QED
      BY <1>5, <2>1, Flow DEF Running, InFlight, Answers
  <1>6. ASSUME NEW p \in Processes, Crash(p) PROVE \A g \in Fetches : Active(g)' => Active(g)
    <2>1. \A f \in Fetches : Running(f)' => Running(f)
      BY <1>0, <1>6, CrashEffect DEF Running
    <2>2. /\ ingests' \subseteq ingests /\ requests' \subseteq requests
          /\ status' = status \/ \A t \in Tasks : status'[t] \notin {"queued", "posting"}
      BY <1>0, <1>6, CrashEffect
    <2> QED
      BY <2>1, <2>2, Flow DEF InFlight
  <1>7. ASSUME NEW u \in Urls, Board(u) \/ ExtractStep(u)
        PROVE  \A g \in Fetches : Active(g)' => Active(g)
    <2>1. UNCHANGED <<fetches, status, requests, ingests>>
      BY <1>7 DEF Board, BoardPublishes, BoardRemoves, ExtractStep, ExtractReads, ExtractCommits,
         ExtractFails, ExtractEnds, tables, queueVars
    <2> QED
      BY <2>1, Flow DEF Running, InFlight
  <1>8. ASSUME IngestStep PROVE \A g \in Fetches : Active(g)' => Active(g)
    <2>1. ASSUME NEW p \in Processes, NEW r \in requests, IngestPermanent(p, r)
          PROVE  \A g \in Fetches : Active(g)' => Active(g)
      <3>1. Answers(r, {"done"}) /\ requests' \subseteq requests /\ ingests' \subseteq ingests
        BY <2>1, EndsEffect
      <3> QED
        BY <1>0, <1>5, <3>1
    <2>2. ASSUME NEW i \in ingests, IngestAnswers(i) \/ IngestFails(i)
          PROVE  \A g \in Fetches : Active(g)' => Active(g)
      <3>1. /\ Answers(i, {"done"}) \/ Answers(i, {"queued", "dropped"})
            /\ requests' \subseteq requests /\ ingests' \subseteq ingests
        BY <2>2, EndsEffect
      <3> QED
        BY <1>0, <1>5, <3>1
    <2> QED
      BY <1>3, <1>4, <1>8, <2>1, <2>2 DEF IngestStep
  <1> QED
    BY <1>1, <1>2, <1>6, <1>7, <1>8 DEF Step

\* A fetch that does not overlap begins when nothing is in flight.
LEMMA BeginsAlone ==
    ASSUME IInv, NEW f \in Fetches, FetchResolve(f), Settled, \A g \in Fetches : ~Running(g)
    PROVE  /\ \A g \in Fetches : ~Active(g)
           /\ \A g \in Fetches : Active(g)' => g = f
  <1>1. \A t \in Tasks : ~InFlight(t)
    BY DEF Settled, InFlight
  <1>2. /\ \A g \in Fetches : g # f => fetches'[g] = fetches[g]
        /\ UNCHANGED <<status, requests, ingests>>
    BY ResolveEffect DEF IInv
  <1>3. \A t \in Tasks : ~InFlight(t)'
    BY <1>1, <1>2 DEF InFlight
  <1> QED
    BY <1>1, <1>2, <1>3 DEF Active, Running, Tasks

-----------------------------------------------------------------------------
(* Texts are not replaced by older ones.                                   *)

\* The listings, the rows' texts and the executions stay, or go.
LEMMA NewerKept ==
    ASSUME IInv, WritesNewer, \A f \in Fetches : Active(f)' => Active(f),
           \A f \in Fetches : UNCHANGED <<fetches[f].inline, fetches[f].listing>>,
           \A u \in Urls : jobs'[u].text = jobs[u].text,
           ingests' \subseteq ingests
    PROVE  WritesNewer' /\ \A u \in Urls : jobs'[u].text >= jobs[u].text
  <1>1. /\ \A i \in ingests : UrlOf(i.task) \in Urls
        /\ \A f \in Fetches : fetches[f].inline \subseteq Urls
        /\ \A u \in Urls : jobs[u].text \in Nat
    BY Types DEF IInv, TypeOK, Fetch
  <1> QED
    BY <1>1 DEF WritesNewer

LEMMA NewerStep ==
    ASSUME IInv, OneCoroutine, OneActive, WritesNewer, Cardinality(Processes) = 1,
           Step \/ \E t \in Tasks : PostTimeout(t)
    PROVE  WritesNewer' /\ \A u \in Urls : jobs'[u].text >= jobs[u].text
  <1> DEFINE Goal == WritesNewer' /\ \A u \in Urls : jobs'[u].text >= jobs[u].text
  <1>0. /\ TypeOK /\ \A r \in requests : r.task \in Tasks
        /\ \A i \in ingests : i.task \in Tasks /\ i.text \in Nat
        /\ \A t \in Tasks : FetchOf(t) \in Fetches /\ UrlOf(t) \in Urls
                            /\ t = <<FetchOf(t), UrlOf(t)>>
        /\ \A u \in Urls : jobs[u].text \in Nat /\ board[u].version \in Nat
        /\ \A f \in Fetches : fetches[f].inline \subseteq Urls
    BY Types DEF IInv, TypeOK, Fetch
  <1>a. \A f \in Fetches : Active(f)' => Active(f)
    BY ActiveShrinks
  <1>b. \A t \in Tasks : InFlight(t) => Active(FetchOf(t))
    BY <1>0 DEF Active
  <1>1. ASSUME NEW f \in Fetches, FetchStep(f) PROVE Goal
    <2>1. /\ UNCHANGED <<jobs, ingests>>
          /\ \A g \in Fetches : g # f => fetches'[g] = fetches[g]
          /\ \/ /\ fetches'[f].inline = fetches[f].inline
                /\ fetches'[f].listing = fetches[f].listing
             \/ \A u \in fetches'[f].inline :
                    u \in Urls /\ fetches'[f].listing[u] = board[u].version
      BY <1>1, FetchEffect
    <2>2. \A u \in Urls : jobs[u].text <= board[u].version
      BY DEF IInv, PostingOK
    <2>3. WritesNewer'
      BY <1>a, <2>1, <2>2 DEF WritesNewer
    <2> QED
      BY <1>0, <2>1, <2>3
  <1>2. ASSUME NEW t \in Tasks, Post(t) \/ PostTimeout(t) PROVE Goal
    BY <1>2, <1>a, PostEffect, TimeoutEffect, NewerKept
  <1>3. ASSUME NEW p \in Processes, NEW r \in requests, IngestReads(p, r) PROVE Goal
    <2> DEFINE u == UrlOf(r.task)
               f == FetchOf(r.task)
    <2>1. PICK i : /\ ingests' = ingests \cup {i} /\ i.task = r.task
                   /\ i.text = IF u \in fetches[f].inline THEN fetches[f].listing[u]
                                                          ELSE board[u].version
      BY <1>3, ReadsEffect
    <2>2. UNCHANGED <<jobs, fetches>>
      BY <1>3, ReadsEffect
    <2>3. u \in Urls /\ f \in Fetches /\ Active(f)
      BY <1>0, <1>b DEF InFlight
    <2>4. jobs[u].text <= i.text
      BY <2>1, <2>3 DEF WritesNewer, IInv, PostingOK
    <2>5. WritesNewer'
      BY <1>a, <2>1, <2>2, <2>4 DEF WritesNewer
    <2> QED
      BY <1>0, <2>2, <2>5
  <1>4. ASSUME NEW i \in ingests, IngestCommits(i) PROVE Goal
    <2> DEFINE v == UrlOf(i.task)
               g == FetchOf(i.task)
    <2>1. v \in Urls /\ g \in Fetches /\ Active(g) /\ IngestOK(i)
      BY <1>0, <1>b DEF InFlight, IInv
    <2>2. /\ fetches' = fetches /\ i.pc = "read" /\ jobs'[v].text = i.text
          /\ \A u \in Urls : u # v => jobs'[u] = jobs[u]
      BY <1>4, CommitsEffect
    <2>3. PICK c : ingests' = (ingests \ {i}) \cup {c} /\ c.pc = "committed"
      BY <1>4, CommitsEffect
    <2>4. \A j \in ingests' : j.pc = "committed"
      BY <2>3 DEF OneCoroutine
    <2>5. ASSUME NEW f \in Fetches, Active(f)', NEW u \in fetches[f].inline
          PROVE  jobs'[u].text <= fetches[f].listing[u]
      <3>1. f = g /\ u \in Urls /\ Active(f)
        BY <1>0, <1>a, <2>1, <2>5 DEF OneActive
      <3>2. CASE u = v
        <4>1. fetches[f].listing[u] = i.text /\ i.text \in Nat
          BY <1>0, <2>1, <2>5, <3>1, <3>2 DEF IngestOK
        <4> QED
          BY <2>2, <3>2, <4>1
      <3>3. CASE u # v
        BY <2>2, <2>5, <3>1, <3>3 DEF WritesNewer
      <3> QED
        BY <3>2, <3>3
    <2>6. WritesNewer'
      BY <2>2, <2>4, <2>5 DEF WritesNewer
    <2>7. \A u \in Urls : jobs'[u].text >= jobs[u].text
      BY <1>0, <2>2 DEF WritesNewer
    <2> QED
      BY <2>6, <2>7
  <1>5. ASSUME NEW r, NEW outcomes, Answers(r, outcomes), ingests' \subseteq ingests PROVE Goal
    BY <1>5, <1>a, NewerKept DEF Answers
  <1>6. ASSUME NEW p \in Processes, Crash(p) PROVE Goal
    BY <1>0, <1>6, <1>a, CrashEffect, NewerKept
  <1>7. ASSUME NEW u \in Urls, Board(u) \/ ExtractStep(u) PROVE Goal
    <2>1. UNCHANGED <<fetches, ingests>>
      BY <1>7 DEF Board, BoardPublishes, BoardRemoves, ExtractStep, ExtractReads, ExtractCommits,
         ExtractFails, ExtractEnds
    <2>2. \A v \in Urls : jobs'[v].text = jobs[v].text
      BY <1>0, <1>7 DEF Board, BoardPublishes, BoardRemoves, ExtractStep, ExtractReads,
         ExtractCommits, ExtractFails, ExtractEnds, tables, TypeOK
    <2> QED
      BY <1>a, <2>1, <2>2, NewerKept
  <1>8. ASSUME IngestStep PROVE Goal
    <2>1. ASSUME NEW p \in Processes, NEW r \in requests, IngestPermanent(p, r) PROVE Goal
      <3>1. Answers(r, {"done"}) /\ ingests' \subseteq ingests
        BY <2>1, EndsEffect
      <3> QED
        BY <1>5, <3>1
    <2>2. ASSUME NEW i \in ingests, IngestAnswers(i) \/ IngestFails(i) PROVE Goal
      <3>1. /\ Answers(i, {"done"}) \/ Answers(i, {"queued", "dropped"})
            /\ ingests' \subseteq ingests
        BY <2>2, EndsEffect
      <3> QED
        BY <1>5, <3>1
    <2> QED
      BY <1>3, <1>4, <1>8, <2>1, <2>2 DEF IngestStep
  <1> QED
    BY <1>1, <1>2, <1>6, <1>7, <1>8 DEF Step

LEMMA NewerBegins ==
    ASSUME IInv, NEW f \in Fetches, FetchResolve(f), Settled, \A g \in Fetches : ~Running(g)
    PROVE  WritesNewer' /\ \A u \in Urls : jobs'[u].text >= jobs[u].text
  <1>1. /\ UNCHANGED <<jobs, ingests>> /\ fetches'[f].inline = fetches[f].inline
        /\ \A g \in Fetches : Active(g)' => g = f
    BY ResolveEffect, BeginsAlone DEF IInv
  <1>2. fetches[f].inline = {} /\ \A u \in Urls : jobs[u].text \in Nat
    <2>1. fetches[f].pc = "idle" /\ FetchOK(f)
      BY DEF FetchResolve, IInv
    <2> QED
      BY <2>1, Types DEF FetchOK, IInv
  <1> QED
    BY <1>1, <1>2 DEF WritesNewer, Settled

-----------------------------------------------------------------------------
(* While no post times out, a text is written once.                        *)

LEMMA OnePostKept ==
    ASSUME OnePost, requests' \subseteq requests, ingests' \subseteq ingests,
           \A s \in requests' \cup ingests' : UNCHANGED <<status[s.task], posts[s.task]>>
    PROVE  OnePost'
  <1>1. \A s \in requests' \cup ingests' : Awaited(s)'
    BY DEF OnePost, Awaited
  <1> QED
    BY <1>1 DEF OnePost

LEMMA WritesOnceKept ==
    ASSUME IInv, WritesOnce, jobs' = jobs,
           \A f \in Fetches : Running(f)' =>
               \A u \in fetches'[f].buffer :
                   (Running(f) /\ u \in fetches[f].buffer) \/ jobs[u].text = 0,
           \A t \in Tasks : status'[t] = "queued" => status[t] = "queued" \/ jobs[UrlOf(t)].text = 0,
           \A r \in requests' : r \in requests \/ jobs[UrlOf(r.task)].text = 0,
           \A i \in ingests' : i \in ingests \/ i.pc = "committed" \/ jobs[UrlOf(i.task)].text = 0,
           \A u \in Urls : extracting'[u] \in {0, extracting[u], jobs[u].text}
    PROVE  WritesOnce'
  BY DEF WritesOnce

LEMMA OnceExtracts ==
    ASSUME IInv, OnePost, WritesOnce, NEW v \in Urls, Board(v) \/ ExtractStep(v)
    PROVE  OnePost' /\ WritesOnce'
  <1>1. UNCHANGED <<fetches, status, posts, requests, ingests>>
    BY DEF Board, BoardPublishes, BoardRemoves, ExtractStep, ExtractReads, ExtractCommits,
       ExtractFails, ExtractEnds, tables, queueVars
  <1>2. OnePost'
    BY <1>1, OnePostKept
  <1>3. TypeOK /\ \A r \in requests : UrlOf(r.task) \in Urls
    BY Types DEF IInv
  <1>4. /\ \A t \in Tasks : UrlOf(t) \in Urls
        /\ \A i \in ingests : UrlOf(i.task) \in Urls
        /\ \A f \in Fetches : fetches[f].buffer \subseteq Urls
    BY <1>3, Types DEF IInv
  <1>5. \A u \in Urls : /\ jobs'[u].text = jobs[u].text
                        /\ jobs'[u].extracted \in {0, jobs[u].text}
                        /\ extracting'[u] \in {0, jobs[u].text}
    <2>1. CASE ExtractCommits(v)
      <3> DEFINE x == IF jobs[v].extracted = 0 THEN extracting[v] ELSE jobs[v].extracted
                 row == [jobs[v] EXCEPT !.extracted = x]
      <3>1. /\ jobs' = [jobs EXCEPT ![v] = row] /\ extracting' = [extracting EXCEPT ![v] = 0]
            /\ jobs[v] \in [text : Version, extracted : Version]
        BY <1>3, <2>1 DEF ExtractCommits, ExtractEnds, TypeOK
      <3>2. x \in {0, jobs[v].text}
        BY DEF WritesOnce
      <3> HIDE DEF x
      <3>3. row.text = jobs[v].text /\ row.extracted = x
        BY <3>1
      <3> HIDE DEF row
      <3> QED
        BY <1>3, <3>1, <3>2, <3>3 DEF WritesOnce, TypeOK
    <2>2. CASE jobs' = jobs
      <3>1. \A u \in Urls : extracting'[u] \in {0, extracting[u], jobs[u].text}
        BY <1>3, <2>2 DEF Board, BoardPublishes, BoardRemoves, ExtractStep, ExtractReads,
           ExtractCommits, ExtractFails, ExtractEnds, TypeOK
      <3> QED
        BY <2>2, <3>1 DEF WritesOnce
    <2> QED
      BY <2>1, <2>2 DEF Board, BoardPublishes, BoardRemoves, ExtractStep, ExtractReads,
         ExtractFails, tables
  <1>6. WritesOnce'
    BY <1>1, <1>3, <1>4, <1>5 DEF WritesOnce, Running
  <1> QED
    BY <1>2, <1>6

LEMMA OnceFetches ==
    ASSUME IInv, OnePost, WritesOnce, NEW f \in Fetches, FetchStep(f)
    PROVE  OnePost' /\ WritesOnce'
  <1>1. /\ UNCHANGED <<jobs, requests, ingests, extracting>> /\ Running(f)
        /\ \A g \in Fetches : g # f => fetches'[g] = fetches[g]
        /\ \A u \in fetches'[f].buffer : u \in fetches[f].buffer \/ jobs[u].text = 0
    BY FetchEffect
  <1>2. /\ \A s \in requests \cup ingests : s.task \in Tasks
        /\ fetches[f].buffer \subseteq Urls
    BY Types DEF IInv
  <1>3. /\ \A t \in Tasks : status[t] = "posting" => UNCHANGED <<status[t], posts[t]>>
        /\ \A t \in Tasks : status'[t] = "queued" => status[t] = "queued" \/ jobs[UrlOf(t)].text = 0
    <2>1. CASE UNCHANGED <<status, posts>>
      BY <2>1
    <2>2. ASSUME NEW u \in fetches[f].buffer, Others(<<f, u>>), status[<<f, u>>] = "none"
          PROVE  <1>3
      <3>1. jobs[u].text = 0 /\ UrlOf(<<f, u>>) = u
        BY <1>1 DEF WritesOnce, UrlOf
      <3> QED
        BY <2>2, <3>1 DEF Others
    <2> QED
      BY <2>1, <2>2, FetchEffect
  <1>4. OnePost'
    <2>1. \A s \in requests' \cup ingests' : UNCHANGED <<status[s.task], posts[s.task]>>
      BY <1>1, <1>2, <1>3 DEF OnePost, Awaited
    <2> QED
      BY <1>1, <2>1, OnePostKept
  <1>5. WritesOnce'
    <2>1. \A g \in Fetches : Running(g)' =>
              \A u \in fetches'[g].buffer :
                  (Running(g) /\ u \in fetches[g].buffer) \/ jobs[u].text = 0
      BY <1>1 DEF Running
    <2> QED
      BY <1>1, <1>3, <2>1, WritesOnceKept
  <1> QED
    BY <1>4, <1>5

LEMMA OncePosts ==
    ASSUME IInv, OnePost, WritesOnce, NEW t \in Tasks, Post(t)
    PROVE  OnePost' /\ WritesOnce'
  <1>1. /\ UNCHANGED <<board, jobs, fetches, ingests, extracting>>
        /\ Others(t) /\ status[t] = "queued" /\ status'[t] = "posting"
    BY PostEffect
  <1>2. PICK r : requests' = requests \cup {r} /\ r.task = t /\ r.post = posts'[t]
    BY PostEffect
  <1>3. \A s \in requests \cup ingests : s.task \in Tasks
    BY Types DEF IInv
  <1>4. \A s \in requests \cup ingests : s.task # t /\ UNCHANGED <<status[s.task], posts[s.task]>>
    BY <1>1, <1>3 DEF OnePost, Awaited, Others
  <1>5. OnePost'
    <2>1. \A s \in requests \cup ingests : Awaited(s)'
      BY <1>4 DEF OnePost, Awaited
    <2>2. Awaited(r)'
      BY <1>1, <1>2 DEF Awaited
    <2>3. \A s \in requests' \cup ingests' : Awaited(s)'
      BY <1>1, <1>2, <2>1, <2>2
    <2>4. \A x, y \in requests' : x.task = y.task => x = y
      BY <1>2, <1>4 DEF OnePost
    <2>5. \A x \in requests', i \in ingests' : x.task # i.task
      BY <1>1, <1>2, <1>4 DEF OnePost
    <2> QED
      BY <1>1, <2>3, <2>4, <2>5 DEF OnePost
  <1>6. WritesOnce'
    <2>1. jobs[UrlOf(t)].text = 0
      BY <1>1 DEF WritesOnce
    <2>2. \A s \in Tasks : status'[s] = "queued" => status[s] = "queued"
      BY <1>1 DEF Others
    <2> QED
      BY <1>1, <1>2, <2>1, <2>2, WritesOnceKept DEF Running
  <1> QED
    BY <1>5, <1>6

LEMMA OnceReads ==
    ASSUME IInv, OnePost, WritesOnce, NEW p \in Processes, NEW r \in requests, IngestReads(p, r)
    PROVE  OnePost' /\ WritesOnce'
  <1>1. PICK i : ingests' = ingests \cup {i} /\ i.task = r.task /\ i.post = r.post
    BY ReadsEffect
  <1>2. /\ UNCHANGED <<jobs, fetches, status, posts, extracting>>
        /\ requests' = requests \ {r}
    BY ReadsEffect
  <1>3. OnePost'
    <2>1. \A s \in requests' \cup ingests' : Awaited(s)'
      BY <1>1, <1>2 DEF OnePost, Awaited
    <2>2. \A x, y \in requests' : x.task = y.task => x = y
      BY <1>2 DEF OnePost
    <2>3. \A x, y \in ingests' : x.task = y.task => x = y
      BY <1>1 DEF OnePost
    <2>4. \A x \in requests', y \in ingests' : x.task # y.task
      BY <1>1, <1>2 DEF OnePost
    <2> QED
      BY <2>1, <2>2, <2>3, <2>4 DEF OnePost
  <1>4. WritesOnce'
    <2>1. jobs[UrlOf(r.task)].text = 0
      BY DEF WritesOnce
    <2> QED
      BY <1>1, <1>2, <2>1, WritesOnceKept DEF Running
  <1> QED
    BY <1>3, <1>4

\* The write: no buffer, task, request or execution but its own is for the row.
LEMMA OnceCommits ==
    ASSUME IInv, OneActive, OnePost, WritesOnce, NEW i \in ingests, IngestCommits(i)
    PROVE  OnePost' /\ WritesOnce'
  <1> DEFINE v == UrlOf(i.task)
             g == FetchOf(i.task)
  <1>1. PICK c : /\ ingests' = (ingests \ {i}) \cup {c}
                 /\ c.task = i.task /\ c.post = i.post /\ c.pc = "committed"
    BY CommitsEffect
  <1>2. /\ UNCHANGED <<fetches, status, posts, requests, extracting>> /\ i.pc = "read"
        /\ jobs'[v].text = i.text /\ jobs'[v].extracted = jobs[v].extracted
        /\ \A u \in Urls : u # v => jobs'[u] = jobs[u]
    BY CommitsEffect
  <1>3. /\ \A t \in Tasks : FetchOf(t) \in Fetches /\ UrlOf(t) \in Urls
                            /\ t = <<FetchOf(t), UrlOf(t)>>
        /\ \A s \in requests \cup ingests : s.task \in Tasks
        /\ \A f \in Fetches : fetches[f].buffer \subseteq Urls
    BY Types DEF IInv
  <1>4. i.task \in Tasks /\ v \in Urls /\ g \in Fetches /\ i.task = <<g, v>> /\ Active(g)
    BY <1>3 DEF Active, InFlight
  <1>5. OnePost'
    <2>1. \A s \in requests' \cup ingests' : Awaited(s)'
      BY <1>1, <1>2 DEF OnePost, Awaited
    <2>2. \A x, y \in ingests' : x.task = y.task => x = y
      BY <1>1 DEF OnePost
    <2>3. \A x \in requests', y \in ingests' : x.task # y.task
      BY <1>1, <1>2 DEF OnePost
    <2> QED
      BY <1>2, <2>1, <2>2, <2>3 DEF OnePost
  <1>6. ASSUME NEW t \in Tasks, InFlight(t), UrlOf(t) = v PROVE t = i.task
    <2>1. FetchOf(t) \in Fetches /\ t = <<FetchOf(t), v>>
      BY <1>3, <1>6
    <2>2. Active(FetchOf(t))
      BY <1>4, <1>6, <2>1 DEF Active
    <2> QED
      BY <1>4, <2>1, <2>2 DEF OneActive
  <1>7. ASSUME NEW f \in Fetches, Running(f), NEW u \in fetches[f].buffer PROVE u # v
    <2>1. SUFFICES ASSUME u = v PROVE FALSE
      OBVIOUS
    <2>2. f = g
      BY <1>4, <1>7 DEF OneActive, Active
    <2>3. TaskOK(g, v) /\ status[<<g, v>>] # "none"
      BY <1>4 DEF IInv, IngestOK
    <2> QED
      BY <1>7, <2>1, <2>2, <2>3 DEF TaskOK
  <1>8. ASSUME NEW t \in Tasks, status[t] = "queued" PROVE UrlOf(t) # v
    <2>1. status[i.task] = "posting"
      BY DEF OnePost, Awaited
    <2> QED
      BY <1>6, <1>8, <2>1 DEF InFlight
  <1>9. ASSUME NEW r \in requests PROVE UrlOf(r.task) # v
    BY <1>3, <1>6, <1>9 DEF InFlight, OnePost
  <1>10. ASSUME NEW j \in ingests', j.pc = "read" PROVE j \in ingests /\ UrlOf(j.task) # v
    <2>1. j \in ingests /\ j # i
      BY <1>1, <1>10
    <2> QED
      BY <1>3, <1>6, <2>1 DEF InFlight, OnePost
  <1>11. jobs[v].extracted = 0 /\ extracting[v] = 0
    <2>1. jobs[v].text = 0
      BY <1>2 DEF WritesOnce
    <2> QED
      BY <1>4, <2>1 DEF WritesOnce
  <1>12. \A f \in Fetches : Running(f)' => \A u \in fetches'[f].buffer : jobs'[u].text = 0
    BY <1>2, <1>3, <1>7 DEF WritesOnce, Running
  <1>13. \A t \in Tasks : status'[t] = "queued" => jobs'[UrlOf(t)].text = 0
    BY <1>2, <1>3, <1>8 DEF WritesOnce
  <1>14. \A r \in requests' : jobs'[UrlOf(r.task)].text = 0
    BY <1>2, <1>3, <1>9 DEF WritesOnce
  <1>15. \A j \in ingests' : j.pc = "read" => jobs'[UrlOf(j.task)].text = 0
    BY <1>2, <1>3, <1>10 DEF WritesOnce
  <1>16. \A u \in Urls : /\ jobs'[u].extracted \in {0, jobs'[u].text}
                         /\ extracting'[u] \in {0, jobs'[u].text}
    BY <1>2, <1>11 DEF WritesOnce
  <1> QED
    BY <1>5, <1>12, <1>13, <1>14, <1>15, <1>16 DEF WritesOnce

LEMMA OnceEnds ==
    ASSUME IInv, OnePost, WritesOnce, NEW r \in requests \cup ingests, NEW outcomes,
           Answers(r, outcomes),
           \/ requests' = requests \ {r} /\ ingests' = ingests /\ r \in requests
           \/ requests' = requests /\ ingests' = ingests \ {r} /\ r \in ingests,
           "queued" \in outcomes => jobs[UrlOf(r.task)].text = 0
    PROVE  OnePost' /\ WritesOnce'
  <1>1. \A s \in requests \cup ingests : s.task \in Tasks
    BY Types DEF IInv
  <1>2. \A s \in requests' \cup ingests' : s.task # r.task /\ s \in requests \cup ingests
    BY DEF OnePost
  <1>3. OnePost'
    <2>1. \A s \in requests' \cup ingests' : UNCHANGED <<status[s.task], posts[s.task]>>
      BY <1>1, <1>2 DEF Answers, Others
    <2> QED
      BY <2>1, OnePostKept
  <1>4. \A t \in Tasks : status'[t] = "queued" => status[t] = "queued" \/ jobs[UrlOf(t)].text = 0
    BY <1>1 DEF Answers, Others, OnePost
  <1>5. WritesOnce'
    BY <1>4, WritesOnceKept DEF Answers, Running
  <1> QED
    BY <1>3, <1>5

LEMMA OnceStep ==
    ASSUME IInv, OneActive, OnePost, WritesOnce, Step
    PROVE  OnePost' /\ WritesOnce'
  <1>1. ASSUME NEW p \in Processes, NEW r \in requests, IngestPermanent(p, r)
        PROVE  OnePost' /\ WritesOnce'
    <2>1. Answers(r, {"done"}) /\ requests' = requests \ {r} /\ ingests' = ingests
      BY <1>1, EndsEffect
    <2> QED
      BY <2>1, OnceEnds
  <1>2. ASSUME NEW i \in ingests, IngestAnswers(i) \/ IngestFails(i)
        PROVE  OnePost' /\ WritesOnce'
    <2>1. /\ requests' = requests /\ ingests' = ingests \ {i}
          /\ \/ Answers(i, {"done"})
             \/ Answers(i, {"queued", "dropped"}) /\ i.pc = "read"
      BY <1>2, EndsEffect
    <2>2. i.pc = "read" => jobs[UrlOf(i.task)].text = 0
      BY DEF WritesOnce
    <2> QED
      BY <2>1, <2>2, OnceEnds
  <1>3. ASSUME NEW p \in Processes, Crash(p) PROVE OnePost' /\ WritesOnce'
    <2>1. /\ jobs' = jobs /\ ingests' \subseteq ingests /\ requests' \subseteq requests
          /\ \A f \in Fetches : /\ fetches'[f] = fetches[f] \/ fetches'[f].pc = "failed"
                                /\ fetches'[f].buffer = fetches[f].buffer
          /\ \/ UNCHANGED <<status, posts>> /\ UNCHANGED <<requests, extracting>>
             \/ /\ \A t \in Tasks : status'[t] \notin {"queued", "posting"}
                /\ requests' = {} /\ ingests' = {}
                /\ \A u \in Urls : extracting'[u] = 0
      BY <1>3, CrashEffect DEF IInv
    <2>2. OnePost'
      BY <2>1, OnePostKept
    <2>3. \A f \in Fetches : Running(f)' =>
              \A u \in fetches'[f].buffer : Running(f) /\ u \in fetches[f].buffer
      BY <2>1 DEF Running
    <2>4. WritesOnce'
      BY <2>1, <2>3, WritesOnceKept
    <2> QED
      BY <2>2, <2>4
  <1> QED
    BY <1>1, <1>2, <1>3, OnceExtracts, OnceFetches, OncePosts, OnceReads, OnceCommits
    DEF Step, IngestStep

LEMMA OnceBegins ==
    ASSUME IInv, OnePost, WritesOnce, NEW f \in Fetches, FetchResolve(f), Settled,
           \A g \in Fetches : ~Running(g)
    PROVE  OnePost' /\ WritesOnce'
  <1>1. /\ UNCHANGED <<jobs, status, posts, requests, ingests, extracting>>
        /\ fetches'[f].buffer = fetches[f].buffer
        /\ \A g \in Fetches : g # f => fetches'[g] = fetches[g]
    BY ResolveEffect DEF IInv
  <1>2. fetches[f].buffer = {}
    BY DEF FetchResolve, IInv, FetchOK
  <1>3. \A g \in Fetches : Running(g)' => fetches'[g].buffer = {}
    BY <1>1, <1>2 DEF Running
  <1> QED
    BY <1>1, <1>3, OnePostKept, WritesOnceKept

-----------------------------------------------------------------------------
(* The theorems about MCSpec, whose steps are those of Spec.               *)

MCNext == MCStep \/ MCFetch \/ MCTimeout
OneProcess == Cardinality(Processes) = 1
MCInv ==
    /\ IInv
    /\ Serial
    /\ OnceInv
    /\ OneProcess => OneCoroutine /\ CreatesOnlyFirst /\ MonotoneInv

LEMMA MCInitial == MCInit => MCInv
  <1> SUFFICES ASSUME MCInit PROVE MCInv
    OBVIOUS
  <1>1. IInv
    BY InitialState DEF MCInit
  <1>2. /\ \A f \in Fetches : fetches[f].pc = "idle" /\ fetches[f].buffer = {}
        /\ \A t \in Tasks : status[t] = "none"
        /\ requests = {} /\ ingests = {} /\ companies = 0
        /\ \A u \in Urls : jobs[u].text = 0 /\ jobs[u].extracted = 0 /\ extracting[u] = 0
    BY DEF MCInit, Init, Queue!Init
  <1>3. OneCoroutine /\ CreatesOnlyFirst
    BY <1>2 DEF OneCoroutine, CreatesOnlyFirst, Running
  <1>4. \A f \in Fetches : ~Active(f)
    <2>1. \A t \in Tasks : ~InFlight(t)
      BY <1>2 DEF InFlight
    <2>2. \A f \in Fetches, u \in Urls : <<f, u>> \in Tasks
      BY DEF Tasks
    <2> QED
      BY <1>2, <2>1, <2>2 DEF Active, Running
  <1>5. OneActive /\ WritesNewer
    BY <1>2, <1>4 DEF OneActive, WritesNewer
  <1>6. OnePost /\ WritesOnce
    BY <1>2 DEF OnePost, WritesOnce, Running
  <1> QED
    BY <1>1, <1>3, <1>5, <1>6 DEF MCInv, Serial, OnceInv, MonotoneInv

\* The next state satisfies the invariant, and no row has got an older text
\* than before.
LEMMA MCNextStep ==
    ASSUME MCInv, MCNext
    PROVE  /\ MCInv'
           /\ OneProcess /\ ~overlapped' => \A u \in Urls : jobs'[u].text >= jobs[u].text
  <1> DEFINE Newer == \A u \in Urls : jobs'[u].text >= jobs[u].text
  <1>1. Next /\ (overlapped => overlapped') /\ (timedOut => timedOut')
    <2>1. Next
      BY DEF MCNext, MCStep, MCFetch, MCTimeout, Next
    <2>2. (overlapped => overlapped') /\ (timedOut => timedOut')
      <3>1. CASE MCStep
        <4>1. overlapped' = overlapped /\ timedOut' = timedOut
          BY <3>1 DEF MCStep
        <4> QED
          BY <4>1
      <3>2. CASE MCFetch
        <4>1. timedOut' = timedOut
          BY <3>2 DEF MCFetch
        <4>2. overlapped => overlapped'
          BY <3>2, Zenon DEF MCFetch
        <4> QED
          BY <4>1, <4>2
      <3>3. CASE MCTimeout
        <4>1. overlapped' = overlapped /\ timedOut'
          BY <3>3 DEF MCTimeout
        <4> QED
          BY <4>1
      <3> QED
        BY <3>1, <3>2, <3>3 DEF MCNext
    <2> QED
      BY <2>1, <2>2
  <1>2. IInv' /\ IInv
    BY <1>1, NextStep DEF MCInv
  <1>3. OneProcess => OneCoroutine' /\ CreatesOnlyFirst'
    BY <1>1, OneCoroutineStep DEF MCInv, OneProcess
  <1>4. ASSUME ~overlapped'
        PROVE  /\ OneActive'
               /\ ~timedOut' => OnePost' /\ WritesOnce'
               /\ OneProcess => WritesNewer' /\ Newer
    <2>1. /\ OneActive
          /\ ~timedOut => OnePost /\ WritesOnce
          /\ OneProcess => OneCoroutine /\ WritesNewer
      BY <1>1, <1>4 DEF MCInv, Serial, OnceInv, MonotoneInv
    <2>2. CASE MCStep
      <3>1. OneActive'
        BY <1>2, <2>1, <2>2, ActiveShrinks DEF MCStep, OneActive
      <3>2. OneProcess => WritesNewer' /\ Newer
        BY <1>2, <2>1, <2>2, NewerStep DEF MCStep, OneProcess
      <3>3. ~timedOut' => OnePost' /\ WritesOnce'
        BY <1>1, <1>2, <2>1, <2>2, OnceStep DEF MCStep
      <3> QED
        BY <3>1, <3>2, <3>3
    <2>3. CASE MCFetch
      <3>1. PICK f \in Fetches : FetchResolve(f)
        BY <2>3 DEF MCFetch
      <3>2. Settled /\ \A g \in Fetches : ~Running(g)
        BY <1>4, <2>3 DEF MCFetch
      <3>3. OneActive'
        BY <1>2, <3>1, <3>2, BeginsAlone DEF OneActive
      <3>4. WritesNewer' /\ Newer
        BY <1>2, <3>1, <3>2, NewerBegins
      <3>5. ~timedOut' => OnePost' /\ WritesOnce'
        BY <1>1, <1>2, <2>1, <3>1, <3>2, OnceBegins
      <3> QED
        BY <3>3, <3>4, <3>5
    <2>4. CASE MCTimeout
      <3>1. \E t \in Tasks : PostTimeout(t)
        BY <2>4 DEF MCTimeout
      <3>2. OneActive'
        BY <1>2, <2>1, <3>1, ActiveShrinks DEF OneActive
      <3>3. OneProcess => WritesNewer' /\ Newer
        BY <1>2, <2>1, <3>1, NewerStep DEF OneProcess
      <3>4. timedOut'
        BY <2>4 DEF MCTimeout
      <3> QED
        BY <3>2, <3>3, <3>4
    <2> QED
      BY <2>2, <2>3, <2>4 DEF MCNext
  <1> QED
    BY <1>2, <1>3, <1>4 DEF MCInv, Serial, OnceInv, MonotoneInv, OneProcess

LEMMA MCStutter == ASSUME MCInv, UNCHANGED mcVars PROVE MCInv'
  <1>1. /\ UNCHANGED vars /\ UNCHANGED <<overlapped, timedOut>>
        /\ UNCHANGED <<board, companies, jobs, fetches, status, posts, requests, ingests, extracting>>
    BY DEF mcVars, vars
  <1>2. IInv'
    BY <1>1, NextStep DEF MCInv
  <1>3. OneActive' = OneActive
    BY <1>1 DEF OneActive, Active, InFlight, Running
  <1>4. WritesNewer' = WritesNewer
    BY <1>1 DEF WritesNewer, Active, InFlight, Running
  <1>5. OnePost' = OnePost /\ WritesOnce' = WritesOnce
    BY <1>1 DEF OnePost, WritesOnce, Awaited, Running
  <1>6. OneCoroutine' = OneCoroutine /\ CreatesOnlyFirst' = CreatesOnlyFirst
    BY <1>1 DEF OneCoroutine, CreatesOnlyFirst, Running
  <1> QED
    BY <1>1, <1>2, <1>3, <1>4, <1>5, <1>6 DEF MCInv, Serial, OnceInv, MonotoneInv, OneProcess

THEOREM MCInvariance == MCSpec => []MCInv
  <1>1. MCInv /\ [MCNext]_mcVars => MCInv'
    BY MCNextStep, MCStutter
  <1>2. MCSpec <=> MCInit /\ [][MCNext]_mcVars
    BY DEF MCSpec, MCNext
  <1> QED
    BY <1>1, <1>2, MCInitial, PTL

\* One process never replaces a text by an older one, even when posts time out
\* and their requests run late, as long as no fetch begins before the
\* ingest-jobs of the one before have ended.
THEOREM TextsStayNew ==
    ASSUME Cardinality(Processes) = 1
    PROVE  MCSpec => TextNeverRegresses
  <1> DEFINE Newer == ~overlapped' => \A u \in Urls : jobs'[u].text >= jobs[u].text
  <1>1. MCInv /\ [MCNext]_mcVars => [Newer]_mcVars
    BY MCNextStep DEF OneProcess
  <1>2. MCSpec <=> MCInit /\ [][MCNext]_mcVars
    BY DEF MCSpec, MCNext
  <1>3. TextNeverRegresses <=> [][Newer]_mcVars
    BY DEF TextNeverRegresses
  <1> QED
    BY <1>1, <1>2, <1>3, MCInvariance, PTL

\* If besides no post times out, what is extracted describes the text in its
\* row, with any number of processes.
THEOREM ExtractionsAreCurrent == MCSpec => []ExtractionDescribesText
  <1>1. MCInv => ExtractionDescribesText
    BY DEF MCInv, OnceInv, WritesOnce, ExtractionDescribesText, ExtractionIsCurrent
  <1> QED
    BY <1>1, MCInvariance, PTL
=============================================================================
