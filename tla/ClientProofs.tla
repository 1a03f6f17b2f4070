---------------------------- MODULE ClientProofs ----------------------------
(***************************************************************************)
(* Theorems about the components of ClientParts, each for itself, for any  *)
(* values of its constants.                                                *)
(***************************************************************************)
EXTENDS ClientParts, Sums, FiniteSetTheorems, SequenceTheorems, NaturalsInduction, TLAPS

\* The cardinality that an instance speaks of is the one of FiniteSets.
LEMMA SameCardinality ==
    \A S : P!Cardinality(S) = Cardinality(S) /\ D!Cardinality(S) = Cardinality(S)
    BY DEF P!Cardinality, D!Cardinality, Cardinality

----------------------------------------------------------------------------
\* Clients.
\* For any people and any requests at a time: one row for each person, and
\* no ring of referrals.
\*
\* ReferrersAreOlder is not inductive by itself: it needs that the code a
\* request carries is of a client that was there before the request took
\* its number (Carried), and what a request holds must fit what is stored
\* (HeldFits), nobody else holding the same person or number (OneHolder).

Row == [id : Nat \ {0}, who : People, ref : Nat]

Typed ==
    /\ nextId \in Nat \ {0}
    /\ rows \subseteq Row
    /\ work \in [Requests ->
         {Idle}
         \cup [at : {"find", "upsert"}, who : People, door : Doors, code : Nat]
         \cup [at : {"attach", "commit"}, who : People, door : Doors, code : Nat, row : Row]]

Stored(id) == \E s \in rows : s.id = id

\* Who invited is stored, and older.
Older(r) == r.ref # NoClient => r.ref < r.id /\ Stored(r.ref)

\* A code is of a stored client.
Carried == \A k \in Requests : work[k] # Idle /\ work[k].code # NoClient => Stored(work[k].code)

\* Numbers are taken once.
Numbered ==
    /\ \A r \in rows : r.id < nextId
    /\ \A k \in Requests : Holds(k) => work[k].row.id < nextId

\* A held row is stored as it is, or neither its person nor its number is.
HeldFits ==
    \A k \in Requests : Holds(k) =>
        /\ Older(work[k].row)
        /\ \/ work[k].row \in rows
           \/ \A r \in rows : r.who # work[k].row.who /\ r.id # work[k].row.id
        /\ work[k].at = "attach" =>
             /\ work[k].row \notin rows
             /\ \A r \in rows : r.id = work[k].code => r.id < work[k].row.id

OneHolder ==
    \A j, k \in Requests : j # k /\ Holds(j) /\ Holds(k) =>
        work[j].row.who # work[k].row.who /\ work[j].row.id # work[k].row.id

ClientsInv ==
    /\ Typed /\ Carried /\ Numbered /\ HeldFits /\ OneHolder
    /\ OneRowEach /\ ReferrersAreOlder

----------------------------------------------------------------------------
\* Nothing is stored or held at first.
LEMMA InitClientsInv == ClientsInit => ClientsInv
  BY DEF ClientsInit, ClientsInv, Typed, Carried, Numbered, HeldFits, OneHolder, Holds, Idle,
         OneRowEach, ReferrersAreOlder

\* A request that neither holds a row nor comes to hold one, and whose code is a stored one,
\* leaves what is said of rows as it was.
LEMMA StepWithoutRow ==
    ASSUME ClientsInv, NEW k \in Requests, UNCHANGED <<rows, nextId>>,
           NEW w \in {Idle} \cup [at : {"find", "upsert"}, who : People, door : Doors, code : Nat],
           work' = [work EXCEPT ![k] = w],
           w # Idle /\ w.code # NoClient => Stored(w.code)
    PROVE  ClientsInv'
  <1>1. Typed'
    BY DEF ClientsInv, Typed
  <1>2. ~Holds(k)' /\ \A j \in Requests \ {k} : work'[j] = work[j] /\ (Holds(j)' <=> Holds(j))
    BY DEF ClientsInv, Typed, Holds, Idle
  <1>3. Carried'
    BY <1>2 DEF ClientsInv, Typed, Carried, Stored
  <1>4. Numbered' /\ OneHolder'
    BY <1>2 DEF ClientsInv, Numbered, OneHolder
  <1>5. HeldFits'
    BY <1>2 DEF ClientsInv, HeldFits, Older, Stored
  <1>6. OneRowEach' /\ ReferrersAreOlder'
    BY DEF ClientsInv, OneRowEach, ReferrersAreOlder
  <1> QED
    BY <1>1, <1>3, <1>4, <1>5, <1>6 DEF ClientsInv

\* A request comes: its code, if any, is of a stored client.
LEMMA AskStep ==
    ASSUME ClientsInv, NEW k \in Requests, NEW p \in People, NEW door \in Doors, NEW r \in Codes,
           Ask(k, p, door, r)
    PROVE  ClientsInv'
  <1> DEFINE w == [at |-> IF door = "bot" THEN "upsert" ELSE "find",
                   who |-> p, door |-> door, code |-> r]
  <1>1. r \in Nat /\ (r # NoClient => Stored(r))
    BY DEF Codes, Stored, NoClient, ClientsInv, Typed, Row
  <1>2. w \in [at : {"find", "upsert"}, who : People, door : Doors, code : Nat] /\ w.code = r
    BY <1>1
  <1>3. work' = [work EXCEPT ![k] = w] /\ UNCHANGED <<rows, nextId>>
    BY DEF Ask, Goto
  <1> HIDE DEF w
  <1> QED
    BY <1>1, <1>2, <1>3, StepWithoutRow

\* What a request is before it holds a row.
LEMMA BeforeRow ==
    ASSUME ClientsInv, NEW k \in Requests, work[k].at \in {"find", "upsert"}
    PROVE  /\ work[k] \in [at : {"find", "upsert"}, who : People, door : Doors, code : Nat]
           /\ work[k] # Idle
  BY DEF ClientsInv, Typed, Idle

\* The look for the client's row.
LEMMA FindStep ==
    ASSUME ClientsInv, NEW k \in Requests, NEW refresh \in BOOLEAN, Find(k, refresh)
    PROVE  ClientsInv'
  <1> DEFINE w == IF RowsOf(work[k].who) # {} /\ ~refresh THEN Idle
                  ELSE [work[k] EXCEPT !.at = "upsert"]
  <1>1. /\ work[k] \in [at : {"find", "upsert"}, who : People, door : Doors, code : Nat]
        /\ work[k] # Idle
    BY BeforeRow DEF Find
  <1>2. w = Idle \/ (w \in [at : {"find", "upsert"}, who : People, door : Doors, code : Nat]
                     /\ w.code = work[k].code)
    BY <1>1
  <1>3. w # Idle /\ w.code # NoClient => Stored(w.code)
    BY <1>1, <1>2 DEF ClientsInv, Carried
  <1>4. work' = [work EXCEPT ![k] = w] /\ UNCHANGED <<rows, nextId>>
    BY DEF Find, Goto
  <1> HIDE DEF w
  <1> QED
    BY <1>2, <1>3, <1>4, StepWithoutRow

\* A request is rolled back.
LEMMA LoseStep ==
    ASSUME ClientsInv, NEW k \in Requests, Lose(k)
    PROVE  ClientsInv'
  BY StepWithoutRow DEF Lose, Goto

----------------------------------------------------------------------------
\* A request that holds, from now on, a row nobody else holds.
LEMMA StepWithRow ==
    ASSUME ClientsInv, NEW k \in Requests, UNCHANGED rows, nextId' \in Nat, nextId <= nextId',
           NEW w \in [at : {"attach", "commit"}, who : People, door : Doors, code : Nat, row : Row],
           work' = [work EXCEPT ![k] = w],
           w.code # NoClient => Stored(w.code),
           w.row.id < nextId',
           Older(w.row),
           w.row \in rows \/ \A r \in rows : r.who # w.row.who /\ r.id # w.row.id,
           w.at = "attach" => /\ w.row \notin rows
                              /\ \A r \in rows : r.id = w.code => r.id < w.row.id,
           \A j \in Requests : j # k /\ Holds(j) =>
               work[j].row.who # w.row.who /\ work[j].row.id # w.row.id
    PROVE  ClientsInv'
  <1>1. Typed'
    BY DEF ClientsInv, Typed
  <1>2. /\ work'[k] = w
        /\ \A j \in Requests \ {k} : work'[j] = work[j] /\ (Holds(j)' <=> Holds(j))
    BY DEF ClientsInv, Typed, Holds
  <1>3. Carried'
    BY <1>2 DEF ClientsInv, Carried, Stored
  <1>4. Numbered'
    <2>1. \A r \in rows : r.id \in Nat /\ r.id < nextId'
      BY DEF ClientsInv, Numbered, Typed, Row
    <2>2. \A j \in Requests \ {k} : Holds(j) => work[j].row.id \in Nat /\ work[j].row.id < nextId'
      <3>1. \A j \in Requests : Holds(j) => work[j].row \in Row
        BY DEF ClientsInv, Typed, Holds, Idle
      <3> QED
        BY <3>1 DEF ClientsInv, Numbered, Typed, Row
    <2> QED
      BY <1>2, <2>1, <2>2 DEF Numbered
  <1>5. HeldFits'
    BY <1>2 DEF ClientsInv, HeldFits, Older, Stored
  <1>6. OneHolder'
    BY <1>2 DEF ClientsInv, OneHolder
  <1>7. OneRowEach' /\ ReferrersAreOlder'
    BY DEF ClientsInv, OneRowEach, ReferrersAreOlder
  <1> QED
    BY <1>1, <1>3, <1>4, <1>5, <1>6, <1>7 DEF ClientsInv

\* The row is created, or found and locked.
LEMMA UpsertStep ==
    ASSUME ClientsInv, NEW k \in Requests, Upsert(k)
    PROVE  ClientsInv'
  <1>1. /\ work[k] \in [at : {"find", "upsert"}, who : People, door : Doors, code : Nat]
        /\ work[k] # Idle
        /\ work[k].code # NoClient => Stored(work[k].code)
    BY BeforeRow DEF Upsert, ClientsInv, Carried
  <1>2. nextId \in Nat \ {0} /\ nextId' = nextId + 1 /\ UNCHANGED rows
    BY DEF Upsert, ClientsInv, Typed
  <1>3. \A j \in Requests : Holds(j) => work[j].row \in Row /\ work[j].row.id < nextId
                                        /\ work[j].row.who # work[k].who
    BY DEF Upsert, Unlocked, ClientsInv, Typed, Holds, Idle, Numbered
  <1>4. \A r \in rows : r \in Row /\ r.id < nextId
    BY DEF ClientsInv, Typed, Numbered
  <1>5. ASSUME NEW at \in {"attach", "commit"}, NEW row \in Row, Hold(k, at, row),
               row.who = work[k].who, row.id < nextId + 1, Older(row),
               row \in rows \/ \A r \in rows : r.who # row.who /\ r.id # row.id,
               at = "attach" => row.id = nextId /\ row \notin rows,
               row.id # nextId => row \in rows
        PROVE  ClientsInv'
    <2> DEFINE w == [at |-> at, who |-> work[k].who, door |-> work[k].door,
                     code |-> work[k].code, row |-> row]
    <2>1. /\ w \in [at : {"attach", "commit"}, who : People, door : Doors, code : Nat, row : Row]
          /\ w.code = work[k].code /\ w.row = row /\ w.at = at
      BY <1>1
    <2>2. work' = [work EXCEPT ![k] = w]
      BY <1>5 DEF Hold, Goto
    <2>3. at = "attach" => \A r \in rows : r.id = w.code => r.id < row.id
      BY <1>4, <1>5
    <2>4. \A j \in Requests : Holds(j) => work[j].row.who # row.who /\ work[j].row.id # row.id
      <3> SUFFICES ASSUME NEW j \in Requests, Holds(j), work[j].row.id = row.id
                   PROVE  FALSE
        BY <1>3, <1>5
      <3>1. row \in rows
        BY <1>2, <1>3, <1>5 DEF Row
      <3>2. work[j].row \in rows
        BY <3>1 DEF ClientsInv, HeldFits
      <3>3. work[j].row = row
        BY <3>1, <3>2 DEF ClientsInv, OneRowEach
      <3> QED
        BY <1>3, <1>5, <3>3
    <2> HIDE DEF w
    <2>5. nextId' \in Nat /\ nextId <= nextId' /\ w.row.id < nextId'
      BY <1>2, <1>5, <2>1
    <2>6. (w.code # NoClient => Stored(w.code)) /\ Older(w.row)
      BY <1>1, <1>5, <2>1
    <2>7. w.row \in rows \/ \A r \in rows : r.who # w.row.who /\ r.id # w.row.id
      BY <1>5, <2>1
    <2>8. w.at = "attach" => w.row \notin rows /\ \A r \in rows : r.id = w.code => r.id < w.row.id
      BY <1>5, <2>1, <2>3
    <2>9. \A j \in Requests : j # k /\ Holds(j) =>
              work[j].row.who # w.row.who /\ work[j].row.id # w.row.id
      BY <2>1, <2>4
    <2> QED
      BY <1>2, <2>1, <2>2, <2>5, <2>6, <2>7, <2>8, <2>9, StepWithRow
  <1>6. CASE Create(k)
    <2>1. New(k) \in Row /\ New(k).id = nextId /\ New(k).who = work[k].who /\ New(k).ref = NoClient
      BY <1>1, <1>2 DEF New, Row, NoClient
    <2>2. \A r \in rows : r.who # New(k).who /\ r.id # New(k).id
      BY <1>2, <1>4, <1>6, <2>1 DEF Create, RowsOf, Row
    <2>3. Older(New(k)) /\ New(k) \notin rows /\ New(k).id < nextId + 1
      BY <1>2, <2>1, <2>2 DEF Older
    <2>4. PICK at \in {"attach", "commit"} : Hold(k, at, New(k))
      BY <1>6 DEF Create
    <2> QED
      BY <1>5, <2>1, <2>2, <2>3, <2>4
  <1>7. CASE \E r \in RowsOf(work[k].who) : Hold(k, "commit", r)
    <2>1. PICK r \in RowsOf(work[k].who) : Hold(k, "commit", r)
      BY <1>7
    <2>2. r \in rows /\ r \in Row /\ r.who = work[k].who /\ r.id < nextId + 1
      BY <1>2, <1>4, <2>1 DEF RowsOf, Row
    <2>3. Older(r)
      BY <2>2 DEF ClientsInv, ReferrersAreOlder, Older, Stored
    <2> QED
      BY <1>5, <2>1, <2>2, <2>3
  <1> QED
    BY <1>6, <1>7 DEF Upsert

\* What a request is while it holds a row.
LEMMA WithRow ==
    ASSUME ClientsInv, NEW k \in Requests, Holds(k)
    PROVE  /\ work[k] \in [at : {"attach", "commit"}, who : People, door : Doors, code : Nat,
                           row : Row]
           /\ work[k] # Idle
  BY DEF ClientsInv, Typed, Holds, Idle

\* The inviter is attached to a row that is not stored yet.
LEMMA AttachStep ==
    ASSUME ClientsInv, NEW k \in Requests, Attach(k)
    PROVE  ClientsInv'
  <1> DEFINE old == work[k].row
             row == IF old.ref = NoClient /\ work[k].code # old.id /\ Stored(work[k].code)
                    THEN [old EXCEPT !.ref = work[k].code] ELSE old
             w == [at |-> "commit", who |-> work[k].who, door |-> work[k].door,
                   code |-> work[k].code, row |-> row]
  <1>1. Holds(k) /\ work[k].at = "attach"
    BY DEF Attach, Holds
  <1>2. /\ work[k] \in [at : {"attach", "commit"}, who : People, door : Doors, code : Nat, row : Row]
        /\ work[k] # Idle /\ old \in Row
    BY <1>1, WithRow
  <1>3. row \in Row /\ row.id = old.id /\ row.who = old.who
    BY <1>2 DEF Row
  <1>4. Older(row)
    <2>1. Older(old) /\ \A r \in rows : r.id = work[k].code => r.id < old.id
      BY <1>1 DEF ClientsInv, HeldFits
    <2> QED
      BY <1>2, <1>3, <2>1 DEF Older, Stored, Row
  <1>5. \A r \in rows : r.who # row.who /\ r.id # row.id
    BY <1>1, <1>3 DEF ClientsInv, HeldFits
  <1>6. \A j \in Requests : j # k /\ Holds(j) => work[j].row.who # row.who /\ work[j].row.id # row.id
    BY <1>1, <1>3 DEF ClientsInv, OneHolder
  <1>7. work' = [work EXCEPT ![k] = w] /\ UNCHANGED <<rows, nextId>>
    BY DEF Attach, Hold, Goto, Stored
  <1>8. row.id < nextId /\ nextId \in Nat
    BY <1>1, <1>3 DEF ClientsInv, Numbered, Typed
  <1>9. work[k].code # NoClient => Stored(work[k].code)
    BY <1>2 DEF ClientsInv, Carried
  <1> HIDE DEF row, old
  <1>10. /\ w \in [at : {"attach", "commit"}, who : People, door : Doors, code : Nat, row : Row]
         /\ w.code = work[k].code /\ w.row = row /\ w.at = "commit"
    BY <1>2, <1>3
  <1> HIDE DEF w
  <1>11. (w.code # NoClient => Stored(w.code)) /\ Older(w.row) /\ w.row.id < nextId'
    BY <1>4, <1>7, <1>8, <1>9, <1>10
  <1>12. \A r \in rows : r.who # w.row.who /\ r.id # w.row.id
    BY <1>5, <1>10
  <1>13. \A j \in Requests : j # k /\ Holds(j) =>
             work[j].row.who # w.row.who /\ work[j].row.id # w.row.id
    BY <1>6, <1>10
  <1>14. nextId' \in Nat /\ nextId <= nextId' /\ w.at # "attach"
    BY <1>7, <1>8, <1>10
  <1> QED
    BY <1>7, <1>10, <1>11, <1>12, <1>13, <1>14, StepWithRow

\* A commit adds the held row, or leaves the rows as they are.
LEMMA CommitAdds ==
    ASSUME ClientsInv, NEW k \in Requests, Commit(k)
    PROVE  rows' = rows \cup {work[k].row}
  <1>1. Holds(k)
    BY DEF Commit, Holds
  <1>2. \A r \in rows : r.id = work[k].row.id => r = work[k].row
    BY <1>1 DEF ClientsInv, HeldFits, OneRowEach
  <1> QED
    BY <1>2 DEF Commit

\* A commit keeps the invariant.
LEMMA CommitRowStep ==
    ASSUME ClientsInv, NEW k \in Requests, Commit(k)
    PROVE  ClientsInv'
  <1>1. rows' = rows \cup {work[k].row} /\ work' = [work EXCEPT ![k] = Idle] /\ UNCHANGED nextId
    BY CommitAdds DEF Commit, Goto
  <1>2. Holds(k) /\ work[k].row \in Row
    BY WithRow DEF Commit, Holds
  <1>3. /\ ~Holds(k)' /\ work'[k] = Idle
        /\ \A j \in Requests \ {k} : work'[j] = work[j] /\ (Holds(j)' <=> Holds(j))
    BY <1>1 DEF ClientsInv, Typed, Holds, Idle
  <1>4. \A id : Stored(id) => Stored(id)'
    BY <1>1 DEF Stored
  <1>5. Typed'
    BY <1>1, <1>2 DEF ClientsInv, Typed
  <1>6. Carried'
    BY <1>3, <1>4 DEF ClientsInv, Carried
  <1>7. Numbered' /\ OneHolder'
    BY <1>1, <1>2, <1>3 DEF ClientsInv, Numbered, OneHolder
  <1>8. HeldFits'
    <2> SUFFICES ASSUME NEW j \in Requests, Holds(j)'
                 PROVE  /\ Older(work[j].row)'
                        /\ \/ work[j].row \in rows'
                           \/ \A r \in rows' : r.who # work[j].row.who /\ r.id # work[j].row.id
                        /\ work[j].at = "attach" =>
                             /\ work[j].row \notin rows'
                             /\ \A r \in rows' : r.id = work[j].code => r.id < work[j].row.id
      BY <1>3 DEF HeldFits, Older
    <2>1. j # k /\ Holds(j) /\ work'[j] = work[j]
      BY <1>3
    <2>2. work[j].row.who # work[k].row.who /\ work[j].row.id # work[k].row.id
      BY <1>2, <2>1 DEF ClientsInv, OneHolder
    <2>3. Older(work[j].row)'
      BY <1>4, <2>1 DEF ClientsInv, HeldFits, Older
    <2>4. work[j].row \in rows'
          \/ \A r \in rows' : r.who # work[j].row.who /\ r.id # work[j].row.id
      BY <1>1, <2>1, <2>2 DEF ClientsInv, HeldFits
    <2>5. ASSUME work[j].at = "attach"
          PROVE  /\ work[j].row \notin rows'
                 /\ \A r \in rows' : r.id = work[j].code => r.id < work[j].row.id
      <3>1. work[j].code # NoClient => Stored(work[j].code)
        BY <2>1, <2>5 DEF ClientsInv, Carried, Idle
      <3>2. work[k].row.id = work[j].code => work[j].row.id > work[k].row.id
        <4> SUFFICES ASSUME work[k].row.id = work[j].code PROVE work[j].row.id > work[k].row.id
          OBVIOUS
        <4>1. PICK s \in rows : s.id = work[j].code
          BY <1>2, <3>1 DEF Stored, Row, NoClient
        <4>2. s.id < work[j].row.id /\ s.id \in Nat /\ work[j].row.id \in Nat
          BY <2>1, <2>5, <4>1, WithRow DEF ClientsInv, HeldFits, Typed, Row
        <4> QED
          BY <4>1, <4>2
      <3> QED
        BY <1>1, <2>1, <2>2, <2>5, <3>2 DEF ClientsInv, HeldFits
    <2> QED
      BY <2>3, <2>4, <2>5
  <1>9. OneRowEach'
    BY <1>1, <1>2 DEF ClientsInv, OneRowEach, HeldFits
  <1>10. ReferrersAreOlder'
    BY <1>1, <1>2, <1>4 DEF ClientsInv, ReferrersAreOlder, HeldFits, Older, Stored
  <1> QED
    BY <1>5, <1>6, <1>7, <1>8, <1>9, <1>10 DEF ClientsInv

----------------------------------------------------------------------------
\* ClientsInv holds in every reachable state.
THEOREM ClientsInvariance == ClientsSpec => []ClientsInv
  <1>1. ClientsInv /\ [ClientsNext]_clientsVars => ClientsInv'
    <2>1. ASSUME ClientsInv, ClientsNext PROVE ClientsInv'
      BY <2>1, AskStep, FindStep, UpsertStep, AttachStep, CommitRowStep, LoseStep DEF ClientsNext
    <2>2. ASSUME ClientsInv, UNCHANGED clientsVars PROVE ClientsInv'
      BY <2>2 DEF clientsVars, ClientsInv, Typed, Carried, Numbered, HeldFits, Older, Stored,
                  OneHolder, Holds, OneRowEach, ReferrersAreOlder
    <2> QED
      BY <2>1, <2>2
  <1> QED
    BY InitClientsInv, <1>1, PTL DEF ClientsSpec

\* First requests of one person make one client, and who invited is an older one: whatever
\* the people, the requests at a time and the order of their steps.
THEOREM NoRings == ClientsSpec => [](OneRowEach /\ ReferrersAreOlder)
  <1>1. ClientsInv => OneRowEach /\ ReferrersAreOlder
    BY DEF ClientsInv
  <1> QED
    BY ClientsInvariance, <1>1, PTL

\* No operation removes a client or changes who invited him.
THEOREM InviterIsKept == ClientsSpec => ReferrerIsKept
  <1>1. ClientsInv /\ [ClientsNext]_clientsVars => [rows \subseteq rows']_clientsVars
    <2> SUFFICES ASSUME ClientsInv, ClientsNext PROVE rows \subseteq rows'
      OBVIOUS
    <2>1. ASSUME NEW k \in Requests, Commit(k) PROVE rows \subseteq rows'
      BY <2>1, CommitAdds
    <2> QED
      BY <2>1 DEF ClientsNext, Ask, Find, Upsert, Attach, Lose
  <1> QED
    BY ClientsInvariance, <1>1, PTL DEF ClientsSpec, ReferrerIsKept

\* The clients are a forest that only grows: no step of any request closes a ring of referrals,
\* makes a second row for a person or changes a row that was committed.
THEOREM ForestGrows == ClientsSpec => ReferralForest
  BY NoRings, InviterIsKept, PTL DEF ReferralForest

----------------------------------------------------------------------------
\* Referrals.
\* Theorems about Referrals, for any friends, tiers, cap and days: that
\* the monthly cap holds, that the days the inviter's subscription got are
\* those his journal calls applied, that every tier he reached was granted
\* once, and that no days of his wait for a subscription that is there.

Payment == [friend : Friends, processed : BOOLEAN, refunded : BOOLEAN]
Entry == [kind : {"base", "tier"}, payment : Nat, friend : Friends, tier : Nat, days : Nat,
          status : {"applied", "pending", "capped"}]
Task == [at : {"none", "due", "lock", "commit", "done"}, entries : Seq(Entry)]

\* The types, in parts.
TypesPaid == payments \in Seq(Payment) /\ task \in Seq(Task) /\ Len(task) = Len(payments)
TypesJournal == journal \in Seq(Entry) /\ recent \in Nat /\ given \in Nat
TypesInviter ==
    /\ inviter \in [has : BOOLEAN, blocked : BOOLEAN] /\ everBlocked \in BOOLEAN
    /\ locker \in 0 .. Len(payments) /\ renewals \in Nat
Types == TypesPaid /\ TypesJournal /\ TypesInviter

----------------------------------------------------------------------------
\* The base rewards of a journal, those of the window that the cap counts, and the rewards
\* of a tier.
BaseIn(j) == {i \in DOMAIN j : j[i].kind = "base"}
Counting(j, r) == {i \in BaseIn(j) : i >= r /\ j[i].status # "capped"}
OfTier(j, t) == {i \in DOMAIN j : j[i].tier = t}
PendingIn(j) == {i \in DOMAIN j : j[i].status = "pending" /\ j[i].days > 0}
AppliedIn(j) == {i \in DOMAIN j : j[i].status = "applied"}
DaysOf(j) == [i \in DOMAIN j |-> j[i].days]

\* The handler that has locked the inviter is the one that is to commit, and only a payment
\* that was processed has a handler.
LockIsHeld ==
    \A p \in Ids : /\ task[p].at = "commit" <=> locker = p
                   /\ task[p].at # "none" => payments[p].processed

\* What the handler is to commit fits a journal j with Cardinality(BaseIn(j)) = n, when the
\* inviter can be given days (open) and the cap is reached (capped).
Fits(e, n, open, capped) ==
    LET standing == IF open THEN "applied" ELSE "pending"
    IN  /\ Len(e) = IF n + 1 \in Tiers THEN 2 ELSE 1
        /\ e[1].kind = "base" /\ e[1].tier = 0
        /\ \/ e[1].status = "capped" /\ e[1].days = 0
           \/ e[1].status = standing /\ ~capped
        /\ Len(e) = 2 => /\ e[2].kind = "tier" /\ e[2].tier = n + 1
                         /\ \/ e[2].status = standing
                            \/ e[2].status = "applied" /\ e[2].days = 0
CommitFits ==
    \A p \in Ids : task[p].at = "commit" => Fits(task[p].entries, Cardinality(Base), Open, Capped)

\* What a handler is to pay out is pending, all of it unless the inviter was blocked; the
\* handler is one of an activation or a renewal, which there is none of without a subscription.
PayOutIsSound ==
    /\ applying \subseteq Pending
    /\ applying # {} => renewals > 0 /\ (everBlocked \/ applying = Pending)
    /\ renewals > 0 => inviter.has
    /\ inviter.blocked => everBlocked

\* The cap, the days given g and the tiers, of a journal j whose window begins at r.
JournalAddsUp(j, r, g) ==
    /\ Cardinality(Counting(j, r)) <= Cap
    /\ g = Sum(DaysOf(j), AppliedIn(j))
    /\ \A t \in Tiers : Cardinality(OfTier(j, t)) = (IF Cardinality(BaseIn(j)) >= t THEN 1 ELSE 0)

RewardsInv ==
    /\ Types /\ LockIsHeld /\ CommitFits /\ PayOutIsSound
    /\ JournalAddsUp(journal, recent, given) /\ PendingIsAwaited

----------------------------------------------------------------------------
\* Sequences of entries.

\* The elements of a sequence are at 1 .. Len, and of its set.
LEMMA SeqIs ==
    ASSUME NEW S, NEW q \in Seq(S)
    PROVE  /\ Len(q) \in Nat /\ DOMAIN q = 1 .. Len(q)
           /\ \A i \in 1 .. Len(q) : q[i] \in S
           /\ \A W \in SUBSET DOMAIN q : IsFiniteSet(W)
<1>1. Len(q) \in Nat /\ q \in [1 .. Len(q) -> S] /\ DOMAIN q = 1 .. Len(q)
    BY LenProperties
<1>2. IsFiniteSet(1 .. Len(q))
    BY <1>1, FS_Interval
<1>3. \A W \in SUBSET DOMAIN q : IsFiniteSet(W)
    BY <1>1, <1>2, FS_Subset
<1>4. QED
    BY <1>1, <1>3

\* The days of the entries are numbers.
LEMMA DaysType ==
    ASSUME NEW j \in Seq(Entry), NEW i \in DOMAIN j
    PROVE  DaysOf(j)[i] = j[i].days /\ DaysOf(j)[i] \in Nat
<1>1. j[i] \in Entry
    BY SeqIs
<1>2. j[i].days \in Nat
    BY <1>1 DEF Entry
<1>3. QED
    BY <1>2 DEF DaysOf

\* The days of some of the entries of a journal are a sum of Sums.
LEMMA DaysAre ==
    ASSUME NEW j \in Seq(Entry), NEW S, S \subseteq DOMAIN j
    PROVE  MapThenSumSet(LAMBDA i : j[i].days, S) = Sum(DaysOf(j), S)
<1> DEFINE g == DaysOf(j)
           Good(h) == h = [s \in SUBSET S |->
                             IF s = {} THEN 0
                             ELSE j[CHOOSE x \in s : TRUE].days + h[s \ {CHOOSE x \in s : TRUE}]]
<1>1. MapThenSumSet(LAMBDA i : j[i].days, S) = (CHOOSE h : Good(h))[S]
    BY DEF MapThenSumSet, MapThenFoldSet
<1>2. ASSUME NEW s \in SUBSET S, s # {}
      PROVE  g[Some(s)] = j[CHOOSE x \in s : TRUE].days
  <2>1. Some(s) \in DOMAIN j
    BY <1>2, SomeIsIn
  <2>2. g[Some(s)] = j[Some(s)].days
    BY <2>1 DEF DaysOf
  <2>3. QED
    BY <2>2 DEF Some
<1>3. IsFiniteSet(S)
    BY SeqIs
<1> HIDE DEF g
<1>4. ASSUME NEW h PROVE Good(h) <=> Sums(h, g, S)
  <2>1. [s \in SUBSET S |-> IF s = {} THEN 0
                            ELSE j[CHOOSE x \in s : TRUE].days + h[s \ {CHOOSE x \in s : TRUE}]]
        = [s \in SUBSET S |-> IF s = {} THEN 0 ELSE g[Some(s)] + h[s \ {Some(s)}]]
    BY <1>2 DEF Some
  <2>2. QED
    BY <2>1 DEF Sums
<1> HIDE DEF Good
<1>5. \E h : Sums(h, g, S)
    BY <1>3, SumsExist
<1>6. Good(CHOOSE h : Good(h))
    BY <1>4, <1>5
<1>7. Sums(CHOOSE h : Good(h), g, S)
    BY <1>4, <1>6
<1>8. (CHOOSE h : Good(h))[S] = Sum(g, S)
    BY <1>3, <1>7, SumIs
<1>9. QED
    BY <1>1, <1>8 DEF g

\* The properties in these terms.
LEMMA JournalAddsUpIs ==
    ASSUME journal \in Seq(Entry), JournalAddsUp(journal, recent, given)
    PROVE  CapHolds /\ DaysMatchJournal /\ TiersAreGranted
<1>1. AppliedIn(journal) \subseteq DOMAIN journal
    BY DEF AppliedIn
<1>2. MapThenSumSet(LAMBDA i : journal[i].days, AppliedIn(journal))
        = Sum(DaysOf(journal), AppliedIn(journal))
    BY <1>1, DaysAre
<1>3. DaysMatchJournal
    BY <1>2 DEF JournalAddsUp, DaysMatchJournal, Days, AppliedIn
<1>4. CapHolds /\ TiersAreGranted
    BY DEF JournalAddsUp, CapHolds, TiersAreGranted, Base, BaseIn, Counting, OfTier
<1>5. QED
    BY <1>3, <1>4

----------------------------------------------------------------------------
\* What a commit does to the journal.

\* A handler writes its entries behind the others.
Written(k, j, e) ==
    /\ k \in Seq(Entry) /\ DOMAIN k = 1 .. Len(j) + Len(e)
    /\ \A i \in 1 .. Len(j) : k[i] = j[i]
    /\ k[Len(j) + 1] = e[1] /\ (Len(e) = 2 => k[Len(j) + 2] = e[2])

LEMMA Writes ==
    ASSUME NEW j \in Seq(Entry), NEW e \in Seq(Entry), Len(e) \in {1, 2}
    PROVE  Written(j \o e, j, e)
<1> DEFINE k == j \o e
           n == Len(j)
<1>1. /\ k \in Seq(Entry) /\ Len(k) = n + Len(e)
      /\ \A i \in 1 .. n + Len(e) : k[i] = IF i <= n THEN j[i] ELSE e[i - n]
    BY ConcatProperties
<1>2. n \in Nat
    BY SeqIs
<1> HIDE DEF k, n
<1>3. DOMAIN k = 1 .. n + Len(e)
    BY <1>1, SeqIs
<1>4. n + 1 \in 1 .. n + Len(e) /\ ~(n + 1 <= n) /\ n + 1 - n = 1
  <2>1. \A l \in {1, 2} : n + 1 \in 1 .. n + l /\ ~(n + 1 <= n) /\ n + 1 - n = 1
    BY <1>2
  <2>2. QED
    BY <2>1
<1>5. Len(e) = 2 => n + 2 \in 1 .. n + Len(e) /\ ~(n + 2 <= n) /\ n + 2 - n = 2
  <2>1. n + 2 \in 1 .. n + 2 /\ ~(n + 2 <= n) /\ n + 2 - n = 2
    BY <1>2
  <2>2. QED
    BY <2>1
<1>6. \A i \in 1 .. n : k[i] = j[i]
    BY <1>1, <1>2
<1>7. k[n + 1] = e[n + 1 - n] /\ (Len(e) = 2 => k[n + 2] = e[n + 2 - n])
  <2>1. k[n + 1] = IF n + 1 <= n THEN j[n + 1] ELSE e[n + 1 - n]
    BY <1>1, <1>2, <1>4
  <2>2. Len(e) = 2 => k[n + 2] = IF n + 2 <= n THEN j[n + 2] ELSE e[n + 2 - n]
    BY <1>1, <1>2, <1>5
  <2>3. QED
    BY <1>4, <1>5, <2>1, <2>2
<1>8. k[n + 1] = e[1] /\ (Len(e) = 2 => k[n + 2] = e[2])
    BY <1>4, <1>5, <1>7
<1>9. QED
    BY <1>1, <1>3, <1>6, <1>8 DEF Written, k, n

\* They are at x and, when there are two, y; the others are where they were.
Laid(k, j, e, x, y) ==
    /\ k \in Seq(Entry) /\ DOMAIN k = DOMAIN j \cup (IF Len(e) = 2 THEN {x, y} ELSE {x})
    /\ x \notin DOMAIN j /\ y \notin DOMAIN j /\ x # y
    /\ \A i \in DOMAIN j : k[i] = j[i]
    /\ k[x] = e[1] /\ (Len(e) = 2 => k[y] = e[2])

LEMMA PlacesLaid ==
    ASSUME NEW j \in Seq(Entry), NEW e, NEW k, Len(e) \in {1, 2}, Written(k, j, e)
    PROVE  Laid(k, j, e, Len(j) + 1, Len(j) + 2)
<1>1. Len(j) \in Nat /\ DOMAIN j = 1 .. Len(j)
    BY SeqIs
<1> DEFINE n == Len(j)
<1>2. /\ k \in Seq(Entry) /\ DOMAIN k = 1 .. n + Len(e) /\ \A i \in 1 .. n : k[i] = j[i]
      /\ k[n + 1] = e[1] /\ (Len(e) = 2 => k[n + 2] = e[2])
    BY DEF Written
<1> DEFINE x == n + 1
           y == n + 2
<1>3. n \in Nat /\ x = n + 1 /\ y = n + 2
    BY <1>1
<1>4. DOMAIN j = 1 .. n
    BY <1>1
<1> HIDE DEF n, x, y
<1>5. 1 .. n + 1 = (1 .. n) \cup {x} /\ 1 .. n + 2 = (1 .. n) \cup {x, y}
    BY <1>3
<1>6. DOMAIN k = DOMAIN j \cup (IF Len(e) = 2 THEN {x, y} ELSE {x})
  <2>1. CASE Len(e) = 1
    BY <1>2, <1>4, <1>5, <2>1
  <2>2. CASE Len(e) = 2
    BY <1>2, <1>4, <1>5, <2>2
  <2>3. QED
    BY <2>1, <2>2
<1>7. x \notin 1 .. n /\ y \notin 1 .. n /\ x # y
    BY <1>3
<1>8. k[x] = e[1] /\ (Len(e) = 2 => k[y] = e[2])
    BY <1>2, <1>3
<1>9. QED
    BY <1>2, <1>4, <1>6, <1>7, <1>8 DEF Laid, n, x, y

\* One more base reward; the cap counts it only if it was not reached.
LEMMA BaseGrows ==
    ASSUME NEW j \in Seq(Entry), NEW e \in Seq(Entry), NEW k, NEW n \in Nat, NEW open,
           NEW capped \in BOOLEAN, Fits(e, n, open, capped), Written(k, j, e)
    PROVE  /\ Cardinality(BaseIn(k)) = Cardinality(BaseIn(j)) + 1
           /\ \A r \in Nat : \/ Cardinality(Counting(k, r)) = Cardinality(Counting(j, r))
                             \/ /\ ~capped
                                /\ Cardinality(Counting(k, r)) = Cardinality(Counting(j, r)) + 1
<1> DEFINE x == Len(j) + 1
           y == Len(j) + 2
<1>2. /\ Len(e) \in {1, 2} /\ e[1].kind = "base" /\ (Len(e) = 2 => e[2].kind = "tier")
      /\ e[1].status = "capped" \/ ~capped
    BY DEF Fits
<1>3. /\ DOMAIN k = DOMAIN j \cup (IF Len(e) = 2 THEN {x, y} ELSE {x})
      /\ x \notin DOMAIN j /\ \A i \in DOMAIN j : k[i] = j[i]
      /\ k[x] = e[1] /\ (Len(e) = 2 => k[y] = e[2])
  <2>1. Laid(k, j, e, x, y)
    BY <1>2, PlacesLaid
  <2> HIDE DEF x, y
  <2>2. QED
    BY <2>1 DEF Laid
<1> HIDE DEF x, y
<1>6. BaseIn(k) = BaseIn(j) \cup {x}
  <2>1. ASSUME NEW i PROVE i \in BaseIn(k) <=> i \in BaseIn(j) \cup {x}
    BY <1>2, <1>3 DEF BaseIn
  <2>2. QED
    BY <2>1
<1>7. IsFiniteSet(BaseIn(j)) /\ x \notin BaseIn(j)
    BY <1>3, SeqIs DEF BaseIn
<1>8. Cardinality(BaseIn(k)) = Cardinality(BaseIn(j)) + 1
    BY <1>6, <1>7, FS_AddElement
<1>9. ASSUME NEW r \in Nat
      PROVE  \/ Cardinality(Counting(k, r)) = Cardinality(Counting(j, r))
             \/ ~capped /\ Cardinality(Counting(k, r)) = Cardinality(Counting(j, r)) + 1
  <2>1. \A i \in BaseIn(j) : k[i] = j[i]
    BY <1>3 DEF BaseIn
  <2>2. IsFiniteSet(Counting(j, r)) /\ x \notin Counting(j, r)
    BY <1>7, FS_Subset DEF Counting
  <2>3. CASE x >= r /\ e[1].status # "capped"
    <3>1. Counting(k, r) = Counting(j, r) \cup {x}
      BY <1>3, <1>6, <2>1, <2>3 DEF Counting
    <3>2. QED
      BY <1>2, <2>2, <2>3, <3>1, FS_AddElement
  <2>4. CASE ~(x >= r /\ e[1].status # "capped")
    <3>1. Counting(k, r) = Counting(j, r)
      BY <1>3, <1>6, <1>7, <2>1, <2>4 DEF Counting
    <3>2. QED
      BY <3>1
  <2>5. QED
    BY <2>3, <2>4
<1>10. QED
    BY <1>8, <1>9

\* A tier is rewarded when the base rewards come to amount to it, and only then.
LEMMA TierGrows ==
    ASSUME NEW j \in Seq(Entry), NEW e \in Seq(Entry), NEW k, NEW n \in Nat, NEW open,
           NEW capped, Fits(e, n, open, capped), Written(k, j, e), NEW t \in Tiers, t # 0
    PROVE  Cardinality(OfTier(k, t))
             = Cardinality(OfTier(j, t)) + (IF t = n + 1 THEN 1 ELSE 0)
<1> DEFINE x == Len(j) + 1
           y == Len(j) + 2
<1>2. /\ Len(e) \in {1, 2} /\ e[1].tier = 0 /\ (Len(e) = 2 <=> n + 1 \in Tiers)
      /\ Len(e) = 2 => e[2].tier = n + 1
    BY DEF Fits
<1>3. /\ DOMAIN k = DOMAIN j \cup (IF Len(e) = 2 THEN {x, y} ELSE {x})
      /\ y \notin DOMAIN j /\ \A i \in DOMAIN j : k[i] = j[i]
      /\ k[x] = e[1] /\ (Len(e) = 2 => k[y] = e[2]) /\ x # y
  <2>1. Laid(k, j, e, x, y)
    BY <1>2, PlacesLaid
  <2> HIDE DEF x, y
  <2>2. QED
    BY <2>1 DEF Laid
<1> HIDE DEF x, y
<1>6. IsFiniteSet(OfTier(j, t)) /\ y \notin OfTier(j, t) /\ Cardinality(OfTier(j, t)) \in Nat
    BY <1>3, SeqIs, FS_CardinalityType DEF OfTier
<1>7. CASE t = n + 1
  <2>1. OfTier(k, t) = OfTier(j, t) \cup {y}
    BY <1>2, <1>3, <1>7 DEF OfTier
  <2>2. QED
    BY <1>6, <1>7, <2>1, FS_AddElement
<1>8. CASE t # n + 1
  <2>1. OfTier(k, t) = OfTier(j, t)
    BY <1>2, <1>3, <1>8 DEF OfTier
  <2>2. QED
    BY <1>6, <1>8, <2>1
<1>9. QED
    BY <1>7, <1>8

\* Nothing stops waiting, and nothing begins to wait while days can be given.
LEMMA PendingGrows ==
    ASSUME NEW j \in Seq(Entry), NEW e \in Seq(Entry), NEW k, NEW n \in Nat, NEW open \in BOOLEAN,
           NEW capped, Fits(e, n, open, capped), Written(k, j, e)
    PROVE  PendingIn(j) \subseteq PendingIn(k) /\ (open => PendingIn(k) = PendingIn(j))
<1> DEFINE x == Len(j) + 1
           y == Len(j) + 2
<1>2. /\ Len(e) \in {1, 2}
      /\ open => e[1].status # "pending" /\ (Len(e) = 2 => e[2].status # "pending")
    BY DEF Fits
<1>3. /\ DOMAIN k = DOMAIN j \cup (IF Len(e) = 2 THEN {x, y} ELSE {x})
      /\ \A i \in DOMAIN j : k[i] = j[i]
      /\ k[x] = e[1] /\ (Len(e) = 2 => k[y] = e[2])
  <2>1. Laid(k, j, e, x, y)
    BY <1>2, PlacesLaid
  <2> HIDE DEF x, y
  <2>2. QED
    BY <2>1 DEF Laid
<1> HIDE DEF x, y
<1>4. QED
    BY <1>2, <1>3 DEF PendingIn

\* The days that the journal calls applied grow by those that the handler gives.
LEMMA AppliedGrows ==
    ASSUME NEW j \in Seq(Entry), NEW e \in Seq(Entry), NEW k, NEW n \in Nat, NEW open \in BOOLEAN,
           NEW capped, Fits(e, n, open, capped), Written(k, j, e)
    PROVE  /\ Sum(DaysOf(j), AppliedIn(j)) \in Nat /\ Sum(DaysOf(e), DOMAIN e) \in Nat
           /\ Sum(DaysOf(k), AppliedIn(k))
                = Sum(DaysOf(j), AppliedIn(j)) + (IF open THEN Sum(DaysOf(e), DOMAIN e) ELSE 0)
<1> DEFINE x == Len(j) + 1
           y == Len(j) + 2
           Add == AppliedIn(k) \ DOMAIN j
<1>2. /\ Len(e) \in {1, 2} /\ DOMAIN e = 1 .. Len(e)
      /\ open => /\ e[1].status \in {"applied", "capped"}
                 /\ e[1].status = "capped" => e[1].days = 0
                 /\ Len(e) = 2 => e[2].status = "applied"
      /\ ~open => /\ e[1].status # "applied"
                  /\ Len(e) = 2 /\ e[2].status = "applied" => e[2].days = 0
    BY SeqIs DEF Fits
<1>0. Laid(k, j, e, x, y)
  <2>1. Len(e) \in {1, 2}
    BY <1>2
  <2> HIDE DEF Add
  <2>2. QED
    BY <2>1, PlacesLaid
<1> HIDE DEF x, y
<1>1. x \notin DOMAIN j /\ y \notin DOMAIN j /\ x # y
    BY <1>0 DEF Laid
<1>3. /\ k \in Seq(Entry) /\ \A i \in DOMAIN j : k[i] = j[i]
      /\ k[x] = e[1] /\ (Len(e) = 2 => k[y] = e[2])
    BY <1>0 DEF Laid
<1>4. DOMAIN k = DOMAIN j \cup (IF Len(e) = 2 THEN {x, y} ELSE {x})
    BY <1>0 DEF Laid
<1>5. /\ \A i \in DOMAIN k : DaysOf(k)[i] = k[i].days /\ DaysOf(k)[i] \in Nat
      /\ \A i \in DOMAIN j : DaysOf(j)[i] = j[i].days /\ DaysOf(j)[i] \in Nat
      /\ \A i \in DOMAIN e : DaysOf(e)[i] = e[i].days /\ DaysOf(e)[i] \in Nat
    BY <1>3, DaysType
<1>6. AppliedIn(k) = AppliedIn(j) \cup Add /\ AppliedIn(j) \cap Add = {}
    BY <1>3, <1>4 DEF AppliedIn
<1>7. /\ IsFiniteSet(AppliedIn(j)) /\ IsFiniteSet(Add) /\ IsFiniteSet(DOMAIN e)
      /\ AppliedIn(j) \subseteq DOMAIN j /\ AppliedIn(k) \subseteq DOMAIN k /\ Add \subseteq DOMAIN k
    BY <1>3, SeqIs DEF AppliedIn
<1>8. Sum(DaysOf(j), AppliedIn(j)) \in Nat /\ Sum(DaysOf(e), DOMAIN e) \in Nat
    BY <1>5, <1>7, SumType
<1>9. Sum(DaysOf(k), AppliedIn(k)) = Sum(DaysOf(k), AppliedIn(j)) + Sum(DaysOf(k), Add)
  <2> HIDE DEF Add
  <2>1. \A i \in AppliedIn(j) \cup Add : DaysOf(k)[i] \in Nat
    BY <1>5, <1>6, <1>7
  <2>2. QED
    BY <1>6, <1>7, <2>1, SumUnion
<1>10. Sum(DaysOf(k), AppliedIn(j)) = Sum(DaysOf(j), AppliedIn(j))
  <2>1. \A i \in AppliedIn(j) : DaysOf(k)[i] = DaysOf(j)[i]
    BY <1>3, <1>4, <1>5, <1>7
  <2>2. QED
    BY <1>7, <2>1, SumSame
<1>11. Sum(DaysOf(k), Add) = IF open THEN Sum(DaysOf(e), DOMAIN e) ELSE 0
  <2>1. ASSUME NEW i \in Add PROVE (i = x \/ i = y) /\ k[i].status = "applied"
    BY <1>4, <1>7 DEF AppliedIn
  <2>2. \A i : i \in Add <=> \/ i = x /\ e[1].status = "applied"
                             \/ i = y /\ Len(e) = 2 /\ e[2].status = "applied"
    <3>1. \A i : i \in Add <=> i \in DOMAIN k \ DOMAIN j /\ k[i].status = "applied"
      BY DEF AppliedIn
    <3>2. \A i : i \in DOMAIN k \ DOMAIN j <=> i = x \/ (i = y /\ Len(e) = 2)
      BY <1>1, <1>4
    <3> HIDE DEF Add
    <3>3. QED
      BY <1>3, <3>1, <3>2
  <2>3. /\ DaysOf(k)[x] = e[1].days /\ e[1].days \in Nat
        /\ Len(e) = 2 => DaysOf(k)[y] = e[2].days /\ e[2].days \in Nat
        /\ DaysOf(e)[1] = e[1].days /\ (Len(e) = 2 => DaysOf(e)[2] = e[2].days)
    <3>1. 1 \in DOMAIN e /\ (Len(e) = 2 => 2 \in DOMAIN e)
      BY <1>2
    <3>2. DaysOf(e)[1] = e[1].days /\ e[1].days \in Nat
      BY <1>5, <3>1
    <3>3. Len(e) = 2 => DaysOf(e)[2] = e[2].days /\ e[2].days \in Nat
      BY <1>5, <3>1
    <3>4. x \in DOMAIN k /\ (Len(e) = 2 => y \in DOMAIN k)
      BY <1>4
    <3>5. DaysOf(k)[x] = k[x].days /\ (Len(e) = 2 => DaysOf(k)[y] = k[y].days)
      BY <1>5, <3>4
    <3>6. QED
      BY <1>3, <3>2, <3>3, <3>5
  <2> HIDE DEF Add
  <2>4. CASE ~open
    <3>1. \A i \in Add : DaysOf(k)[i] \in Nat /\ DaysOf(k)[i] = 0
      BY <1>2, <2>2, <2>3, <2>4
    <3>2. QED
      BY <1>7, <2>4, <3>1, SumType
  <2>5. CASE open /\ Len(e) = 1
    <3>1. DOMAIN e = {1}
      BY <1>2, <2>5
    <3>2. Sum(DaysOf(e), DOMAIN e) = e[1].days
      <4>1. Sum(DaysOf(e), {1}) = DaysOf(e)[1]
        BY <2>3, SumOne
      <4>2. QED
        BY <2>3, <3>1, <4>1
    <3>3. CASE e[1].status = "applied"
      <4>1. Add = {x}
        BY <2>2, <2>5, <3>3
      <4>2. QED
        BY <2>3, <2>5, <3>2, <4>1, SumOne
    <3>4. CASE e[1].status = "capped"
      <4>1. Add = {} /\ e[1].days = 0
        BY <1>2, <2>2, <2>5, <3>4
      <4>2. QED
        BY <1>7, <2>5, <3>2, <4>1, SumStep
    <3>5. QED
      BY <1>2, <2>5, <3>3, <3>4
  <2>6. CASE open /\ Len(e) = 2
    <3>1. DOMAIN e = {1, 2}
      BY <1>2, <2>6
    <3>2. Sum(DaysOf(e), DOMAIN e) = e[1].days + e[2].days
      <4>1. Sum(DaysOf(e), {1, 2}) = DaysOf(e)[1] + DaysOf(e)[2]
        <5>1. DaysOf(e)[1] \in Nat /\ DaysOf(e)[2] \in Nat /\ 1 # 2
          BY <2>3, <2>6
        <5>2. QED
          BY <5>1, SumTwo, Zenon
      <4>2. QED
        BY <2>3, <2>6, <3>1, <4>1
    <3>3. CASE e[1].status = "applied"
      <4>1. Add = {x, y}
        BY <1>2, <2>2, <2>6, <3>3
      <4>2. Sum(DaysOf(k), {x, y}) = DaysOf(k)[x] + DaysOf(k)[y]
        BY <1>1, <2>3, <2>6, SumTwo
      <4>3. QED
        BY <2>3, <2>6, <3>2, <4>1, <4>2
    <3>4. CASE e[1].status = "capped"
      <4>1. Add = {y} /\ e[1].days = 0
        BY <1>2, <2>2, <2>6, <3>4
      <4>2. Sum(DaysOf(k), {y}) = DaysOf(k)[y]
        BY <2>3, <2>6, SumOne
      <4>3. QED
        BY <2>3, <2>6, <3>2, <4>1, <4>2
    <3>5. QED
      BY <1>2, <2>6, <3>3, <3>4
  <2>7. QED
    BY <1>2, <2>4, <2>5, <2>6
<1>12. QED
    BY <1>8, <1>9, <1>10, <1>11

----------------------------------------------------------------------------
\* The handlers of payments.

Locks == TypesPaid /\ locker \in 0 .. Len(payments) /\ LockIsHeld

\* The steps of a handler.
LEMMA StepType ==
    ASSUME NEW at \in {"none", "due", "lock", "commit", "done"}
    PROVE  Step(at) \in Task /\ Step(at).at = at
    BY EmptySeq DEF Step, Task

\* Every step but the lock keeps the lock with the handler that is to commit, which writes
\* what it was to write.
LEMMA TasksStep ==
    ASSUME Locks,
           \/ \E f \in Friends : Record(f)
           \/ \E p \in Ids : Process(p) \/ Refund(p) \/ Check(p) \/ Retry(p) \/ Reward(p)
    PROVE  /\ Locks'
           /\ \A q \in Ids' : task'[q].at = "commit" => q \in Ids /\ task'[q] = task[q]
<1>1. /\ payments \in Seq(Payment) /\ task \in Seq(Task) /\ Len(task) = Len(payments)
      /\ locker \in 0 .. Len(payments)
      /\ Len(payments) \in Nat /\ Ids = 1 .. Len(payments) /\ DOMAIN task = Ids
    BY SeqIs DEF Locks, TypesPaid, Ids
<1>2. \A q \in Ids : /\ task[q].at = "commit" <=> locker = q
                     /\ task[q].at # "none" => payments[q].processed
    BY DEF Locks, LockIsHeld
<1>3. \A q \in Ids : payments[q] \in Payment /\ task[q] \in Task
    BY <1>1, SeqIs
<1>4. ASSUME NEW f \in Friends, Record(f)
      PROVE  /\ Locks'
             /\ \A q \in Ids' : task'[q].at = "commit" => q \in Ids /\ task'[q] = task[q]
  <2> DEFINE row == [friend |-> f, processed |-> FALSE, refunded |-> FALSE]
             n == Len(payments)
  <2>1. payments' = Append(payments, row) /\ task' = Append(task, Step("none")) /\ locker' = locker
    BY <1>4 DEF Record
  <2>2. row \in Payment /\ Step("none") \in Task
    BY StepType DEF Payment
  <2>3. /\ payments' \in Seq(Payment) /\ Len(payments') = n + 1
        /\ \A i \in 1 .. n : payments'[i] = payments[i]
    BY <1>1, <2>1, <2>2, AppendProperties
  <2>4. /\ task' \in Seq(Task) /\ Len(task') = n + 1
        /\ (\A i \in 1 .. n : task'[i] = task[i]) /\ task'[n + 1] = Step("none")
    <3> HIDE DEF row
    <3>1. Len(task) = n
      BY <1>1
    <3>2. QED
      BY <1>1, <2>1, <2>2, <3>1, AppendProperties
  <2> HIDE DEF n, row
  <2>5. n \in Nat /\ Ids = 1 .. n /\ Ids' = 1 .. n + 1 /\ locker \in 0 .. n
    BY <1>1, <2>3, SeqIs DEF n, Ids
  <2>6. ASSUME NEW q \in Ids'
        PROVE  \/ q \in Ids /\ task'[q] = task[q] /\ payments'[q] = payments[q]
               \/ q = n + 1 /\ task'[q].at = "none"
    <3>1. CASE q = n + 1
      BY <2>4, <3>1, StepType
    <3>2. CASE q # n + 1
      <4>1. q \in 1 .. n
        BY <2>5, <3>2
      <4>2. QED
        BY <2>3, <2>4, <2>5, <4>1
    <3>3. QED
      BY <3>1, <3>2
  <2>7. LockIsHeld'
    <3>1. ASSUME NEW q \in Ids'
          PROVE  /\ task'[q].at = "commit" <=> locker' = q
                 /\ task'[q].at # "none" => payments'[q].processed
      <4>1. CASE q \in Ids /\ task'[q] = task[q] /\ payments'[q] = payments[q]
        BY <1>2, <2>1, <4>1
      <4>2. CASE q = n + 1 /\ task'[q].at = "none"
        <5>1. locker' # q
          BY <2>1, <2>5, <4>2
        <5>2. QED
          BY <4>2, <5>1
      <4>3. QED
        BY <2>6, <4>1, <4>2
    <3>2. QED
      BY <3>1 DEF LockIsHeld
  <2>8. QED
    BY <2>1, <2>3, <2>4, <2>5, <2>6, <2>7 DEF Locks, TypesPaid
<1>5. ASSUME NEW p \in Ids, Process(p) \/ Refund(p) \/ Check(p) \/ Retry(p) \/ Reward(p)
      PROVE  /\ Locks'
             /\ \A q \in Ids' : task'[q].at = "commit" => q \in Ids /\ task'[q] = task[q]
  <2>1. /\ payments' \in Seq(Payment) /\ Len(payments') = Len(payments)
        /\ \A q \in Ids : payments[q].processed => payments'[q].processed
    <3>1. CASE Process(p)
      <4>1. payments' = [payments EXCEPT ![p] = [payments[p] EXCEPT !.processed = TRUE]]
        BY <1>1, <3>1 DEF Process
      <4>2. [payments[p] EXCEPT !.processed = TRUE] \in Payment
        BY <1>3 DEF Payment
      <4>3. QED
        BY <1>1, <1>3, <4>1, <4>2, ExceptSeq DEF Payment
    <3>2. CASE Refund(p)
      <4>1. payments' = [payments EXCEPT ![p] = [payments[p] EXCEPT !.refunded = TRUE]]
        BY <1>1, <3>2 DEF Refund
      <4>2. [payments[p] EXCEPT !.refunded = TRUE] \in Payment
        BY <1>3 DEF Payment
      <4>3. QED
        BY <1>1, <1>3, <4>1, <4>2, ExceptSeq DEF Payment
    <3>3. CASE Check(p) \/ Retry(p) \/ Reward(p)
      BY <1>1, <3>3 DEF Check, Retry, Reward
    <3>4. QED
      BY <1>5, <3>1, <3>2, <3>3
  <2>2. \/ task' = task /\ locker' = locker
        \/ /\ \E at \in {"due", "lock", "done"} : task' = [task EXCEPT ![p] = Step(at)]
           /\ payments'[p].processed /\ locker' # p
           /\ locker' = locker \/ (locker = p /\ locker' = 0)
    <3>1. CASE Process(p)
      <4>1. task' = [task EXCEPT ![p] = Step("due")] /\ locker' = locker /\ locker # p
        BY <1>2, <3>1 DEF Process
      <4>2. payments'[p].processed
        BY <1>1, <1>3, <3>1 DEF Process, Payment
      <4>3. QED
        BY <4>1, <4>2
    <3>2. CASE Refund(p)
      BY <3>2 DEF Refund
    <3>3. CASE Check(p)
      <4>1. /\ task' = [task EXCEPT ![p] = Step(IF First(p) /\ ~Rewarded(p) THEN "lock" ELSE "done")]
            /\ locker' = locker /\ payments' = payments /\ task[p].at = "due"
        BY <3>3 DEF Check
      <4>2. payments[p].processed /\ locker # p
        BY <1>2, <4>1
      <4>3. QED
        BY <4>1, <4>2
    <3>4. CASE Retry(p) \/ Reward(p)
      <4>1. /\ \E at \in {"due", "done"} : task' = [task EXCEPT ![p] = Step(at)]
            /\ locker' = (IF locker = p THEN 0 ELSE locker) /\ payments' = payments
            /\ task[p].at # "none"
        BY <3>4 DEF Retry, Reward, Nobody
      <4>2. payments[p].processed /\ p # 0
        BY <1>1, <1>2, <4>1
      <4>3. QED
        BY <4>1, <4>2
    <3>5. QED
      BY <1>5, <3>1, <3>2, <3>3, <3>4
  <2>3. Ids' = Ids
    BY <1>1, <2>1, SeqIs DEF Ids
  <2>4. CASE task' = task /\ locker' = locker
    BY <1>1, <1>2, <2>1, <2>3, <2>4 DEF Locks, LockIsHeld, TypesPaid
  <2>5. ASSUME NEW at \in {"due", "lock", "done"}, task' = [task EXCEPT ![p] = Step(at)],
               payments'[p].processed, locker' # p,
               locker' = locker \/ (locker = p /\ locker' = 0)
        PROVE  /\ Locks'
               /\ \A q \in Ids' : task'[q].at = "commit" => q \in Ids /\ task'[q] = task[q]
    <3>1. Step(at) \in Task /\ Step(at).at = at
      BY StepType
    <3>2. /\ task' \in Seq(Task) /\ Len(task') = Len(task)
          /\ \A q \in Ids : task'[q] = IF q = p THEN Step(at) ELSE task[q]
      BY <1>1, <2>5, <3>1, ExceptSeq
    <3>3. ASSUME NEW q \in Ids
          PROVE  /\ task'[q].at = "commit" <=> locker' = q
                 /\ task'[q].at # "none" => payments'[q].processed
                 /\ task'[q].at = "commit" => task'[q] = task[q]
      <4>1. q # 0
        BY <1>1
      <4>2. CASE q = p
        BY <2>5, <3>1, <3>2, <4>2
      <4>3. CASE q # p
        BY <1>2, <2>1, <2>5, <3>2, <4>1, <4>3
      <4>4. QED
        BY <4>2, <4>3
    <3>4. locker' \in 0 .. Len(payments)
      BY <1>1, <2>5
    <3>5. QED
      BY <1>1, <2>1, <2>3, <3>2, <3>3, <3>4 DEF Locks, LockIsHeld, TypesPaid
  <2>6. QED
    BY <2>2, <2>4, <2>5
<1>6. QED
    BY <1>4, <1>5

\* The invariant by the locks and the rest.
LEMMA RewardsInvIs ==
    RewardsInv <=> /\ Locks /\ CommitFits /\ PayOutIsSound /\ PendingIsAwaited
             /\ TypesJournal /\ JournalAddsUp(journal, recent, given)
             /\ inviter \in [has : BOOLEAN, blocked : BOOLEAN] /\ everBlocked \in BOOLEAN
             /\ renewals \in Nat
    BY DEF RewardsInv, Types, TypesInviter, Locks

\* The steps of a handler that write nothing keep the rest.
LEMMA NoWriteStep ==
    ASSUME RewardsInv, Locks',
           \A q \in Ids' : task'[q].at = "commit" => q \in Ids /\ task'[q] = task[q],
           UNCHANGED <<inviter, journal, recent, given, renewals, applying, everBlocked>>
    PROVE  RewardsInv'
<1>1. CommitFits'
  <2>1. UNCHANGED <<Base, Open, Capped>>
    BY DEF Base, Open, Capped
  <2>2. CommitFits
    BY DEF RewardsInv
  <2>3. ASSUME NEW q \in Ids', task'[q].at = "commit"
        PROVE  Fits(task'[q].entries, Cardinality(Base'), Open', Capped')
    BY <2>1, <2>2, <2>3 DEF CommitFits
  <2>4. QED
    BY <2>3 DEF CommitFits
<1>2. PayOutIsSound' /\ PendingIsAwaited'
    BY DEF RewardsInv, PayOutIsSound, PendingIsAwaited, Pending
<1>3. /\ TypesJournal' /\ JournalAddsUp(journal', recent', given')
      /\ inviter' \in [has : BOOLEAN, blocked : BOOLEAN] /\ everBlocked' \in BOOLEAN
      /\ renewals' \in Nat
    BY RewardsInvIs DEF TypesJournal
<1>4. QED
    BY <1>1, <1>2, <1>3 DEF RewardsInv, Types, TypesInviter, Locks

\* The tiers that a handler finds new are the one that the new base reward amounts to.
LEMMA NewTiersIs ==
    ASSUME ReferralsAssumption, RewardsInv
    PROVE  /\ Cardinality(Base) \in Nat
           /\ NewTiers = IF Cardinality(Base) + 1 \in Tiers THEN {Cardinality(Base) + 1} ELSE {}
<1> DEFINE n == Cardinality(Base)
<1>1. journal \in Seq(Entry) /\ Base = BaseIn(journal)
    BY RewardsInvIs DEF TypesJournal, Base, BaseIn
<1>2. n \in Nat
    BY <1>1, SeqIs, FS_CardinalityType DEF BaseIn
<1>3. \A t \in Tiers : Cardinality(OfTier(journal, t)) = (IF n >= t THEN 1 ELSE 0)
    BY <1>1, RewardsInvIs DEF JournalAddsUp
<1> HIDE DEF n
<1>4. ASSUME NEW t \in Tiers
      PROVE  (\A i \in DOMAIN journal : journal[i].tier # t) <=> ~(n >= t)
  <2>1. IsFiniteSet(OfTier(journal, t))
    BY <1>1, SeqIs DEF OfTier
  <2>2. OfTier(journal, t) = {} <=> Cardinality(OfTier(journal, t)) = 0
    BY <2>1, FS_EmptySet
  <2>3. OfTier(journal, t) = {} <=> ~(n >= t)
    BY <1>3, <2>2
  <2>4. QED
    BY <2>3 DEF OfTier
<1>5. Paying = n + 1
    BY DEF Paying, n
<1>6. \A t \in Tiers : t \in Nat
    BY DEF ReferralsAssumption
<1>7. \A t \in Tiers : t \in NewTiers <=> t = n + 1
    BY <1>2, <1>4, <1>5, <1>6 DEF NewTiers
<1>8. NewTiers \subseteq Tiers
    BY DEF NewTiers
<1>9. NewTiers = IF n + 1 \in Tiers THEN {n + 1} ELSE {}
    BY <1>7, <1>8
<1>10. QED
    BY <1>2, <1>9 DEF n

\* The order of no tier and of one.
LEMMA OrderIs ==
    ASSUME NEW t
    PROVE  /\ InOrder({}) \in [1 .. 0 -> {}]
           /\ InOrder({t}) \in [1 .. 1 -> {t}]
<1>1. Cardinality({}) = 0 /\ Cardinality({t}) = 1
    BY FS_EmptySet, FS_Singleton
<1>2. InOrder({}) \in [1 .. 0 -> {}]
  <2>1. \E f \in [1 .. 0 -> {}] : \A i, j \in DOMAIN f : i < j => f[i] < f[j]
    <3>1. [i \in 1 .. 0 |-> 0] \in [1 .. 0 -> {}]
      OBVIOUS
    <3>2. \A f \in [1 .. 0 -> {}] : \A i, j \in DOMAIN f : i < j => f[i] < f[j]
      OBVIOUS
    <3>3. QED
      BY <3>1, <3>2
  <2>2. QED
    BY <1>1, <2>1 DEF InOrder
<1>3. InOrder({t}) \in [1 .. 1 -> {t}]
  <2>1. \E f \in [1 .. 1 -> {t}] : \A i, j \in DOMAIN f : i < j => f[i] < f[j]
    <3>1. [i \in 1 .. 1 |-> t] \in [1 .. 1 -> {t}]
      OBVIOUS
    <3>2. \A f \in [1 .. 1 -> {t}] : \A i, j \in DOMAIN f : i < j => f[i] < f[j]
      OBVIOUS
    <3>3. QED
      BY <3>1, <3>2
  <2>2. QED
    BY <1>1, <2>1 DEF InOrder
<1>4. QED
    BY <1>2, <1>3

\* The handler that locks the inviter prepares entries that fit the journal.
LEMMA Prepares ==
    ASSUME ReferralsAssumption, RewardsInv, NEW p \in Ids,
           NEW e, e = <<BaseEntry(p)>> \o [k \in DOMAIN InOrder(NewTiers) |->
                                             TierEntry(p, InOrder(NewTiers)[k])]
    PROVE  e \in Seq(Entry) /\ Fits(e, Cardinality(Base), Open, Capped)
<1> DEFINE n == Cardinality(Base)
           tiers == InOrder(NewTiers)
           tail == [k \in DOMAIN tiers |-> TierEntry(p, tiers[k])]
<1>1. n \in Nat /\ NewTiers = IF n + 1 \in Tiers THEN {n + 1} ELSE {}
    BY NewTiersIs
<1>2. payments[p] \in Payment /\ p \in Nat
    BY SeqIs, RewardsInvIs DEF Locks, TypesPaid, Ids
<1>3. BaseEntry(p) \in Entry
    BY <1>2 DEF BaseEntry, Entry, Payment, ReferralsAssumption, Standing
<1>4. ASSUME NEW t \in Tiers PROVE TierEntry(p, t) \in Entry
    BY <1>2 DEF TierEntry, Entry, Payment, ReferralsAssumption, Standing
<1>5. tiers \in [1 .. (IF n + 1 \in Tiers THEN 1 ELSE 0) -> NewTiers]
    BY <1>1, OrderIs
<1> HIDE DEF n, tiers
<1>6. /\ tail \in Seq(Entry) /\ Len(tail) = (IF n + 1 \in Tiers THEN 1 ELSE 0)
      /\ n + 1 \in Tiers => tail[1] = TierEntry(p, n + 1)
  <2>1. CASE n + 1 \in Tiers
    <3>1. DOMAIN tiers = 1 .. 1 /\ tiers[1] = n + 1
      BY <1>1, <1>5, <2>1
    <3>2. tail = <<TierEntry(p, n + 1)>>
      BY <3>1
    <3>3. QED
      BY <1>4, <2>1, <3>2
  <2>2. CASE n + 1 \notin Tiers
    <3>1. DOMAIN tiers = 1 .. 0
      BY <1>5, <2>2
    <3>2. tail = << >>
      BY <3>1
    <3>3. QED
      BY <2>2, <3>2
  <2>3. QED
    BY <2>1, <2>2
<1>7. e = <<BaseEntry(p)>> \o tail
    BY DEF tiers
<1> HIDE DEF tail
<1>8. /\ e \in Seq(Entry) /\ Len(e) = 1 + Len(tail) /\ e[1] = BaseEntry(p)
      /\ Len(tail) = 1 => e[2] = tail[1]
  <2>1. <<BaseEntry(p)>> \in Seq(Entry) /\ Len(<<BaseEntry(p)>>) = 1 /\ <<BaseEntry(p)>>[1] = BaseEntry(p)
    BY <1>3
  <2>2. /\ e \in Seq(Entry) /\ Len(e) = 1 + Len(tail)
        /\ \A i \in 1 .. 1 + Len(tail) :
              e[i] = IF i <= 1 THEN <<BaseEntry(p)>>[i] ELSE tail[i - 1]
    BY <1>6, <1>7, <2>1, ConcatProperties
  <2>3. Len(tail) = 0 \/ Len(tail) = 1
    BY <1>6
  <2>4. 1 \in 1 .. 1 + Len(tail) /\ (Len(tail) = 1 => 2 \in 1 .. 1 + Len(tail))
    <3>1. ASSUME NEW m \in {0, 1} PROVE 1 \in 1 .. 1 + m /\ (m = 1 => 2 \in 1 .. 1 + m)
      OBVIOUS
    <3>2. QED
      BY <2>3, <3>1
  <2>5. QED
    BY <2>1, <2>2, <2>4
<1>9. Len(e) = IF n + 1 \in Tiers THEN 2 ELSE 1
    BY <1>6, <1>8
<1>10. /\ e[1].kind = "base" /\ e[1].tier = 0
       /\ \/ e[1].status = "capped" /\ e[1].days = 0
          \/ e[1].status = Standing /\ ~Capped
    BY <1>8 DEF BaseEntry
<1>11. Len(e) = 2 => /\ e[2].kind = "tier" /\ e[2].tier = n + 1
                     /\ \/ e[2].status = Standing
                        \/ e[2].status = "applied" /\ e[2].days = 0
    BY <1>6, <1>8, <1>9 DEF TierEntry
<1>12. QED
    BY <1>8, <1>9, <1>10, <1>11 DEF Fits, Standing, n

\* The lock.
LEMMA LockStep ==
    ASSUME ReferralsAssumption, RewardsInv, NEW p \in Ids, LockInviter(p)
    PROVE  RewardsInv'
<1> DEFINE e == <<BaseEntry(p)>> \o [k \in DOMAIN InOrder(NewTiers) |->
                                       TierEntry(p, InOrder(NewTiers)[k])]
           commit == [at |-> "commit", entries |-> e]
<1>1. /\ task[p].at = "lock" /\ locker = 0 /\ locker' = p
      /\ task' = [task EXCEPT ![p] = commit]
      /\ UNCHANGED <<payments, inviter, journal, recent, given, renewals, applying, everBlocked>>
    BY DEF LockInviter, Free, Nobody
<1>2. e \in Seq(Entry) /\ Fits(e, Cardinality(Base), Open, Capped)
    BY Prepares
<1> HIDE DEF e
<1>3. /\ payments \in Seq(Payment) /\ task \in Seq(Task) /\ Len(task) = Len(payments)
      /\ Len(payments) \in Nat /\ Ids = 1 .. Len(payments) /\ LockIsHeld
    BY SeqIs, RewardsInvIs DEF Locks, TypesPaid, Ids
<1>4. commit \in Task /\ commit.at = "commit" /\ commit.entries = e
    BY <1>2 DEF Task
<1> HIDE DEF commit
<1>5. /\ task' \in Seq(Task) /\ Len(task') = Len(task)
      /\ \A q \in Ids : task'[q] = IF q = p THEN commit ELSE task[q]
    BY <1>1, <1>3, <1>4, ExceptSeq
<1>6. Ids' = Ids
    BY <1>1 DEF Ids
<1>7. \A q \in Ids : /\ q # 0 /\ (task[q].at = "commit" <=> locker = q)
                     /\ task[q].at # "none" => payments[q].processed
    BY <1>3 DEF LockIsHeld
<1>8. ASSUME NEW q \in Ids
      PROVE  /\ task'[q].at = "commit" <=> locker' = q
             /\ task'[q].at # "none" => payments'[q].processed
             /\ task'[q].at = "commit" => task'[q].entries = e
  <2>1. CASE q = p
    BY <1>1, <1>4, <1>5, <1>7, <2>1
  <2>2. CASE q # p
    BY <1>1, <1>5, <1>7, <2>2
  <2>3. QED
    BY <2>1, <2>2
<1>9. Locks'
    BY <1>1, <1>3, <1>5, <1>6, <1>8 DEF Locks, LockIsHeld, TypesPaid
<1>10. CommitFits'
  <2>1. UNCHANGED <<Base, Open, Capped>>
    BY <1>1 DEF Base, Open, Capped
  <2>2. QED
    BY <1>2, <1>6, <1>8, <2>1 DEF CommitFits
<1>11. PayOutIsSound' /\ PendingIsAwaited'
    BY <1>1 DEF RewardsInv, PayOutIsSound, PendingIsAwaited, Pending
<1>12. /\ TypesJournal' /\ JournalAddsUp(journal', recent', given')
       /\ inviter' \in [has : BOOLEAN, blocked : BOOLEAN] /\ everBlocked' \in BOOLEAN
       /\ renewals' \in Nat
    BY <1>1, RewardsInvIs DEF TypesJournal
<1>13. QED
    BY <1>9, <1>10, <1>11, <1>12 DEF RewardsInv, Types, TypesInviter, Locks
\* Nobody is to commit when the inviter is not locked.
LEMMA FreeFits == Locks /\ locker = 0 => CommitFits
<1> SUFFICES ASSUME Locks, locker = 0 PROVE CommitFits
    OBVIOUS
<1>1. Len(payments) \in Nat /\ Ids = 1 .. Len(payments)
    BY SeqIs DEF Locks, TypesPaid, Ids
<1>2. ASSUME NEW q \in Ids PROVE task[q].at # "commit"
  <2>1. q # 0
    BY <1>1
  <2>2. QED
    BY <2>1 DEF Locks, LockIsHeld
<1>3. QED
    BY <1>2 DEF CommitFits

\* The parts of the cap are numbers.
LEMMA CountsType ==
    ASSUME NEW j \in Seq(Entry)
    PROVE  /\ BaseIn(j) \subseteq DOMAIN j /\ Cardinality(BaseIn(j)) \in Nat
           /\ \A r : Counting(j, r) \subseteq BaseIn(j) /\ IsFiniteSet(Counting(j, r))
                     /\ Cardinality(Counting(j, r)) \in Nat
           /\ \A t : Cardinality(OfTier(j, t)) \in Nat
<1>1. BaseIn(j) \subseteq DOMAIN j /\ IsFiniteSet(BaseIn(j))
    BY SeqIs DEF BaseIn
<1>2. ASSUME NEW r PROVE Counting(j, r) \subseteq BaseIn(j) /\ IsFiniteSet(Counting(j, r))
  <2>1. Counting(j, r) \subseteq BaseIn(j)
    BY DEF Counting
  <2>2. QED
    BY <1>1, <2>1, FS_Subset
<1>3. ASSUME NEW t PROVE IsFiniteSet(OfTier(j, t))
    BY SeqIs DEF OfTier
<1>4. QED
    BY <1>1, <1>2, <1>3, FS_CardinalityType

\* The commit.
LEMMA RewardStep ==
    ASSUME ReferralsAssumption, RewardsInv, NEW p \in Ids, Reward(p)
    PROVE  RewardsInv'
<1> DEFINE e == task[p].entries
           n == Cardinality(Base)
<1>1. /\ Locks /\ CommitFits /\ PayOutIsSound /\ PendingIsAwaited
      /\ journal \in Seq(Entry) /\ recent \in Nat /\ given \in Nat
      /\ JournalAddsUp(journal, recent, given) /\ inviter \in [has : BOOLEAN, blocked : BOOLEAN]
      /\ everBlocked \in BOOLEAN /\ renewals \in Nat
    BY RewardsInvIs DEF TypesJournal
<1>2. /\ task[p].at = "commit" /\ journal' = journal \o e
      /\ given' = given + (IF Open THEN MapThenSumSet(LAMBDA k : e[k].days, DOMAIN e) ELSE 0)
      /\ locker' = (IF locker = p THEN 0 ELSE locker)
      /\ UNCHANGED <<inviter, recent, renewals, applying, everBlocked>>
    BY DEF Reward, Nobody
<1>3. Locks'
    BY <1>1, TasksStep
<1>4. locker = p /\ locker' = 0
    BY <1>1, <1>2 DEF Locks, LockIsHeld
<1>5. Fits(e, n, Open, Capped)
    BY <1>1, <1>2 DEF CommitFits
<1>6. e \in Seq(Entry)
  <2>1. task[p] \in Task
    BY <1>1, SeqIs DEF Locks, TypesPaid, Ids
  <2>2. QED
    BY <2>1 DEF Task
<1>7. Base = BaseIn(journal) /\ n = Cardinality(BaseIn(journal)) /\ n \in Nat
  <2>1. Base = BaseIn(journal)
    BY DEF Base, BaseIn
  <2>2. QED
    BY <1>1, <2>1, CountsType
<1>8. Open \in BOOLEAN /\ Capped \in BOOLEAN
    BY <1>1 DEF Open, Capped
<1> HIDE DEF e, n
<1>9. Len(e) \in {1, 2}
    BY <1>5 DEF Fits
<1>10. Written(journal', journal, e)
    BY <1>1, <1>2, <1>6, <1>9, Writes
<1>11. journal' \in Seq(Entry)
    BY <1>10 DEF Written
<1>12. /\ Sum(DaysOf(journal), AppliedIn(journal)) \in Nat /\ Sum(DaysOf(e), DOMAIN e) \in Nat
       /\ Sum(DaysOf(journal'), AppliedIn(journal'))
            = Sum(DaysOf(journal), AppliedIn(journal))
                + (IF Open THEN Sum(DaysOf(e), DOMAIN e) ELSE 0)
    BY <1>1, <1>5, <1>6, <1>7, <1>8, <1>10, AppliedGrows
<1>13. given' = Sum(DaysOf(journal'), AppliedIn(journal')) /\ given' \in Nat
  <2>1. MapThenSumSet(LAMBDA k : e[k].days, DOMAIN e) = Sum(DaysOf(e), DOMAIN e)
    BY <1>6, DaysAre
  <2>2. given = Sum(DaysOf(journal), AppliedIn(journal))
    BY <1>1 DEF JournalAddsUp
  <2>3. QED
    BY <1>2, <1>12, <2>1, <2>2
<1>14. /\ Cardinality(BaseIn(journal')) = n + 1
       /\ \A r \in Nat : \/ Cardinality(Counting(journal', r)) = Cardinality(Counting(journal, r))
                         \/ /\ ~Capped
                            /\ Cardinality(Counting(journal', r)) = Cardinality(Counting(journal, r)) + 1
    BY <1>1, <1>5, <1>6, <1>7, <1>8, <1>10, BaseGrows
<1>15. Cardinality(Counting(journal', recent)) <= Cap
  <2>1. /\ Cardinality(Counting(journal, recent)) \in Nat /\ Cap \in Nat
        /\ Cardinality(Counting(journal, recent)) <= Cap
    BY <1>1, CountsType DEF JournalAddsUp, ReferralsAssumption
  <2>2. Capped <=> Cardinality(Counting(journal, recent)) >= Cap
    BY <1>7 DEF Capped, Counting
  <2>3. QED
    BY <1>1, <1>14, <2>1, <2>2
<1>16. ASSUME NEW t \in Tiers
       PROVE  Cardinality(OfTier(journal', t))
                = (IF Cardinality(BaseIn(journal')) >= t THEN 1 ELSE 0)
  <2>1. t \in Nat /\ t # 0
    BY DEF ReferralsAssumption
  <2>2. Cardinality(OfTier(journal', t))
          = Cardinality(OfTier(journal, t)) + (IF t = n + 1 THEN 1 ELSE 0)
    BY <1>1, <1>5, <1>6, <1>7, <1>10, <2>1, TierGrows
  <2>3. Cardinality(OfTier(journal, t)) = (IF n >= t THEN 1 ELSE 0)
    BY <1>1, <1>7 DEF JournalAddsUp
  <2>4. QED
    BY <1>7, <1>14, <2>1, <2>2, <2>3
<1>17. JournalAddsUp(journal', recent', given')
    BY <1>2, <1>13, <1>15, <1>16 DEF JournalAddsUp
<1>18. /\ Pending = PendingIn(journal) /\ Pending' = PendingIn(journal')
       /\ Pending \subseteq Pending' /\ (Open => Pending' = Pending)
  <2>1. Pending = PendingIn(journal) /\ Pending' = PendingIn(journal')
    BY DEF Pending, PendingIn
  <2>2. PendingIn(journal) \subseteq PendingIn(journal')
        /\ (Open => PendingIn(journal') = PendingIn(journal))
    BY <1>1, <1>5, <1>6, <1>7, <1>8, <1>10, PendingGrows
  <2>3. QED
    BY <2>1, <2>2
<1>19. everBlocked \/ ~inviter.has \/ Open
    BY <1>1 DEF PayOutIsSound, Open
<1>20. PayOutIsSound'
  <2>1. everBlocked \/ renewals = 0 \/ Pending' = Pending
    BY <1>1, <1>18, <1>19 DEF PayOutIsSound
  <2>2. QED
    BY <1>1, <1>2, <1>18, <2>1 DEF PayOutIsSound
<1>21. PendingIsAwaited'
  <2>1. Pending' # {} /\ inviter.has /\ ~everBlocked => Pending # {}
    BY <1>18, <1>19
  <2>2. QED
    BY <1>1, <1>2, <2>1 DEF PendingIsAwaited
<1>22. CommitFits'
  <2>1. (Locks /\ locker = 0 => CommitFits)'
    BY FreeFits, PTL
  <2>2. QED
    BY <1>3, <1>4, <2>1
<1>23. TypesJournal'
    BY <1>1, <1>2, <1>11, <1>13 DEF TypesJournal
<1>24. QED
    BY <1>1, <1>2, <1>3, <1>17, <1>20, <1>21, <1>22, <1>23 DEF RewardsInv, Types, TypesInviter, Locks

\* The window of the cap moves on.
LEMMA AgeStep ==
    ASSUME ReferralsAssumption, RewardsInv, Age
    PROVE  RewardsInv'
<1>1. /\ Locks /\ CommitFits /\ PayOutIsSound /\ PendingIsAwaited
      /\ journal \in Seq(Entry) /\ recent \in Nat /\ given \in Nat
      /\ JournalAddsUp(journal, recent, given) /\ Cap \in Nat
    BY RewardsInvIs DEF TypesJournal, ReferralsAssumption
<1>2. /\ recent' = recent + 1
      /\ UNCHANGED <<payments, task, inviter, locker, journal, given, renewals, applying, everBlocked>>
    BY DEF Age
<1>3. Counting(journal, recent + 1) \subseteq Counting(journal, recent)
    BY <1>1, SeqIs DEF Counting, BaseIn
<1>4. /\ Cardinality(Counting(journal, recent)) \in Nat
      /\ Cardinality(Counting(journal, recent + 1)) \in Nat
      /\ Cardinality(Counting(journal, recent + 1)) <= Cardinality(Counting(journal, recent))
    BY <1>1, <1>3, CountsType, FS_Subset
<1>5. JournalAddsUp(journal', recent', given')
    BY <1>1, <1>2, <1>4 DEF JournalAddsUp
<1>6. /\ Capped <=> Cardinality(Counting(journal, recent)) >= Cap
      /\ Capped' <=> Cardinality(Counting(journal, recent + 1)) >= Cap
    BY <1>2 DEF Capped, Counting, Base, BaseIn
<1>7. Capped' => Capped
    BY <1>1, <1>4, <1>6
<1>8. ASSUME NEW q \in Ids, task[q].at = "commit"
      PROVE  Fits(task[q].entries, Cardinality(Base), Open, Capped')
  <2>1. Fits(task[q].entries, Cardinality(Base), Open, Capped)
    BY <1>1, <1>8 DEF CommitFits
  <2>2. QED
    BY <1>7, <2>1 DEF Fits
<1>9. UNCHANGED <<Base, Open, Ids, Pending>>
    BY <1>2 DEF Base, Open, Ids, Pending
<1>10. CommitFits'
    BY <1>2, <1>8, <1>9 DEF CommitFits
<1>11. PayOutIsSound' /\ PendingIsAwaited'
    BY <1>1, <1>2, <1>9 DEF PayOutIsSound, PendingIsAwaited
<1>12. Locks' /\ TypesJournal'
    BY <1>1, <1>2 DEF Locks, LockIsHeld, TypesPaid, Ids, TypesJournal
<1>13. QED
    BY <1>2, <1>5, <1>10, <1>11, <1>12, RewardsInvIs DEF RewardsInv, Types, TypesInviter, Locks

----------------------------------------------------------------------------
\* The steps of the inviter's subscription, with the inviter not locked by a handler.
LEMMA InviterStep ==
    ASSUME RewardsInv, Renew \/ Turn
    PROVE  RewardsInv'
<1>1. /\ Locks /\ PayOutIsSound /\ PendingIsAwaited /\ TypesJournal
      /\ JournalAddsUp(journal, recent, given) /\ renewals \in Nat /\ everBlocked \in BOOLEAN
      /\ inviter \in [has : BOOLEAN, blocked : BOOLEAN]
    BY RewardsInvIs
<1>2. /\ locker = 0
      /\ UNCHANGED <<payments, task, locker, journal, recent, given, applying>>
    BY DEF Renew, Turn, Nobody
<1>3. Locks' /\ TypesJournal' /\ JournalAddsUp(journal', recent', given') /\ Pending' = Pending
    BY <1>1, <1>2 DEF Locks, LockIsHeld, TypesPaid, Ids, TypesJournal, Pending
<1>4. CommitFits'
  <2>1. (Locks /\ locker = 0 => CommitFits)'
    BY FreeFits, PTL
  <2>2. QED
    BY <1>2, <1>3, <2>1
<1>5. /\ inviter' \in [has : BOOLEAN, blocked : BOOLEAN] /\ everBlocked' \in BOOLEAN
      /\ renewals' \in Nat /\ PayOutIsSound' /\ PendingIsAwaited'
  <2>1. CASE Renew
    <3>1. /\ inviter' = [inviter EXCEPT !.has = TRUE] /\ renewals' = renewals + 1
          /\ everBlocked' = everBlocked
      BY <2>1 DEF Renew
    <3>2. /\ inviter' \in [has : BOOLEAN, blocked : BOOLEAN] /\ inviter'.has
          /\ inviter'.blocked = inviter.blocked
      BY <1>1, <3>1
    <3>3. renewals' \in Nat /\ renewals' > 0
      BY <1>1, <3>1
    <3>4. QED
      BY <1>1, <1>2, <1>3, <3>1, <3>2, <3>3 DEF PayOutIsSound, PendingIsAwaited
  <2>2. CASE Turn
    <3>1. /\ inviter' = [inviter EXCEPT !.blocked = ~@] /\ renewals' = renewals
          /\ everBlocked' = TRUE
      BY <2>2 DEF Turn
    <3>2. inviter'.has = inviter.has
      BY <1>1, <3>1
    <3>3. QED
      BY <1>1, <1>2, <1>3, <3>1, <3>2 DEF PayOutIsSound, PendingIsAwaited
  <2>3. QED
    BY <2>1, <2>2
<1>6. QED
    BY <1>3, <1>4, <1>5 DEF RewardsInv, Types, TypesInviter, Locks

\* The entries to pay out are read, or given up; nothing is written.
LEMMA ApplyingStep ==
    ASSUME RewardsInv, Fetch \/ RetryPayOut
    PROVE  RewardsInv'
<1>1. /\ Locks /\ CommitFits /\ PayOutIsSound /\ PendingIsAwaited /\ TypesJournal
      /\ JournalAddsUp(journal, recent, given) /\ renewals \in Nat /\ everBlocked \in BOOLEAN
      /\ inviter \in [has : BOOLEAN, blocked : BOOLEAN]
    BY RewardsInvIs
<1>2. UNCHANGED <<payments, task, inviter, locker, journal, recent, given, everBlocked>>
    BY DEF Fetch, RetryPayOut
<1>3. Locks' /\ TypesJournal' /\ JournalAddsUp(journal', recent', given') /\ Pending' = Pending
    BY <1>1, <1>2 DEF Locks, LockIsHeld, TypesPaid, Ids, TypesJournal, Pending
<1>4. CommitFits'
    BY <1>1, <1>2 DEF CommitFits, Ids, Base, Open, Capped
<1>5. renewals' \in Nat /\ PayOutIsSound' /\ PendingIsAwaited'
  <2>1. CASE Fetch
    <3>1. /\ renewals > 0 /\ applying' = Pending
          /\ renewals' = IF Pending = {} THEN renewals - 1 ELSE renewals
      BY <2>1 DEF Fetch
    <3>2. renewals' \in Nat /\ (Pending # {} => renewals' > 0)
      BY <1>1, <3>1
    <3>3. QED
      BY <1>1, <1>2, <1>3, <3>1, <3>2 DEF PayOutIsSound, PendingIsAwaited
  <2>2. CASE RetryPayOut
    <3>1. applying' = {} /\ renewals' = renewals
      BY <2>2 DEF RetryPayOut
    <3>2. QED
      BY <1>1, <1>2, <1>3, <3>1 DEF PayOutIsSound, PendingIsAwaited
  <2>3. QED
    BY <2>1, <2>2
<1>6. QED
    BY <1>1, <1>2, <1>3, <1>4, <1>5 DEF RewardsInv, Types, TypesInviter, Locks

\* Entries a that waited are applied: the days applied grow by theirs, and nothing else of what
\* is counted changes.
PaidOut(j, a) ==
    [i \in DOMAIN j |-> IF i \in a THEN [j[i] EXCEPT !.status = "applied"] ELSE j[i]]

LEMMA PaysOut ==
    ASSUME NEW j \in Seq(Entry), NEW a, a \subseteq PendingIn(j), NEW k, k = PaidOut(j, a)
    PROVE  /\ k \in Seq(Entry) /\ PendingIn(k) = PendingIn(j) \ a
           /\ BaseIn(k) = BaseIn(j) /\ (\A r : Counting(k, r) = Counting(j, r))
           /\ \A t : OfTier(k, t) = OfTier(j, t)
           /\ Sum(DaysOf(j), AppliedIn(j)) \in Nat /\ Sum(DaysOf(j), a) \in Nat
           /\ Sum(DaysOf(k), AppliedIn(k)) = Sum(DaysOf(j), AppliedIn(j)) + Sum(DaysOf(j), a)
<1>1. /\ a \subseteq DOMAIN j /\ DOMAIN k = DOMAIN j
      /\ \A i \in a : j[i].status = "pending"
      /\ \A i \in DOMAIN j :
            k[i] = IF i \in a THEN [j[i] EXCEPT !.status = "applied"] ELSE j[i]
    BY DEF PendingIn, PaidOut
<1>2. \A i \in DOMAIN j : j[i] \in Entry
    BY SeqIs
<1>3. ASSUME NEW i \in DOMAIN j
      PROVE  /\ k[i] \in Entry /\ k[i].kind = j[i].kind /\ k[i].tier = j[i].tier
             /\ k[i].days = j[i].days
             /\ k[i].status = IF i \in a THEN "applied" ELSE j[i].status
  <2>1. j[i] \in Entry
    BY <1>2
  <2>2. CASE i \in a
    BY <1>1, <2>1, <2>2 DEF Entry
  <2>3. CASE i \notin a
    BY <1>1, <2>1, <2>3
  <2>4. QED
    BY <2>2, <2>3
<1>4. k \in Seq(Entry)
  <2>1. Len(j) \in Nat /\ DOMAIN j = 1 .. Len(j)
    BY SeqIs
  <2>2. k = [i \in 1 .. Len(j) |-> k[i]]
    BY <2>1 DEF PaidOut
  <2>3. k \in [1 .. Len(j) -> Entry]
    BY <1>3, <2>1, <2>2
  <2>4. QED
    BY <2>1, <2>3, SeqDef
<1>5. /\ BaseIn(k) = BaseIn(j) /\ (\A t : OfTier(k, t) = OfTier(j, t))
      /\ AppliedIn(k) = AppliedIn(j) \cup a /\ AppliedIn(j) \cap a = {}
      /\ PendingIn(k) = PendingIn(j) \ a
    BY <1>1, <1>3 DEF BaseIn, OfTier, AppliedIn, PendingIn
<1>6. ASSUME NEW r PROVE Counting(k, r) = Counting(j, r)
  <2>1. \A i \in BaseIn(j) : k[i].status # "capped" <=> j[i].status # "capped"
    BY <1>1, <1>3 DEF BaseIn
  <2>2. QED
    BY <1>5, <2>1 DEF Counting
<1>7. DaysOf(k) = DaysOf(j)
    BY <1>1, <1>3 DEF DaysOf
<1>8. /\ IsFiniteSet(AppliedIn(j)) /\ IsFiniteSet(a)
      /\ \A i \in AppliedIn(j) \cup a : DaysOf(j)[i] \in Nat
  <2>1. AppliedIn(j) \subseteq DOMAIN j
    BY DEF AppliedIn
  <2>2. QED
    BY <1>1, <2>1, SeqIs, DaysType
<1>9. Sum(DaysOf(j), AppliedIn(j) \cup a) = Sum(DaysOf(j), AppliedIn(j)) + Sum(DaysOf(j), a)
    BY <1>5, <1>8, SumUnion
<1>10. Sum(DaysOf(j), AppliedIn(j)) \in Nat /\ Sum(DaysOf(j), a) \in Nat
    BY <1>8, SumType
<1>11. Sum(DaysOf(k), AppliedIn(k)) = Sum(DaysOf(j), AppliedIn(j)) + Sum(DaysOf(j), a)
    BY <1>5, <1>7, <1>9
<1>12. QED
    BY <1>4, <1>5, <1>6, <1>10, <1>11

\* The days that waited are paid out, or left when the inviter is blocked by then.
LEMMA PayOutStep ==
    ASSUME RewardsInv, PayOut
    PROVE  RewardsInv'
<1>1. /\ Locks /\ PayOutIsSound /\ PendingIsAwaited /\ TypesJournal
      /\ journal \in Seq(Entry) /\ recent \in Nat /\ given \in Nat
      /\ JournalAddsUp(journal, recent, given) /\ renewals \in Nat /\ everBlocked \in BOOLEAN
      /\ inviter \in [has : BOOLEAN, blocked : BOOLEAN]
    BY RewardsInvIs DEF TypesJournal
<1>2. /\ locker = 0 /\ applying # {} /\ applying' = {} /\ renewals' = renewals - 1
      /\ UNCHANGED <<payments, task, inviter, locker, recent, everBlocked>>
    BY DEF PayOut, Nobody
<1>3. Locks'
    BY <1>1, <1>2 DEF Locks, LockIsHeld, TypesPaid, Ids
<1>4. CommitFits'
  <2>1. (Locks /\ locker = 0 => CommitFits)'
    BY FreeFits, PTL
  <2>2. QED
    BY <1>2, <1>3, <2>1
<1>5. /\ renewals > 0 /\ renewals' \in Nat /\ inviter.has
      /\ applying \subseteq Pending /\ (everBlocked \/ applying = Pending)
    BY <1>1, <1>2 DEF PayOutIsSound
<1>6. PayOutIsSound'
    BY <1>1, <1>2, <1>5 DEF PayOutIsSound
<1>7. Pending = PendingIn(journal) /\ Pending' = PendingIn(journal')
    BY DEF Pending, PendingIn
<1>8. CASE Open
  <2>1. /\ given' = given + Days(applying)
        /\ journal' = [i \in DOMAIN journal |->
                          IF i \in applying THEN [journal[i] EXCEPT !.status = "applied"]
                          ELSE journal[i]]
    BY <1>8 DEF PayOut
  <2>2. /\ journal' \in Seq(Entry) /\ PendingIn(journal') = PendingIn(journal) \ applying
        /\ BaseIn(journal') = BaseIn(journal)
        /\ \A r : Counting(journal', r) = Counting(journal, r)
        /\ \A t : OfTier(journal', t) = OfTier(journal, t)
        /\ Sum(DaysOf(journal), AppliedIn(journal)) \in Nat /\ Sum(DaysOf(journal), applying) \in Nat
        /\ Sum(DaysOf(journal'), AppliedIn(journal'))
             = Sum(DaysOf(journal), AppliedIn(journal)) + Sum(DaysOf(journal), applying)
    <3>1. journal' = PaidOut(journal, applying) /\ applying \subseteq PendingIn(journal)
      BY <1>5, <1>7, <2>1 DEF PaidOut
    <3>2. QED
      BY <1>1, <3>1, PaysOut
  <2>3. Days(applying) = Sum(DaysOf(journal), applying)
    <3>1. applying \subseteq DOMAIN journal
      BY <1>5 DEF Pending
    <3>2. QED
      BY <1>1, <3>1, DaysAre DEF Days
  <2>4. given' = Sum(DaysOf(journal'), AppliedIn(journal')) /\ given' \in Nat
    BY <1>1, <2>1, <2>2, <2>3 DEF JournalAddsUp
  <2>5. JournalAddsUp(journal', recent', given')
    BY <1>1, <1>2, <2>2, <2>4 DEF JournalAddsUp
  <2>6. PendingIsAwaited'
    BY <1>2, <1>5, <1>7, <2>2 DEF PendingIsAwaited
  <2>7. TypesJournal'
    BY <1>1, <1>2, <2>2, <2>4 DEF TypesJournal
  <2>8. QED
    BY <1>1, <1>2, <1>3, <1>4, <1>5, <1>6, <2>5, <2>6, <2>7 DEF RewardsInv, Types, TypesInviter, Locks
<1>9. CASE ~Open
  <2>1. UNCHANGED <<given, journal>>
    BY <1>9 DEF PayOut
  <2>2. everBlocked
    BY <1>1, <1>5, <1>9 DEF Open, PayOutIsSound
  <2>3. PendingIsAwaited'
    BY <1>2, <2>2 DEF PendingIsAwaited
  <2>4. TypesJournal' /\ JournalAddsUp(journal', recent', given')
    BY <1>1, <1>2, <2>1 DEF TypesJournal
  <2>5. QED
    BY <1>1, <1>2, <1>3, <1>4, <1>5, <1>6, <2>3, <2>4 DEF RewardsInv, Types, TypesInviter, Locks
<1>10. QED
    BY <1>8, <1>9

----------------------------------------------------------------------------
LEMMA InitIsSound ==
    ASSUME ReferralsAssumption, Init
    PROVE  RewardsInv
<1>1. /\ payments = << >> /\ task = << >> /\ inviter = [has |-> FALSE, blocked |-> FALSE]
      /\ locker = 0 /\ journal = << >> /\ recent = 1 /\ given = 0
      /\ renewals = 0 /\ applying = {} /\ everBlocked = FALSE
    BY DEF Init, Nobody
<1>2. Ids = {} /\ Pending = {}
    BY <1>1 DEF Ids, Pending
<1>3. Locks /\ TypesJournal /\ CommitFits /\ PayOutIsSound /\ PendingIsAwaited
    BY <1>1, <1>2, EmptySeq
       DEF Locks, LockIsHeld, TypesPaid, TypesJournal, CommitFits, PayOutIsSound, PendingIsAwaited
<1>4. /\ BaseIn(journal) = {} /\ Counting(journal, recent) = {} /\ AppliedIn(journal) = {}
      /\ \A t : OfTier(journal, t) = {}
    BY <1>1 DEF BaseIn, Counting, AppliedIn, OfTier
<1>5. Cardinality({}) = 0 /\ Sum(DaysOf(journal), {}) = 0
    BY FS_EmptySet, SumStep
<1>6. JournalAddsUp(journal, recent, given)
  <2>1. Cap \in Nat /\ \A t \in Tiers : t \in Nat /\ t # 0
    BY DEF ReferralsAssumption
  <2>2. Cardinality(Counting(journal, recent)) <= Cap
    BY <1>4, <1>5, <2>1
  <2>3. given = Sum(DaysOf(journal), AppliedIn(journal))
    BY <1>1, <1>4, <1>5
  <2>4. \A t \in Tiers : Cardinality(OfTier(journal, t))
                            = (IF Cardinality(BaseIn(journal)) >= t THEN 1 ELSE 0)
    BY <1>4, <1>5, <2>1
  <2>5. QED
    BY <2>2, <2>3, <2>4 DEF JournalAddsUp
<1>7. QED
    BY <1>1, <1>3, <1>6 DEF RewardsInv, Types, TypesInviter, Locks

\* Every step keeps the invariant.
LEMMA NextStep ==
    ASSUME ReferralsAssumption, RewardsInv, [Next]_vars
    PROVE  RewardsInv'
<1>1. CASE \E f \in Friends : Record(f)
  <2>1. UNCHANGED <<inviter, journal, recent, given, renewals, applying, everBlocked>>
    BY <1>1 DEF Record
  <2>2. QED
    BY <1>1, <2>1, TasksStep, NoWriteStep, RewardsInvIs
<1>2. ASSUME NEW p \in Ids,
             Process(p) \/ Refund(p) \/ Check(p) \/ LockInviter(p) \/ Reward(p) \/ Retry(p)
      PROVE  RewardsInv'
  <2>1. CASE Process(p) \/ Refund(p) \/ Check(p) \/ Retry(p)
    <3>1. UNCHANGED <<inviter, journal, recent, given, renewals, applying, everBlocked>>
      BY <2>1 DEF Process, Refund, Check, Retry
    <3>2. QED
      BY <2>1, <3>1, TasksStep, NoWriteStep, RewardsInvIs
  <2>2. CASE LockInviter(p)
    BY <2>2, LockStep
  <2>3. CASE Reward(p)
    BY <2>3, RewardStep
  <2>4. QED
    BY <1>2, <2>1, <2>2, <2>3
<1>3. CASE Age
    BY <1>3, AgeStep
<1>4. CASE Renew \/ Turn
    BY <1>4, InviterStep
<1>5. CASE Fetch \/ RetryPayOut
    BY <1>5, ApplyingStep
<1>6. CASE PayOut
    BY <1>6, PayOutStep
<1>7. CASE UNCHANGED vars
  <2>1. Locks /\ Locks'
    BY <1>7, RewardsInvIs DEF vars, Locks, LockIsHeld, TypesPaid, Ids
  <2>2. QED
    BY <1>7, <2>1, NoWriteStep DEF vars, Ids
<1>8. QED
    BY <1>1, <1>2, <1>3, <1>4, <1>5, <1>6, <1>7 DEF Next

\* Whatever friends pay at the same time, is retried, blocked, refunded or paid out later: the
\* cap of the month holds, the days that were given are those that the journal calls applied,
\* every tier that was reached is granted once, and days that wait for a subscription are paid
\* out by a handler that is still to run.
THEOREM RewardsAreRight ==
    ASSUME ReferralsAssumption
    PROVE  Spec => []RewardsAddUp
<1>1. Init => RewardsInv
    BY InitIsSound
<1>2. RewardsInv /\ [Next]_vars => RewardsInv'
    BY NextStep
<1>3. RewardsInv => RewardsAddUp
  <2>1. ASSUME RewardsInv PROVE RewardsAddUp
    <3>1. journal \in Seq(Entry) /\ JournalAddsUp(journal, recent, given) /\ PendingIsAwaited
      BY <2>1, RewardsInvIs DEF TypesJournal
    <3>2. QED
      BY <3>1, JournalAddsUpIs DEF RewardsAddUp
  <2>2. QED
    BY <2>1
<1>4. QED
    BY <1>1, <1>2, <1>3, PTL DEF Spec

----------------------------------------------------------------------------
\* PromoCodes.

\* The rows and the requests.
CodeTypes ==
    /\ code \in [there : BOOLEAN, active : BOOLEAN, max : Nat, uses : Nat]
    /\ redeemed \subseteq CodeClients /\ IsFiniteSet(redeemed) /\ gifts \in [CodeClients -> Nat]
    /\ p_request \in [CodeRequests -> [client : CodeClients \cup {"none"}, at : {"idle", "claim", "apply"}]]
    /\ \A r \in CodeRequests : p_request[r].at # "idle" => p_request[r].client \in CodeClients

\* The request that has locked the code is the one that is to redeem it, and what it found out
\* about the code is still so.
CodeIsLocked ==
    \A r \in CodeRequests :
       /\ p_request[r].at = "apply" <=> p_locker = r
       /\ p_locker = r => P!Valid /\ P!Left /\ p_request[r].client \notin redeemed

CodeInv == CodeTypes /\ CodeIsLocked /\ P!RedeemedIsGiven /\ P!UsesAreCounted

\* Only a redemption changes the numbers, and only within the maximum.
LEMMA CodeStep ==
    ASSUME P!PromoCodesAssumption, CodeInv, [P!Next]_(P!vars)
    PROVE  /\ CodeInv'
           /\ code.there /\ code'.uses > code.uses => code.max = 0 \/ code.uses < code.max
<1> USE DEF P!PromoCodesAssumption, CodeInv, CodeTypes, CodeIsLocked, P!RedeemedIsGiven,
            P!UsesAreCounted, P!Valid, P!Left, P!Idle, P!Nobody
<1>1. ASSUME NEW r \in CodeRequests, NEW c \in CodeClients, P!Ask(r, c)
      PROVE  CodeInv' /\ code'.uses = code.uses
    BY <1>1 DEF P!Ask
<1>2. ASSUME NEW r \in CodeRequests, P!LockCode(r)
      PROVE  CodeInv' /\ code'.uses = code.uses
    BY <1>2 DEF P!LockCode
<1>3. ASSUME NEW r \in CodeRequests, P!Redeem(r)
      PROVE  CodeInv' /\ P!Left
  <2> DEFINE c == p_request[r].client
  <2>1. /\ p_request[r].at = "apply" /\ redeemed' = redeemed \cup {c}
        /\ code' = [code EXCEPT !.uses = @ + 1] /\ gifts' = [gifts EXCEPT ![c] = @ + 1]
        /\ p_request' = [p_request EXCEPT ![r] = P!Idle] /\ p_locker' = "nobody"
    BY <1>3 DEF P!Redeem
  <2>2. c \in CodeClients /\ c \notin redeemed /\ code.there /\ P!Left /\ p_locker = r
    BY <2>1
  <2> HIDE DEF c
  <2>3. P!Cardinality(redeemed') = P!Cardinality(redeemed) + 1 /\ IsFiniteSet(redeemed')
    BY <2>1, <2>2, FS_AddElement, SameCardinality
  <2>4. code' = [code EXCEPT !.uses = code.uses + 1]
    BY <2>1
  <2>5. P!UsesAreCounted' /\ P!RedeemedIsGiven'
    BY <2>1, <2>2, <2>3, <2>4
  <2>6. CodeTypes'
    <3>1. code' \in [there : BOOLEAN, active : BOOLEAN, max : Nat, uses : Nat]
      BY <2>4
    <3>2. gifts' \in [CodeClients -> Nat]
      BY <2>1, <2>2
    <3>3. redeemed' \subseteq CodeClients
      BY <2>1, <2>2
    <3>4. /\ p_request' \in [CodeRequests -> [client : CodeClients \cup {"none"},
                                        at : {"idle", "claim", "apply"}]]
          /\ \A q \in CodeRequests : p_request'[q].at # "idle" => p_request'[q].client \in CodeClients
      BY <2>1
    <3>5. QED
      BY <2>3, <3>1, <3>2, <3>3, <3>4
  <2>7. CodeIsLocked'
    BY <2>1, <2>2
  <2>8. QED
    BY <2>2, <2>5, <2>6, <2>7
<1>4. ASSUME NEW r \in CodeRequests, P!Refuse(r) \/ P!Lose(r)
      PROVE  CodeInv' /\ code'.uses = code.uses
    BY <1>4 DEF P!Refuse, P!Lose
<1>5. ASSUME NEW c \in CodeClients, P!Turn(c)
      PROVE  CodeInv' /\ code'.uses = code.uses
    BY <1>5 DEF P!Turn
<1>6. ASSUME NEW active \in BOOLEAN, NEW max \in MaxUses, P!Edit(active, max)
      PROVE  CodeInv' /\ code'.uses = code.uses
    BY <1>6 DEF P!Edit
<1>7. CASE P!Delete
  <2>1. /\ p_locker = "nobody" /\ redeemed = {} /\ code' = [code EXCEPT !.there = FALSE]
        /\ UNCHANGED <<redeemed, gifts, refusing, p_request, p_locker>>
    BY <1>7 DEF P!Delete
  <2>2. /\ code'.uses = code.uses
        /\ code' \in [there : BOOLEAN, active : BOOLEAN, max : Nat, uses : Nat]
    BY <2>1
  <2>3. \A r \in CodeRequests : p_locker # r
    BY <2>1
  <2>4. CodeTypes' /\ CodeIsLocked'
    BY <2>1, <2>2, <2>3
  <2>5. P!RedeemedIsGiven' /\ P!UsesAreCounted'
    BY <2>1, <2>2
  <2>6. QED
    BY <2>2, <2>4, <2>5
<1>8. CASE P!Create
  <2>1. ~code.there /\ UNCHANGED <<redeemed, gifts, refusing, p_request, p_locker>>
    BY <1>8 DEF P!Create
  <2>2. PICK max \in MaxUses :
          code' = [there |-> TRUE, active |-> TRUE, max |-> max, uses |-> 0]
    BY <1>8 DEF P!Create
  <2>3. redeemed = {} /\ P!Cardinality({}) = 0
    BY <2>1, FS_EmptySet, SameCardinality
  <2>4. \A r \in CodeRequests : p_locker # r
    BY <2>1
  <2>5. CodeTypes' /\ CodeIsLocked'
    BY <2>1, <2>2, <2>4
  <2>6. P!RedeemedIsGiven' /\ P!UsesAreCounted'
    BY <2>1, <2>2, <2>3
  <2>7. QED
    BY <2>1, <2>5, <2>6
<1>9. CASE UNCHANGED P!vars
    BY <1>9 DEF P!vars
<1>10. QED
    BY <1>1, <1>2, <1>3, <1>4, <1>5, <1>6, <1>7, <1>8, <1>9 DEF P!Next

\* A code that was used up on a client gave him what it is good for, once, and nobody else; the
\* counter counts the redemptions, and none of them takes it past the maximum of its time.
THEOREM CodesAreRight ==
    ASSUME P!PromoCodesAssumption
    PROVE  P!Spec => CodesAddUp
<1>1. P!Init => CodeInv
  <2>1. P!Cardinality({}) = 0 /\ IsFiniteSet({})
    BY FS_EmptySet, SameCardinality
  <2>2. ASSUME P!Init PROVE CodeTypes /\ CodeIsLocked
    BY <2>1, <2>2 DEF P!Init, P!Idle, P!Nobody, P!PromoCodesAssumption, CodeTypes, CodeIsLocked
  <2>3. ASSUME P!Init PROVE P!RedeemedIsGiven /\ P!UsesAreCounted
    BY <2>1, <2>3 DEF P!Init, P!RedeemedIsGiven, P!UsesAreCounted
  <2>4. QED
    BY <2>2, <2>3 DEF CodeInv
<1>2. CodeInv /\ [P!Next]_(P!vars) => CodeInv'
    BY CodeStep
<1>3. CodeInv => P!RedeemedIsGiven /\ P!UsesAreCounted
    BY DEF CodeInv
<1>4. CodeInv /\ [P!Next]_(P!vars)
        => [code.there /\ code'.uses > code.uses => code.max = 0 \/ code.uses < code.max]_(P!vars)
    BY CodeStep
<1>5. QED
    BY <1>1, <1>2, <1>3, <1>4, PTL DEF P!Spec, CodesAddUp, P!CodesAddUp, P!NeverOversold

----------------------------------------------------------------------------
\* Devices.

Issued == Cardinality(DOMAIN devices)

\* The rows are numbered from 1 without a gap; the limits that requests have read were in force.
DeviceTypes ==
    /\ Issued \in Nat /\ devices \in [1 .. Issued -> {"active", "revoked"}]
    /\ limit \in Nat /\ most \in Nat /\ limit <= most
    /\ d_request \in [DeviceRequests -> [at : {"idle", "lock", "put", "commit", "answer"},
                                 limit : 0 .. most, seq : Nat]]
    /\ revocations \in Seq(Nat) /\ d_loaded \in Seq(Nat)

\* The request that holds the advisory lock is the one that is to issue a device; the number it
\* took is still the next one, and there is still room for it.
PlaceIsKept ==
    \A r \in DeviceRequests :
       /\ d_request[r].at \in {"put", "commit"} <=> d_locker = r
       /\ d_locker = r => d_request[r].seq = Issued + 1 /\ Cardinality(D!Active) < d_request[r].limit
       /\ d_request[r].at = "answer" => d_request[r].seq \in DOMAIN devices

\* Links that a client has got, and keys that were downloaded, are of rows; a key that was
\* downloaded is not in Redis any more.
KeysAreOfRows ==
    /\ answered \subseteq DOMAIN devices
    /\ \A i \in DOMAIN d_loaded : d_loaded[i] \in DOMAIN devices \ links

DeviceInv ==
    /\ DeviceTypes /\ PlaceIsKept /\ KeysAreOfRows
    /\ D!WithinLimit /\ D!RevokedIsListed /\ D!KeysLeaveOnce

\* What a step may do to the rows.
RowsKept ==
    /\ \A seq \in DOMAIN devices :
         seq \in DOMAIN devices' /\ (devices[seq] = "revoked" => devices'[seq] = "revoked")
    /\ DOMAIN devices' = 1 .. D!Cardinality(DOMAIN devices')

\* The sets of rows are finite.
LEMMA RowsAre ==
    ASSUME DeviceTypes
    PROVE  /\ DOMAIN devices = 1 .. Issued /\ IsFiniteSet(DOMAIN devices)
           /\ D!Active \subseteq DOMAIN devices /\ IsFiniteSet(D!Active)
           /\ Cardinality(D!Active) \in Nat
           /\ IsFiniteSet(DOMAIN devices \ D!Active)
           /\ Cardinality(DOMAIN devices \ D!Active) \in Nat
<1>1. DOMAIN devices = 1 .. Issued /\ IsFiniteSet(DOMAIN devices)
    BY FS_Interval DEF DeviceTypes
<1>2. D!Active \subseteq DOMAIN devices /\ DOMAIN devices \ D!Active \subseteq DOMAIN devices
    BY DEF D!Active
<1>3. QED
    BY <1>1, <1>2, FS_Subset, FS_CardinalityType

\* A step that leaves the rows, the list and the downloads alone keeps what is said of them.
LEMMA RowsUntouched ==
    ASSUME DeviceInv, UNCHANGED <<devices, revocations, d_loaded>>, most' >= most, most' \in Nat
    PROVE  /\ RowsKept /\ D!WithinLimit' /\ D!RevokedIsListed' /\ D!KeysLeaveOnce'
           /\ Issued' = Issued /\ D!Active' = D!Active
<1>1. Issued' = Issued /\ D!Active' = D!Active
    BY DEF Issued, D!Active
<1>2. RowsKept
    BY SameCardinality DEF DeviceInv, DeviceTypes, RowsKept, Issued
<1>3. D!WithinLimit'
  <2>1. Cardinality(D!Active) \in Nat /\ Cardinality(D!Active) <= most /\ most \in Nat
    BY RowsAre, SameCardinality DEF DeviceInv, D!WithinLimit, DeviceTypes
  <2>2. Cardinality(D!Active) <= most'
    BY <2>1
  <2>3. QED
    BY <1>1, <2>2, SameCardinality DEF D!WithinLimit
<1>4. D!RevokedIsListed' /\ D!KeysLeaveOnce'
    BY <1>1 DEF DeviceInv, D!RevokedIsListed, D!KeysLeaveOnce
<1>5. QED
    BY <1>1, <1>2, <1>3, <1>4

\* The steps of a request up to the commit, the loss of one, and the limit.
LEMMA RequestStep ==
    ASSUME D!DevicesAssumption, DeviceInv,
           \/ \E r \in DeviceRequests :
                D!ReadLimit(r) \/ D!Lock(r) \/ D!PutP12(r) \/ D!Answer(r) \/ D!Lose(r)
           \/ \E n \in Limits : D!SetLimit(n)
    PROVE  DeviceInv' /\ RowsKept
<1> USE DEF D!Idle, D!Nobody
<1>1. /\ UNCHANGED <<devices, revocations, d_loaded>> /\ most' >= most /\ most' \in Nat
      /\ limit' \in Nat /\ limit' <= most'
  <2>1. limit \in Nat /\ most \in Nat /\ limit <= most /\ Limits \subseteq Nat
    BY DEF DeviceInv, DeviceTypes, D!DevicesAssumption
  <2>2. ASSUME NEW n \in Limits, D!SetLimit(n)
        PROVE  /\ UNCHANGED <<devices, revocations, d_loaded>> /\ most' >= most /\ most' \in Nat
               /\ limit' \in Nat /\ limit' <= most'
    BY <2>1, <2>2 DEF D!SetLimit
  <2>3. ASSUME NEW r \in DeviceRequests,
               D!ReadLimit(r) \/ D!Lock(r) \/ D!PutP12(r) \/ D!Answer(r) \/ D!Lose(r)
        PROVE  UNCHANGED <<devices, revocations, d_loaded, limit, most>>
    BY <2>3 DEF D!ReadLimit, D!Lock, D!PutP12, D!Answer, D!Lose
  <2>4. QED
    BY <2>1, <2>2, <2>3
<1>2. /\ RowsKept /\ D!WithinLimit' /\ D!RevokedIsListed' /\ D!KeysLeaveOnce'
      /\ Issued' = Issued /\ D!Active' = D!Active
    BY <1>1, RowsUntouched
<1>3. /\ DeviceTypes /\ PlaceIsKept /\ KeysAreOfRows /\ Issued \in Nat
      /\ Cardinality(D!Active) \in Nat /\ DOMAIN devices = 1 .. Issued
      /\ limit \in Nat /\ most \in Nat /\ limit <= most
      /\ d_request \in [DeviceRequests -> [at : {"idle", "lock", "put", "commit", "answer"},
                                   limit : 0 .. most, seq : Nat]]
    BY RowsAre DEF DeviceInv, DeviceTypes
<1>4. D!NextSeq = Issued + 1
    BY SameCardinality DEF D!NextSeq, Issued
<1>5. ASSUME NEW r \in DeviceRequests, D!ReadLimit(r) PROVE DeviceInv'
  <2>1. /\ d_request' = [d_request EXCEPT ![r] = [at |-> "lock", limit |-> limit, seq |-> 0]]
        /\ d_request[r].at = "idle" /\ UNCHANGED <<limit, most, d_locker, links, answered>>
    BY <1>5 DEF D!ReadLimit
  <2>2. DeviceTypes'
    BY <1>1, <1>2, <1>3, <2>1 DEF DeviceTypes
  <2>3. PlaceIsKept' /\ KeysAreOfRows'
    BY <1>1, <1>2, <1>3, <2>1 DEF PlaceIsKept, KeysAreOfRows
  <2>4. QED
    BY <1>2, <2>2, <2>3 DEF DeviceInv
<1>6. ASSUME NEW r \in DeviceRequests, D!Lock(r) PROVE DeviceInv'
  <2>1. /\ d_request[r].at = "lock" /\ d_locker = "nobody" /\ UNCHANGED <<limit, most, links, answered>>
        /\ \/ d_request' = [d_request EXCEPT ![r] = D!Idle] /\ d_locker' = d_locker
           \/ /\ ~(Cardinality(D!Active) >= d_request[r].limit) /\ d_locker' = r
              /\ d_request' = [d_request EXCEPT ![r] = [at |-> "put", limit |-> d_request[r].limit,
                                                    seq |-> Issued + 1]]
    BY <1>4, <1>6, SameCardinality DEF D!Lock, D!Free
  <2>2. d_request[r].limit \in 0 .. most /\ Issued + 1 \in Nat
    BY <1>3
  <2>3. /\ \A q \in DeviceRequests \ {r} : d_request'[q] = d_request[q]
        /\ \/ d_request'[r] = D!Idle /\ d_locker' = d_locker
           \/ /\ d_request'[r] = [at |-> "put", limit |-> d_request[r].limit, seq |-> Issued + 1]
              /\ ~(Cardinality(D!Active) >= d_request[r].limit) /\ d_locker' = r
    BY <1>3, <2>1
  <2>4. DeviceTypes'
    <3>1. D!Idle \in [at : {"idle", "lock", "put", "commit", "answer"}, limit : 0 .. most, seq : Nat]
      BY <1>3
    <3>2. [at |-> "put", limit |-> d_request[r].limit, seq |-> Issued + 1]
            \in [at : {"idle", "lock", "put", "commit", "answer"}, limit : 0 .. most, seq : Nat]
      BY <2>2
    <3>3. d_request' \in [DeviceRequests -> [at : {"idle", "lock", "put", "commit", "answer"},
                                     limit : 0 .. most, seq : Nat]]
      BY <1>3, <2>1, <3>1, <3>2
    <3>4. QED
      BY <1>1, <1>2, <1>3, <2>1, <3>3 DEF DeviceInv, DeviceTypes
  <2>5. KeysAreOfRows'
    BY <1>1, <1>3, <2>1 DEF KeysAreOfRows
  <2>6. PlaceIsKept'
    BY <1>1, <1>2, <1>3, <2>1, <2>2, <2>3 DEF PlaceIsKept, D!DevicesAssumption
  <2>7. QED
    BY <1>2, <2>4, <2>5, <2>6 DEF DeviceInv
<1>7. ASSUME NEW r \in DeviceRequests, D!PutP12(r) PROVE DeviceInv'
  <2>1. /\ d_request[r].at = "put" /\ d_request' = [d_request EXCEPT ![r].at = "commit"]
        /\ links' = links \cup {d_request[r].seq} /\ UNCHANGED <<limit, most, d_locker, answered>>
    BY <1>7 DEF D!PutP12, D!Goto
  <2>2. DeviceTypes'
    BY <1>1, <1>2, <1>3, <2>1 DEF DeviceTypes
  <2>3. PlaceIsKept'
    BY <1>1, <1>2, <1>3, <2>1 DEF PlaceIsKept
  <2>4. d_request[r].seq \notin DOMAIN devices
    BY <1>3, <2>1 DEF PlaceIsKept
  <2>5. KeysAreOfRows'
    BY <1>1, <1>3, <2>1, <2>4 DEF KeysAreOfRows
  <2>6. QED
    BY <1>2, <2>2, <2>3, <2>5 DEF DeviceInv
<1>8. ASSUME NEW r \in DeviceRequests, D!Answer(r) \/ D!Lose(r) PROVE DeviceInv'
  <2>1. /\ d_request' = [d_request EXCEPT ![r] = D!Idle] /\ UNCHANGED <<limit, most, links>>
        /\ \/ d_request[r].at = "answer" /\ answered' = answered \cup {d_request[r].seq} /\ d_locker' = d_locker
           \/ answered' = answered /\ d_locker' = IF d_locker = r THEN "nobody" ELSE d_locker
    BY <1>8 DEF D!Answer, D!Lose
  <2>2. DeviceTypes'
    BY <1>1, <1>2, <1>3, <2>1 DEF DeviceTypes
  <2>3. PlaceIsKept' /\ KeysAreOfRows'
    BY <1>1, <1>2, <1>3, <2>1 DEF PlaceIsKept, KeysAreOfRows, D!DevicesAssumption
  <2>4. QED
    BY <1>2, <2>2, <2>3 DEF DeviceInv
<1>9. ASSUME NEW n \in Limits, D!SetLimit(n) PROVE DeviceInv'
  <2>1. UNCHANGED <<d_request, d_locker, links, answered>>
    BY <1>9 DEF D!SetLimit
  <2>2. DeviceTypes'
    BY <1>1, <1>2, <1>3, <2>1 DEF DeviceTypes
  <2>3. PlaceIsKept' /\ KeysAreOfRows'
    BY <1>1, <1>2, <1>3, <2>1 DEF PlaceIsKept, KeysAreOfRows
  <2>4. QED
    BY <1>2, <2>2, <2>3 DEF DeviceInv
<1>10. QED
    BY <1>2, <1>5, <1>6, <1>7, <1>8, <1>9

\* The commit: a row behind the others, for which there is still room.
LEMMA CommitStep ==
    ASSUME D!DevicesAssumption, DeviceInv, NEW r \in DeviceRequests, D!CommitIssue(r)
    PROVE  DeviceInv' /\ RowsKept
<1> DEFINE x == Issued + 1
<1>1. /\ DeviceTypes /\ PlaceIsKept /\ KeysAreOfRows /\ Issued \in Nat
      /\ DOMAIN devices = 1 .. Issued /\ IsFiniteSet(DOMAIN devices)
      /\ D!Active \subseteq DOMAIN devices /\ IsFiniteSet(D!Active)
      /\ Cardinality(D!Active) \in Nat
      /\ devices \in [1 .. Issued -> {"active", "revoked"}]
      /\ limit \in Nat /\ most \in Nat /\ limit <= most
      /\ d_request \in [DeviceRequests -> [at : {"idle", "lock", "put", "commit", "answer"},
                                   limit : 0 .. most, seq : Nat]]
      /\ D!RevokedIsListed /\ D!KeysLeaveOnce
    BY RowsAre DEF DeviceInv, DeviceTypes
<1>2. /\ d_request[r].at = "commit" /\ d_locker = r /\ d_request[r].seq = x
      /\ Cardinality(D!Active) < d_request[r].limit
    BY <1>1 DEF D!CommitIssue, PlaceIsKept
<1>3. /\ devices' = [seq \in DOMAIN devices \cup {x} |-> IF seq = x THEN "active" ELSE devices[seq]]
      /\ d_locker' = "nobody" /\ d_request' = [d_request EXCEPT ![r].at = "answer"]
      /\ UNCHANGED <<revocations, limit, most, links, answered, d_loaded>>
    BY <1>2 DEF D!CommitIssue, D!Goto, D!Nobody
<1>4. x \in Nat /\ x \notin DOMAIN devices /\ (1 .. Issued) \cup {x} = 1 .. x
    BY <1>1
<1>5. /\ DOMAIN devices' = 1 .. x /\ devices' \in [1 .. x -> {"active", "revoked"}]
      /\ \A seq \in DOMAIN devices : seq # x /\ seq \in DOMAIN devices' /\ devices'[seq] = devices[seq]
      /\ devices'[x] = "active"
    BY <1>1, <1>3, <1>4
<1>6. Issued' = x /\ D!Cardinality(DOMAIN devices') = x
    BY <1>4, <1>5, FS_Interval, SameCardinality DEF Issued
<1>7. D!Active' = D!Active \cup {x} /\ x \notin D!Active
    BY <1>1, <1>3, <1>4, <1>5 DEF D!Active
<1>8. Cardinality(D!Active') = Cardinality(D!Active) + 1
    BY <1>1, <1>7, FS_AddElement
<1> HIDE DEF x
<1>9. RowsKept
    BY <1>5, <1>6 DEF RowsKept
<1>10. D!WithinLimit'
  <2>1. d_request[r].limit \in 0 .. most
    BY <1>1
  <2>2. Cardinality(D!Active') <= most'
    BY <1>1, <1>2, <1>3, <1>8, <2>1
  <2>3. QED
    BY <2>2, SameCardinality DEF D!WithinLimit
<1>11. D!RevokedIsListed'
  <2>1. DOMAIN devices' \ D!Active' = DOMAIN devices \ D!Active
    BY <1>1, <1>3, <1>4, <1>5, <1>7
  <2>2. QED
    BY <1>1, <1>3, <2>1 DEF D!RevokedIsListed
<1>12. D!KeysLeaveOnce' /\ KeysAreOfRows'
    BY <1>1, <1>3, <1>5 DEF D!KeysLeaveOnce, KeysAreOfRows
<1>13. DeviceTypes'
  <2>1. d_request' \in [DeviceRequests -> [at : {"idle", "lock", "put", "commit", "answer"},
                                   limit : 0 .. most, seq : Nat]]
    BY <1>1, <1>3
  <2>2. revocations' \in Seq(Nat) /\ d_loaded' \in Seq(Nat)
    BY <1>1, <1>3 DEF DeviceTypes
  <2>3. QED
    BY <1>1, <1>3, <1>4, <1>5, <1>6, <2>1, <2>2 DEF DeviceTypes
<1>14. PlaceIsKept'
  <2>1. ASSUME NEW q \in DeviceRequests
        PROVE  /\ d_request'[q].at \in {"put", "commit"} <=> d_locker' = q
               /\ d_locker' # q
               /\ d_request'[q].at = "answer" => d_request'[q].seq \in DOMAIN devices'
    <3>1. d_locker' # q
      BY <1>3 DEF D!DevicesAssumption
    <3>2. CASE q = r
      <4>1. d_request'[q].at = "answer" /\ d_request'[q].seq = x
        BY <1>1, <1>2, <1>3, <3>2
      <4>2. QED
        BY <1>1, <1>3, <1>4, <1>5, <3>1, <4>1
    <3>3. CASE q # r
      <4>1. d_request'[q] = d_request[q] /\ d_locker # q
        BY <1>1, <1>2, <1>3, <3>3
      <4>2. QED
        BY <1>1, <1>5, <3>1, <4>1 DEF PlaceIsKept
    <3>4. QED
      BY <3>2, <3>3
  <2>2. QED
    BY <2>1 DEF PlaceIsKept
<1>15. QED
    BY <1>9, <1>10, <1>11, <1>12, <1>13, <1>14 DEF DeviceInv

\* A key is downloaded once, for it leaves Redis with it; a link is forgotten.
LEMMA LinkStep ==
    ASSUME DeviceInv, NEW seq \in 1 .. MaxSeq, D!TakeP12(seq) \/ D!Forget(seq)
    PROVE  DeviceInv' /\ RowsKept
<1>1. /\ DeviceTypes /\ PlaceIsKept /\ KeysAreOfRows /\ Issued \in Nat
      /\ DOMAIN devices = 1 .. Issued /\ d_loaded \in Seq(Nat)
      /\ D!WithinLimit /\ D!RevokedIsListed /\ D!KeysLeaveOnce
    BY RowsAre DEF DeviceInv, DeviceTypes
<1>2. /\ links' = links \ {seq} /\ seq \in links
      /\ UNCHANGED <<devices, revocations, limit, most, d_request, d_locker, answered>>
    BY DEF D!TakeP12, D!Forget
<1>3. /\ RowsKept /\ D!WithinLimit' /\ D!RevokedIsListed' /\ PlaceIsKept' /\ D!Active' = D!Active
  <2>1. D!Active' = D!Active /\ Issued' = Issued
    BY <1>2 DEF D!Active, Issued
  <2>2. D!WithinLimit' /\ D!RevokedIsListed'
    BY <1>1, <1>2, <2>1 DEF D!WithinLimit, D!RevokedIsListed
  <2>3. PlaceIsKept'
    BY <1>1, <1>2, <2>1 DEF PlaceIsKept
  <2>4. RowsKept
    BY <1>1, <1>2, SameCardinality DEF RowsKept, Issued
  <2>5. QED
    BY <2>1, <2>2, <2>3, <2>4
<1>4. CASE D!TakeP12(seq)
  <2>1. seq \in answered /\ d_loaded' = Append(d_loaded, seq)
    BY <1>4 DEF D!TakeP12
  <2>2. seq \in DOMAIN devices /\ seq \in Nat
    BY <1>1, <2>1 DEF KeysAreOfRows
  <2>3. /\ d_loaded' \in Seq(Nat) /\ Len(d_loaded) \in Nat /\ DOMAIN d_loaded = 1 .. Len(d_loaded)
        /\ Len(d_loaded') = Len(d_loaded) + 1 /\ DOMAIN d_loaded' = 1 .. Len(d_loaded')
        /\ \A i \in 1 .. Len(d_loaded) : d_loaded'[i] = d_loaded[i]
        /\ d_loaded'[Len(d_loaded) + 1] = seq
    BY <1>1, <2>1, <2>2, AppendProperties, LenProperties
  <2>4. \A i \in 1 .. Len(d_loaded) : d_loaded[i] \in DOMAIN devices \ links
    BY <1>1, <2>3 DEF KeysAreOfRows
  <2>5. \A i \in 1 .. Len(d_loaded') : i \in 1 .. Len(d_loaded) \/ i = Len(d_loaded) + 1
    BY <2>3
  <2>6. KeysAreOfRows'
    BY <1>1, <1>2, <2>2, <2>3, <2>4, <2>5 DEF KeysAreOfRows
  <2>7. D!KeysLeaveOnce'
    BY <1>1, <1>2, <2>2, <2>3, <2>4, <2>5 DEF D!KeysLeaveOnce
  <2>8. DeviceTypes'
    BY <1>1, <1>2, <2>3 DEF DeviceTypes, Issued
  <2>9. QED
    BY <1>3, <2>6, <2>7, <2>8 DEF DeviceInv
<1>5. CASE D!Forget(seq)
  <2>1. d_loaded' = d_loaded
    BY <1>5 DEF D!Forget
  <2>2. KeysAreOfRows' /\ D!KeysLeaveOnce' /\ DeviceTypes'
    BY <1>1, <1>2, <2>1 DEF KeysAreOfRows, D!KeysLeaveOnce, DeviceTypes, Issued
  <2>3. QED
    BY <1>3, <2>2 DEF DeviceInv
<1>6. QED
    BY <1>4, <1>5

\* A device is revoked once, and listed then.
LEMMA RevokeStep ==
    ASSUME DeviceInv, NEW seq \in 1 .. MaxSeq, D!Revoke(seq)
    PROVE  DeviceInv' /\ RowsKept
<1> DEFINE Withdrawn == DOMAIN devices \ D!Active
           n == Len(revocations)
<1>1. /\ DeviceTypes /\ PlaceIsKept /\ KeysAreOfRows /\ Issued \in Nat
      /\ DOMAIN devices = 1 .. Issued /\ IsFiniteSet(D!Active) /\ IsFiniteSet(Withdrawn)
      /\ D!Active \subseteq DOMAIN devices /\ Cardinality(D!Active) \in Nat
      /\ Cardinality(Withdrawn) \in Nat
      /\ devices \in [1 .. Issued -> {"active", "revoked"}] /\ revocations \in Seq(Nat)
      /\ most \in Nat /\ Cardinality(D!Active) <= most
      /\ {revocations[i] : i \in DOMAIN revocations} = Withdrawn /\ n = Cardinality(Withdrawn)
      /\ d_request \in [DeviceRequests -> [at : {"idle", "lock", "put", "commit", "answer"},
                                   limit : 0 .. most, seq : Nat]]
      /\ D!KeysLeaveOnce
    BY RowsAre, SameCardinality DEF DeviceInv, DeviceTypes, D!WithinLimit, D!RevokedIsListed
<1>2. /\ seq \in D!Active /\ devices' = [devices EXCEPT ![seq] = "revoked"]
      /\ revocations' = Append(revocations, seq)
      /\ UNCHANGED <<limit, most, d_request, d_locker, links, answered, d_loaded>>
    BY DEF D!Revoke
<1>3. /\ DOMAIN devices' = DOMAIN devices /\ devices' \in [1 .. Issued -> {"active", "revoked"}]
      /\ devices'[seq] = "revoked" /\ \A i \in DOMAIN devices \ {seq} : devices'[i] = devices[i]
    BY <1>1, <1>2
<1>4. Issued' = Issued
    BY <1>3 DEF Issued
<1>5. D!Active' = D!Active \ {seq} /\ Withdrawn' = Withdrawn \cup {seq} /\ seq \notin Withdrawn
  <2>1. D!Active' = D!Active \ {seq}
    BY <1>1, <1>2, <1>3 DEF D!Active
  <2>2. QED
    BY <1>1, <1>2, <1>3, <2>1
<1> HIDE DEF Withdrawn
<1>6. /\ Cardinality(D!Active') = Cardinality(D!Active) - 1
      /\ Cardinality(Withdrawn') = Cardinality(Withdrawn) + 1
    BY <1>1, <1>2, <1>5, FS_RemoveElement, FS_AddElement
<1>7. /\ revocations' \in Seq(Nat) /\ n \in Nat /\ DOMAIN revocations = 1 .. n
      /\ Len(revocations') = n + 1 /\ DOMAIN revocations' = 1 .. n + 1
      /\ \A i \in 1 .. n : revocations'[i] = revocations[i]
      /\ revocations'[n + 1] = seq
  <2>1. seq \in Nat
    OBVIOUS
  <2>2. QED
    BY <1>1, <1>2, <2>1, AppendProperties, LenProperties
<1>8. {revocations'[i] : i \in DOMAIN revocations'} = Withdrawn \cup {seq}
  <2>1. \A i \in 1 .. n + 1 : i \in 1 .. n \/ i = n + 1
    BY <1>7
  <2>2. 1 .. n \subseteq 1 .. n + 1 /\ n + 1 \in 1 .. n + 1
    BY <1>7
  <2>3. Withdrawn = {revocations[i] : i \in 1 .. n}
    BY <1>1, <1>7
  <2> HIDE DEF n
  <2>4. QED
    BY <1>7, <2>1, <2>2, <2>3
<1>9. D!RevokedIsListed'
  <2>1. Len(revocations') = Cardinality(Withdrawn')
    BY <1>1, <1>6, <1>7
  <2>2. QED
    BY <1>5, <1>8, <2>1, SameCardinality DEF D!RevokedIsListed, Withdrawn
<1>10. D!WithinLimit'
  <2>1. Cardinality(D!Active') <= most'
    BY <1>1, <1>2, <1>6
  <2>2. QED
    BY <2>1, SameCardinality DEF D!WithinLimit
<1>11. D!KeysLeaveOnce' /\ KeysAreOfRows'
    BY <1>1, <1>2, <1>3 DEF D!KeysLeaveOnce, KeysAreOfRows
<1>12. DeviceTypes'
    BY <1>1, <1>2, <1>3, <1>4, <1>7 DEF DeviceTypes
<1>13. PlaceIsKept'
  <2>1. ASSUME NEW r \in DeviceRequests, d_locker = r
        PROVE  Cardinality(D!Active') < d_request[r].limit
    <3>1. Cardinality(D!Active) < d_request[r].limit /\ d_request[r].limit \in Nat
      BY <1>1, <2>1 DEF PlaceIsKept
    <3>2. QED
      BY <1>1, <1>6, <3>1
  <2>2. QED
    BY <1>1, <1>2, <1>3, <1>4, <2>1 DEF PlaceIsKept
<1>14. RowsKept
    BY <1>1, <1>3, <1>4, SameCardinality DEF RowsKept, Issued
<1>15. QED
    BY <1>9, <1>10, <1>11, <1>12, <1>13, <1>14 DEF DeviceInv

\* Requests that meet at the last free place do not both get it, a number is given to one device
\* for ever, the list of revocations names every revoked device once, and a key leaves the
\* server once and only for a device that exists.
THEOREM DevicesAreRight ==
    ASSUME D!DevicesAssumption
    PROVE  D!Spec => DevicesAddUp
<1>1. D!Init => DeviceInv
  <2> SUFFICES ASSUME D!Init PROVE DeviceInv
    OBVIOUS
  <2>1. /\ devices = << >> /\ revocations = << >> /\ limit \in Nat /\ most = limit
        /\ d_request = [r \in DeviceRequests |-> D!Idle] /\ d_locker = "nobody"
        /\ answered = {} /\ d_loaded = << >>
    BY DEF D!Init, D!Nobody, D!DevicesAssumption
  <2>2. DOMAIN devices = {} /\ D!Active = {}
    BY <2>1 DEF D!Active
  <2>3. Issued = 0 /\ D!Cardinality({}) = 0
    BY <2>2, FS_EmptySet, SameCardinality DEF Issued
  <2>4. DeviceTypes
    BY <2>1, <2>3, EmptySeq DEF DeviceTypes, D!Idle
  <2>5. PlaceIsKept
    BY <2>1 DEF PlaceIsKept, D!Idle, D!DevicesAssumption
  <2>6. KeysAreOfRows /\ D!KeysLeaveOnce
    BY <2>1, EmptySeq DEF KeysAreOfRows, D!KeysLeaveOnce
  <2>7. D!WithinLimit /\ D!RevokedIsListed
    BY <2>1, <2>2, <2>3, EmptySeq DEF D!WithinLimit, D!RevokedIsListed
  <2>8. QED
    BY <2>4, <2>5, <2>6, <2>7 DEF DeviceInv
<1>2. DeviceInv /\ [D!Next]_(D!vars) => DeviceInv' /\ RowsKept
  <2> SUFFICES ASSUME DeviceInv, [D!Next]_(D!vars) PROVE DeviceInv' /\ RowsKept
    OBVIOUS
  <2>1. ASSUME NEW r \in DeviceRequests,
               D!ReadLimit(r) \/ D!Lock(r) \/ D!PutP12(r) \/ D!Answer(r) \/ D!Lose(r)
        PROVE  DeviceInv' /\ RowsKept
    BY <2>1, RequestStep
  <2>2. ASSUME NEW n \in Limits, D!SetLimit(n) PROVE DeviceInv' /\ RowsKept
    BY <2>2, RequestStep
  <2>3. ASSUME NEW r \in DeviceRequests, D!CommitIssue(r) PROVE DeviceInv' /\ RowsKept
    BY <2>3, CommitStep
  <2>4. ASSUME NEW seq \in 1 .. MaxSeq, D!TakeP12(seq) \/ D!Forget(seq)
        PROVE  DeviceInv' /\ RowsKept
    BY <2>4, LinkStep
  <2>5. ASSUME NEW seq \in 1 .. MaxSeq, D!Revoke(seq) PROVE DeviceInv' /\ RowsKept
    BY <2>5, RevokeStep
  <2>6. CASE UNCHANGED D!vars
    <3>1. UNCHANGED <<devices, revocations, limit, most, d_request, d_locker, links, answered, d_loaded>>
      BY <2>6 DEF D!vars
    <3>2. /\ RowsKept /\ D!WithinLimit' /\ D!RevokedIsListed' /\ D!KeysLeaveOnce'
          /\ Issued' = Issued /\ D!Active' = D!Active
      BY <3>1, RowsUntouched DEF DeviceInv, DeviceTypes
    <3>3. DeviceTypes' /\ PlaceIsKept' /\ KeysAreOfRows'
      BY <3>1, <3>2 DEF DeviceInv, DeviceTypes, PlaceIsKept, KeysAreOfRows
    <3>4. QED
      BY <3>2, <3>3 DEF DeviceInv
  <2>7. QED
    BY <2>1, <2>2, <2>3, <2>4, <2>5, <2>6 DEF D!Next
<1>3. DeviceInv => D!WithinLimit /\ D!RevokedIsListed /\ D!KeysLeaveOnce
    BY DEF DeviceInv
<1>4. DeviceInv /\ [D!Next]_(D!vars)
        => [/\ \A seq \in DOMAIN devices :
                 seq \in DOMAIN devices' /\ (devices[seq] = "revoked" => devices'[seq] = "revoked")
            /\ DOMAIN devices' = 1 .. D!Cardinality(DOMAIN devices')]_(D!vars)
    BY <1>2 DEF RowsKept
<1>5. DeviceInv /\ [D!Next]_(D!vars) => DeviceInv'
    BY <1>2
<1>6. QED
    BY <1>1, <1>3, <1>4, <1>5, PTL DEF D!Spec, DevicesAddUp, D!DevicesAddUp, D!NumbersAreOnce

----------------------------------------------------------------------------
\* Announcements.

\* There are a term and a period once there is a subscription, and there is one once there are
\* events.
WordTypes ==
    /\ A!TypeOK
    /\ a_sub.status # "none" => a_sub.term >= 1 /\ a_sub.period >= 1
    /\ a_events # {} => a_sub.status # "none"

\* What is so now has been noted.
FactsArePast == A!Facts \subseteq past

\* An operation records events of what it has made so.
LEMMA OperationTypes ==
    ASSUME A!AnnouncementsAssumption, WordTypes, A!Operation
    PROVE  WordTypes'
<1> USE DEF A!AnnouncementsAssumption, WordTypes, A!TypeOK, A!Plan, A!Live, A!Open
<1>1. ASSUME NEW kind \in {"activated", "expired"}, NEW about \in 1 .. MaxTerms, A!Record(kind, about)
      PROVE  a_events' \subseteq A!Event
    BY <1>1 DEF A!Record, A!Event
<1>2. ASSUME NEW kind \in {"warning", "exhausted"}, NEW about \in 1 .. MaxPeriods, A!Record(kind, about)
      PROVE  a_events' \subseteq A!Event
    BY <1>2 DEF A!Record, A!Event
<1>3. CASE A!StartTrial
  <2>1. a_events' \subseteq A!Event
    BY <1>1, <1>3 DEF A!StartTrial
  <2>2. a_sub' = [status |-> "live", trial |-> TRUE, term |-> 1,
                     period |-> 1, used |-> a_sub.used, limit |-> a_sub.limit]
    BY <1>3 DEF A!StartTrial
  <2>3. blocked' = blocked
    BY <1>3 DEF A!StartTrial
  <2>4. WordTypes'
    <3>1. a_sub' \in [status : {"none", "live", "exhausted", "expired", "blocked"}, trial : BOOLEAN,
                     term : 0 .. MaxTerms, period : 0 .. MaxPeriods, used : 0 .. A!Plan + 1,
                     limit : {A!Plan, A!Plan + 1}]
      BY <2>2, <2>3
    <3>2. a_sub'.term >= 1 /\ a_sub'.period >= 1 /\ a_sub'.status \notin {"none", "blocked"}
      BY <2>2, <2>3
    <3>3. blocked' \in BOOLEAN
      BY <2>3
    <3>4. QED
      BY <2>1, <3>1, <3>2, <3>3
  <2>5. QED
    BY <2>4
<1>4. CASE A!Renew
  <2>1. a_events' \subseteq A!Event
    BY <1>1, <1>4 DEF A!Renew
  <2>2. QED
    BY <2>1, <1>4 DEF A!Renew
<1>5. CASE A!ExtendDays
  <2>1. a_events' \subseteq A!Event
    BY <1>1, <1>5 DEF A!ExtendDays
  <2>2. a_sub' = [status |-> "live", trial |-> a_sub.trial, term |-> a_sub.term + 1,
                     period |-> a_sub.period, used |-> a_sub.used, limit |-> a_sub.limit]
    BY <1>5 DEF A!ExtendDays
  <2>3. blocked' = blocked /\ a_sub.term < MaxTerms /\ a_sub.status # "none"
    BY <1>5 DEF A!ExtendDays
  <2>4. WordTypes'
    <3>1. a_sub' \in [status : {"none", "live", "exhausted", "expired", "blocked"}, trial : BOOLEAN,
                     term : 0 .. MaxTerms, period : 0 .. MaxPeriods, used : 0 .. A!Plan + 1,
                     limit : {A!Plan, A!Plan + 1}]
      BY <2>2, <2>3
    <3>2. a_sub'.term >= 1 /\ a_sub'.period >= 1 /\ a_sub'.status \notin {"none", "blocked"}
      BY <2>2, <2>3
    <3>3. blocked' \in BOOLEAN
      BY <2>3
    <3>4. QED
      BY <2>1, <3>1, <3>2, <3>3
  <2>5. QED
    BY <2>4
<1>6. CASE A!Expire
  <2>1. a_events' \subseteq A!Event
    BY <1>1, <1>6 DEF A!Expire
  <2>2. QED
    BY <2>1, <1>6 DEF A!Expire
<1>7. CASE A!ExpireNow
  <2>1. a_events' \subseteq A!Event
    BY <1>1, <1>7 DEF A!ExpireNow
  <2>2. a_sub' = [status |-> "expired", trial |-> a_sub.trial, term |-> a_sub.term + 1,
                     period |-> a_sub.period, used |-> a_sub.used, limit |-> a_sub.limit]
    BY <1>7 DEF A!ExpireNow
  <2>3. blocked' = blocked /\ a_sub.term < MaxTerms /\ a_sub.status = "live"
    BY <1>7 DEF A!ExpireNow
  <2>4. WordTypes'
    <3>1. a_sub' \in [status : {"none", "live", "exhausted", "expired", "blocked"}, trial : BOOLEAN,
                     term : 0 .. MaxTerms, period : 0 .. MaxPeriods, used : 0 .. A!Plan + 1,
                     limit : {A!Plan, A!Plan + 1}]
      BY <2>2, <2>3
    <3>2. a_sub'.term >= 1 /\ a_sub'.period >= 1 /\ a_sub'.status \notin {"none", "blocked"}
      BY <2>2, <2>3
    <3>3. blocked' \in BOOLEAN
      BY <2>3
    <3>4. QED
      BY <2>1, <3>1, <3>2, <3>3
  <2>5. QED
    BY <2>4
<1>8. ASSUME NEW used \in 0 .. A!Plan + 1, A!Poll(used) PROVE WordTypes'
  <2>1. a_events' \subseteq A!Event
    BY <1>2, <1>8 DEF A!Poll
  <2>2. a_sub.status = "live" /\ blocked' = blocked
    BY <1>8 DEF A!Poll
  <2>3. \/ a_sub' = [a_sub EXCEPT !.used = used, !.status = "exhausted"]
        \/ a_sub' = [a_sub EXCEPT !.used = used, !.status = a_sub.status]
    BY <1>8 DEF A!Poll
  <2>4. QED
    BY <2>1, <2>2, <2>3
<1>9. CASE A!GrantTraffic
  <2>1. a_sub' = [status |-> "live", trial |-> a_sub.trial, term |-> a_sub.term,
                  period |-> a_sub.period, used |-> a_sub.used, limit |-> A!Plan + 1]
    BY <1>9 DEF A!GrantTraffic
  <2>2. QED
    BY <1>9, <2>1 DEF A!GrantTraffic
<1>12. CASE A!ResetTraffic
  <2>1. a_sub' = [status |-> "live", trial |-> a_sub.trial, term |-> a_sub.term,
                  period |-> a_sub.period + 1, used |-> 0, limit |-> a_sub.limit]
    BY <1>12 DEF A!ResetTraffic
  <2>2. QED
    BY <1>12, <2>1 DEF A!ResetTraffic
<1>13. CASE A!Block
    BY <1>13 DEF A!Block
<1>10. CASE A!Unblock
    BY <1>10 DEF A!Unblock
<1>11. QED
    BY <1>3, <1>4, <1>5, <1>6, <1>7, <1>8, <1>9, <1>10, <1>12, <1>13 DEF A!Operation

WordsInv == WordTypes /\ FactsArePast /\ A!AlarmsAreTrue

LEMMA WordsStep ==
    ASSUME A!AnnouncementsAssumption, WordsInv, [A!Next]_(A!vars)
    PROVE  WordsInv'
<1> USE DEF WordsInv, FactsArePast
<1>1. ASSUME A!Operation, past' = past \cup A!Facts', UNCHANGED a_told PROVE WordsInv'
  <2>1. WordTypes'
    BY <1>1, OperationTypes
  <2>2. A!AlarmsAreTrue'
    BY <1>1 DEF A!AlarmsAreTrue
  <2>3. QED
    BY <1>1, <2>1, <2>2
<1>2. ASSUME NEW e \in a_events, A!Deliver(e) PROVE WordsInv'
  <2>1. UNCHANGED <<a_sub, blocked, past>> /\ a_events' = a_events \ {e}
    BY <1>2 DEF A!Deliver
  <2>2. WordTypes' /\ FactsArePast'
    BY <2>1 DEF WordTypes, A!TypeOK, A!Facts, A!Warned
  <2>3. a_sub.status # "none" /\ a_sub.period \in 1 .. MaxPeriods
    BY DEF WordTypes, A!TypeOK
  <2>4. \A m \in a_told' : m \in a_told \/
          \/ m = <<"trial_started", 0>>
          \/ m = <<"expired", a_sub.term>> /\ a_sub.status \in {"exhausted", "expired"}
          \/ m = <<"traffic_warning", a_sub.period>> /\ m \in past
          \/ m = <<"traffic_exhausted", a_sub.period>> /\ m \in past
    <3>1. CASE A!TrialStarted(e)
      BY <3>1 DEF A!TrialStarted, A!ToClient
    <3>2. CASE A!SubscriptionExpired(e)
      BY <3>2, <2>3 DEF A!SubscriptionExpired, A!ToClient, A!Live, WordTypes, A!TypeOK
    <3>3. CASE A!TrafficWarning(e)
      BY <3>3 DEF A!TrafficWarning, A!ToClient, A!Facts
    <3>4. CASE A!TrafficExhausted(e)
      BY <3>4 DEF A!TrafficExhausted, A!ToClient, A!Facts
    <3>5. QED
      BY <1>2, <3>1, <3>2, <3>3, <3>4 DEF A!Deliver
  <2>5. /\ a_sub.status = "expired" => <<"expired", a_sub.term>> \in past
        /\ a_sub.status = "exhausted" => <<"traffic_exhausted", a_sub.period>> \in past
    BY DEF A!Facts
  <2>6. ASSUME NEW m \in a_told'
        PROVE  /\ m[1] \in {"traffic_warning", "traffic_exhausted"} => m \in past
               /\ m[1] = "expired" =>
                    m \in past \/ \E p \in 1 .. MaxPeriods : <<"traffic_exhausted", p>> \in past
    <3>1. CASE m \in a_told
      BY <3>1 DEF A!AlarmsAreTrue
    <3>2. CASE m = <<"expired", a_sub.term>> /\ a_sub.status \in {"exhausted", "expired"}
      BY <3>2, <2>3, <2>5
    <3>3. CASE m = <<"trial_started", 0>>
      BY <3>3
    <3>4. CASE m = <<"traffic_warning", a_sub.period>> /\ m \in past
      BY <3>4
    <3>5. CASE m = <<"traffic_exhausted", a_sub.period>> /\ m \in past
      BY <3>5
    <3>6. QED
      BY <2>4, <3>1, <3>2, <3>3, <3>4, <3>5
  <2>7. A!AlarmsAreTrue'
    BY <2>1, <2>6 DEF A!AlarmsAreTrue
  <2>8. QED
    BY <2>2, <2>7
<1>3. CASE UNCHANGED A!vars
    BY <1>3 DEF A!vars, WordTypes, A!TypeOK, A!Facts, A!Warned, A!AlarmsAreTrue
<1>4. QED
    BY <1>1, <1>2, <1>3 DEF A!Next

----------------------------------------------------------------------------
\* Reminders.

RemindersInv ==
    /\ q_now \in Nat /\ since \in Nat /\ lastRun \in Nat /\ lastRun <= q_now /\ since <= q_now
    /\ q_sub.expires \in Nat /\ q_sub.started \in Nat /\ late \in BOOLEAN
    /\ Q!NobodyIsPassedOver

\* A run meets the ends that came near since the run before; a change makes an end that is not
\* near yet, or one that no reminder is due for.
LEMMA RemindersStep ==
    ASSUME Q!RemindersAssumption, RemindersInv, [Q!Next]_(Q!vars)
    PROVE  RemindersInv'
<1> USE DEF Q!RemindersAssumption, RemindersInv
<1>1. CASE Q!Tick
    BY <1>1 DEF Q!Tick, Q!NobodyIsPassedOver, Q!LongEnough, Q!Key
<1>2. CASE Q!Remind
  <2>1. /\ UNCHANGED <<q_now, q_sub, since>> /\ lastRun' = q_now
        /\ late' = (late \/ q_now - lastRun > ReminderWindow)
        /\ \A n \in Thresholds :
             q_sub.plain /\ Q!Due(n) /\ Q!LongEnough(q_sub, n) => Q!Key(q_sub, n) \in queued'
        /\ queued \subseteq queued'
    BY <1>2 DEF Q!Remind
  <2>2. late' \in BOOLEAN
    BY <2>1
  <2>3. ASSUME NEW n \in Thresholds, ~late', q_sub.plain, Q!LongEnough(q_sub, n),
               since <= q_sub.expires - n, q_sub.expires - n < q_now
        PROVE  Q!Key(q_sub, n) \in queued'
    <3>1. ~late /\ q_now - lastRun <= ReminderWindow /\ n \in Nat /\ ReminderWindow \in Nat
      <4>1. ~(late \/ q_now - lastRun > ReminderWindow)
        BY <2>1, <2>3, Zenon
      <4>2. q_now \in Nat /\ lastRun \in Nat /\ ReminderWindow \in Nat /\ n \in Nat
        OBVIOUS
      <4>3. ~late /\ ~(q_now - lastRun > ReminderWindow)
        BY <4>1, Zenon
      <4>4. QED
        BY <4>2, <4>3
    <3>2. CASE q_sub.expires - n < lastRun
      BY <2>1, <2>3, <3>1, <3>2 DEF Q!NobodyIsPassedOver
    <3>3. CASE ~(q_sub.expires - n < lastRun)
      <4>1. Q!Due(n)
        BY <2>3, <3>1, <3>3 DEF Q!Due
      <4>2. QED
        BY <2>1, <2>3, <4>1
    <3>4. QED
      BY <3>2, <3>3
  <2>4. Q!NobodyIsPassedOver'
    BY <2>1, <2>3 DEF Q!NobodyIsPassedOver, Q!LongEnough, Q!Key
  <2>5. QED
    BY <2>1, <2>2, <2>4
<1>3. ASSUME NEW anew \in BOOLEAN, NEW plain \in BOOLEAN, NEW term \in Terms,
             Q!Change(anew, term, plain)
      PROVE  RemindersInv'
  <2>1. /\ q_sub'.expires \in Nat /\ q_sub'.started \in Nat /\ since' = q_now
        /\ UNCHANGED <<q_now, queued, lastRun, late>>
    BY <1>3 DEF Q!Change
  <2>2. ASSUME NEW n \in Thresholds, since' <= q_sub'.expires - n, q_sub'.expires - n < lastRun'
        PROVE  FALSE
    <3>1. n \in Int /\ q_sub'.expires \in Int /\ lastRun' <= since' /\ since' \in Int /\ lastRun' \in Int
      BY <2>1
    <3>2. QED
      BY <2>2, <3>1
  <2>4. Q!NobodyIsPassedOver'
    BY <2>2 DEF Q!NobodyIsPassedOver
  <2>3. QED
    BY <2>1, <2>4
<1>4. CASE UNCHANGED Q!vars
    BY <1>4 DEF Q!vars, Q!NobodyIsPassedOver, Q!LongEnough, Q!Key
<1>5. QED
    BY <1>1, <1>2, <1>3, <1>4 DEF Q!Next

\* Announcements: whatever the order and the delay of the events, nobody is told of traffic that
\* was not low or used up, nor of an end that did not come (subscription_expired,
\* traffic_warning, traffic_exhausted).  Reminders: while no run is late, the windows of two runs
\* leave nobody out, for any thresholds and window (enqueue_expiry_reminders).
THEOREM WordsAreTrue ==
    ASSUME A!AnnouncementsAssumption, Q!RemindersAssumption
    PROVE  A!Spec /\ Q!Spec => [](A!TypeOK /\ ClientsAreToldRight)
<1>1. A!Init => WordsInv
  <2>1. ASSUME A!Init PROVE WordTypes
    <3>1. /\ a_sub = [status |-> "none", trial |-> FALSE, term |-> 0, period |-> 0, used |-> 0,
                      limit |-> A!Plan]
          /\ a_events = {}
      BY <2>1 DEF A!Init
    <3>2. blocked \in BOOLEAN
      BY <2>1 DEF A!Init
    <3>3. QED
      BY <3>1, <3>2 DEF WordTypes, A!TypeOK, A!Plan, A!AnnouncementsAssumption
  <2>2. ASSUME A!Init PROVE FactsArePast /\ A!AlarmsAreTrue
    BY <2>2 DEF A!Init, FactsArePast, A!Facts, A!Warned, A!Plan, A!AlarmsAreTrue
  <2>3. QED
    BY <2>1, <2>2 DEF WordsInv
<1>2. WordsInv /\ [A!Next]_(A!vars) => WordsInv'
    BY WordsStep
<1>3. Q!Init => RemindersInv
  <2>1. ASSUME Q!Init PROVE RemindersInv
    <3>1. /\ q_now = 0 /\ since = 0 /\ lastRun = 0 /\ q_sub.expires \in Nat \ {0} /\ q_sub.started = 0
      BY <2>1 DEF Q!Init, Q!RemindersAssumption
    <3>2. late \in BOOLEAN
      BY <2>1 DEF Q!Init
    <3>3. ASSUME NEW n \in Thresholds, since <= q_sub.expires - n, q_sub.expires - n < lastRun
          PROVE  FALSE
      <4>1. n \in Int /\ q_sub.expires \in Int /\ since = 0 /\ lastRun = 0
        BY <3>1 DEF Q!RemindersAssumption
      <4>2. 0 <= q_sub.expires - n /\ q_sub.expires - n < 0
        BY <3>3, <4>1
      <4>3. QED
        BY <4>1, <4>2
    <3>4. Q!NobodyIsPassedOver
      BY <3>3 DEF Q!NobodyIsPassedOver
    <3>5. QED
      BY <3>1, <3>2, <3>4 DEF RemindersInv
  <2>2. QED
    BY <2>1
<1>4. RemindersInv /\ [Q!Next]_(Q!vars) => RemindersInv'
    BY RemindersStep
<1>5. WordsInv /\ RemindersInv => A!TypeOK /\ ClientsAreToldRight
    BY DEF WordsInv, WordTypes, RemindersInv, ClientsAreToldRight
<1>6. QED
    BY <1>1, <1>2, <1>3, <1>4, <1>5, PTL DEF A!Spec, Q!Spec

----------------------------------------------------------------------------
\* Notifications.

MsgRow == [status : {"none", "pending", "sent", "failed", "undeliverable"},
           attempts : 0 .. MaxAttempts, wait : 0 .. MaxBackoff, age : Nat]
MsgJob == [msg : {0} \cup M!Messages, at : {"idle", "batch", "post", "accepted"}, left : 0 .. BatchSize]

OutboxTypes ==
    /\ m_rows \in [M!Messages -> MsgRow] /\ job \in [Senders -> MsgJob]
    /\ m_copies \in [M!Messages -> Nat] /\ losses \in Nat /\ line \in Seq(M!Messages)

Ready == {m \in M!Messages : m_rows[m].status = "pending" /\ m_rows[m].wait = 0}
LineIsReady == M!IsInjective(line) /\ M!ToSet(line) = Ready

\* A sender holds the lock of the row it is about, which stays in the line, and counts it when
\* the transaction ends.
JobsHoldRows ==
    \A s \in Senders :
       /\ job[s].msg # 0 <=> job[s].at \in {"post", "accepted"}
       /\ job[s].msg # 0 => job[s].msg \in Ready /\ job[s].left # 0
       /\ \A t \in Senders \ {s} : job[s].msg # 0 => job[t].msg # job[s].msg

\* Of a row that was not given up, the age covers the pauses after the attempts so far.
Waited(row) ==
    /\ row.status = "pending" => /\ row.attempts < MaxAttempts
                                 /\ \/ row.age >= M!Oldest
                                    \/ row.age + row.wait >= M!Patience[row.attempts]
AttemptsTakeTime ==
    \A m \in M!Messages :
       /\ Waited(m_rows[m])
       /\ m_rows[m].status = "failed" /\ m \notin Broken => m_rows[m].age >= M!Oldest

OutboxInv == OutboxTypes /\ LineIsReady /\ JobsHoldRows /\ AttemptsTakeTime

----------------------------------------------------------------------------
LEMMA PauseType ==
    ASSUME M!NotificationsAssumption, NEW n
    PROVE  M!Backoff(n) \in 1 .. MaxBackoff
    BY DEF M!NotificationsAssumption, M!Backoff

\* f adds up the pauses after the first n attempts.
AddsUp(f, n) ==
    /\ f \in [0 .. n -> Nat] /\ f[0] = 0
    /\ \A k \in 1 .. n : f[k] = f[k - 1] + M!Backoff(k)

LEMMA PausesAddUp ==
    ASSUME M!NotificationsAssumption
    PROVE  \A n \in Nat : \E f : AddsUp(f, n)
<1> DEFINE T == {n \in Nat : ~ \E f : AddsUp(f, n)}
<1>1. ASSUME T # {} PROVE FALSE
  <2>1. PICK n \in T : \A m \in T : n <= m
    BY <1>1, LeastNumber
  <2>2. n # 0
    <3>1. AddsUp([k \in 0 .. 0 |-> 0], 0)
      BY DEF AddsUp
    <3>2. QED
      BY <2>1, <3>1
  <2>3. n - 1 \in Nat /\ n - 1 \notin T
    BY <2>1, <2>2
  <2>4. PICK f : AddsUp(f, n - 1)
    BY <2>3
  <2> DEFINE g == [k \in 0 .. n |-> IF k = n THEN f[n - 1] + M!Backoff(n) ELSE f[k]]
  <2>5. f[n - 1] + M!Backoff(n) \in Nat
    BY <2>3, <2>4, PauseType DEF AddsUp
  <2>6. g \in [0 .. n -> Nat] /\ g[0] = 0
    BY <2>2, <2>4, <2>5 DEF AddsUp
  <2>7. ASSUME NEW k \in 1 .. n PROVE g[k] = g[k - 1] + M!Backoff(k)
    <3>1. g[k - 1] = f[k - 1]
      BY <2>1
    <3>2. CASE k = n
      BY <3>1, <3>2
    <3>3. CASE k # n
      BY <2>3, <2>4, <3>1, <3>3 DEF AddsUp
    <3>4. QED
      BY <3>2, <3>3
  <2>8. AddsUp(g, n)
    BY <2>6, <2>7 DEF AddsUp
  <2>9. QED
    BY <2>1, <2>8
<1>2. QED
    BY <1>1

\* What Patience is: every failed attempt adds its pause.
LEMMA PatienceAddsUp ==
    ASSUME M!NotificationsAssumption
    PROVE  /\ M!Patience[0] = 0 /\ \A n \in 0 .. MaxAttempts : M!Patience[n] \in Nat
           /\ \A n \in 1 .. MaxAttempts : M!Patience[n] = M!Patience[n - 1] + M!Backoff(n)
<1>0. MaxAttempts \in Nat /\ MaxAttempts > 0
    BY DEF M!NotificationsAssumption
<1>1. PICK f : AddsUp(f, MaxAttempts)
    BY <1>0, PausesAddUp
<1> DEFINE Solves(h) == h = [n \in 0 .. MaxAttempts |-> IF n = 0 THEN 0 ELSE h[n - 1] + M!Backoff(n)]
<1>2. Solves(f)
    BY <1>1 DEF AddsUp
<1>3. M!Patience = CHOOSE h : Solves(h)
    BY DEF M!Patience
<1>4. Solves(M!Patience)
    BY <1>2, <1>3
<1> DEFINE T == {n \in Nat : n <= MaxAttempts /\ M!Patience[n] # f[n]}
<1>5. ASSUME T # {} PROVE FALSE
  <2>1. PICK n \in T : \A m \in T : n <= m
    BY <1>5, LeastNumber
  <2>2. CASE n = 0
    BY <1>0, <1>1, <1>4, <2>1, <2>2 DEF AddsUp
  <2>3. CASE n # 0
    <3>1. n - 1 \in Nat /\ n - 1 <= MaxAttempts /\ n - 1 \notin T /\ n \in 1 .. MaxAttempts
      BY <1>0, <2>1, <2>3
    <3>2. M!Patience[n - 1] = f[n - 1]
      BY <3>1
    <3>3. QED
      BY <1>1, <1>4, <2>1, <3>1, <3>2 DEF AddsUp
  <2>4. QED
    BY <2>2, <2>3
<1>6. \A n \in 0 .. MaxAttempts : M!Patience[n] = f[n]
    BY <1>0, <1>5
<1> HIDE DEF Solves
<1>7. QED
    BY <1>0, <1>1, <1>6 DEF AddsUp

----------------------------------------------------------------------------
\* The line.

\* A message leaves the line once and for all.
LEMMA LineLeaves ==
    ASSUME OutboxTypes, LineIsReady, NEW m, M!LeaveLine(m)
    PROVE  line' \in Seq(M!Messages) /\ M!IsInjective(line') /\ M!ToSet(line') = M!ToSet(line) \ {m}
<1> DEFINE n == Len(line)
<1>1. line \in Seq(M!Messages) /\ n \in Nat /\ DOMAIN line = 1 .. n
    BY LenProperties DEF OutboxTypes
<1>2. PICK i \in 1 .. n : line[i] = m /\ line' = M!RemoveAt(line, i)
    BY <1>1 DEF M!LeaveLine
<1>3. M!RemoveAt(line, i) = Without(line, i)
    BY DEF M!RemoveAt, Without
<1>4. /\ line' \in Seq(M!Messages) /\ Len(line') = n - 1
      /\ \A k \in 1 .. n - 1 : line'[k] = line[IF k < i THEN k ELSE k + 1]
    BY <1>1, <1>2, <1>3, WithoutIs
<1>5. DOMAIN line' = 1 .. n - 1
    BY <1>4, LenProperties
<1>6. \A a, b \in 1 .. n : line[a] = line[b] => a = b
    BY <1>1 DEF LineIsReady, M!IsInjective
<1> HIDE DEF n
<1>7. \A a, b \in 1 .. n - 1 : line'[a] = line'[b] => a = b
  <2>1. ASSUME NEW a \in 1 .. n - 1, NEW b \in 1 .. n - 1, line'[a] = line'[b] PROVE a = b
    <3> DEFINE x == IF a < i THEN a ELSE a + 1
               y == IF b < i THEN b ELSE b + 1
    <3>1. x \in 1 .. n /\ y \in 1 .. n /\ line[x] = line[y]
      BY <1>1, <1>4, <2>1
    <3>2. x = y
      BY <3>1, <1>6
    <3>3. QED
      BY <3>2, <1>1
  <2>2. QED
    BY <2>1
<1>8. \A k \in 1 .. n - 1 : line'[k] \in M!ToSet(line) \ {m}
  <2>1. ASSUME NEW k \in 1 .. n - 1 PROVE line'[k] \in M!ToSet(line) \ {m}
    <3> DEFINE x == IF k < i THEN k ELSE k + 1
    <3>1. x \in 1 .. n /\ x # i /\ line'[k] = line[x]
      BY <1>1, <1>4
    <3>2. line[x] # m
      BY <3>1, <1>2, <1>6
    <3> HIDE DEF x
    <3>3. QED
      BY <3>1, <3>2, <1>1 DEF M!ToSet
  <2>2. QED
    BY <2>1
<1>9. ASSUME NEW y \in M!ToSet(line) \ {m} PROVE \E k \in 1 .. n - 1 : line'[k] = y
  <2>1. PICK x \in 1 .. n : line[x] = y
    BY <1>1 DEF M!ToSet
  <2>2. x # i
    BY <2>1, <1>2
  <2> DEFINE k == IF x < i THEN x ELSE x - 1
  <2>3. k \in 1 .. n - 1 /\ x = IF k < i THEN k ELSE k + 1
    BY <2>2, <1>1
  <2>4. line'[k] = y
    BY <2>1, <2>3, <1>4
  <2>5. QED
    BY <2>3, <2>4
<1>10. M!ToSet(line') = M!ToSet(line) \ {m}
    BY <1>5, <1>8, <1>9 DEF M!ToSet
<1>11. QED
    BY <1>4, <1>5, <1>7, <1>10 DEF M!IsInjective

\* Sequences that have nothing in common.
LEMMA Joined ==
    ASSUME NEW S, NEW s \in Seq(S), NEW t \in Seq(S), M!IsInjective(s), M!IsInjective(t),
           M!ToSet(s) \cap M!ToSet(t) = {}
    PROVE  /\ s \o t \in Seq(S) /\ M!IsInjective(s \o t)
           /\ M!ToSet(s \o t) = M!ToSet(s) \cup M!ToSet(t)
<1> DEFINE u == s \o t
           a == Len(s)
           b == Len(t)
<1>1. a \in Nat /\ b \in Nat /\ DOMAIN s = 1 .. a /\ DOMAIN t = 1 .. b
    BY LenProperties
<1>2. /\ u \in Seq(S) /\ Len(u) = a + b
      /\ \A i \in 1 .. a + b : u[i] = IF i <= a THEN s[i] ELSE t[i - a]
    BY ConcatProperties
<1>3. DOMAIN u = 1 .. a + b
    BY <1>2, LenProperties
<1> HIDE DEF u, a, b
<1>4. /\ \A i \in 1 .. a : s[i] \in M!ToSet(s) /\ \A j \in 1 .. a : s[i] = s[j] => i = j
      /\ \A i \in 1 .. b : t[i] \in M!ToSet(t) /\ \A j \in 1 .. b : t[i] = t[j] => i = j
    BY <1>1 DEF M!ToSet, M!IsInjective
<1>5. ASSUME NEW i \in 1 .. a + b
      PROVE  \/ i \in 1 .. a /\ u[i] = s[i]
             \/ i - a \in 1 .. b /\ u[i] = t[i - a] /\ i > a
    BY <1>1, <1>2
<1>6. ASSUME NEW i \in 1 .. a + b, NEW j \in 1 .. a + b, u[i] = u[j] PROVE i = j
  <2>1. CASE i \in 1 .. a /\ u[i] = s[i] /\ j \in 1 .. a /\ u[j] = s[j]
    BY <2>1, <1>4, <1>6
  <2>2. CASE i - a \in 1 .. b /\ u[i] = t[i - a] /\ j - a \in 1 .. b /\ u[j] = t[j - a]
    <3>1. i - a = j - a
      BY <2>2, <1>4, <1>6
    <3>2. QED
      BY <3>1, <1>1
  <2>3. CASE \/ i \in 1 .. a /\ u[i] = s[i] /\ j - a \in 1 .. b /\ u[j] = t[j - a]
             \/ j \in 1 .. a /\ u[j] = s[j] /\ i - a \in 1 .. b /\ u[i] = t[i - a]
    BY <2>3, <1>4, <1>6
  <2>4. QED
    BY <2>1, <2>2, <2>3, <1>5
<1>7. M!ToSet(u) \subseteq M!ToSet(s) \cup M!ToSet(t)
  <2>1. ASSUME NEW i \in 1 .. a + b PROVE u[i] \in M!ToSet(s) \cup M!ToSet(t)
    BY <1>4, <1>5
  <2>2. QED
    BY <2>1, <1>3 DEF M!ToSet
<1>8. ASSUME NEW i \in 1 .. a PROVE s[i] \in M!ToSet(u)
  <2>1. i \in 1 .. a + b /\ u[i] = s[i]
    BY <1>1, <1>2
  <2>2. QED
    BY <2>1, <1>3 DEF M!ToSet
<1>9. ASSUME NEW i \in 1 .. b PROVE t[i] \in M!ToSet(u)
  <2>1. i + a \in 1 .. a + b /\ ~(i + a <= a) /\ (i + a) - a = i
    BY <1>1
  <2>2. u[i + a] = t[i]
    BY <2>1, <1>2
  <2>3. QED
    BY <2>1, <2>2, <1>3 DEF M!ToSet
<1>10. M!ToSet(s) \cup M!ToSet(t) \subseteq M!ToSet(u)
    BY <1>1, <1>8, <1>9 DEF M!ToSet
<1>11. M!IsInjective(u)
    BY <1>3, <1>6 DEF M!IsInjective
<1>12. QED
    BY <1>2, <1>7, <1>10, <1>11 DEF u

\* A sequence in which one value is put somewhere.
LEMMA Inserted ==
    ASSUME NEW S, NEW s \in Seq(S), M!IsInjective(s), NEW m \in S, m \notin M!ToSet(s),
           NEW i \in 1 .. Len(s) + 1
    PROVE  /\ M!InsertAt(s, i, m) \in Seq(S) /\ M!IsInjective(M!InsertAt(s, i, m))
           /\ M!ToSet(M!InsertAt(s, i, m)) = M!ToSet(s) \cup {m}
<1> DEFINE n == Len(s)
           a == SubSeq(s, 1, i - 1)
           b == SubSeq(s, i, n)
           c == <<m>>
           d == a \o c
<1>1. n \in Nat /\ DOMAIN s = 1 .. n /\ i \in Int /\ i >= 1 /\ i <= n + 1
    BY LenProperties
<1>2. a \in Seq(S) /\ Len(a) = i - 1 /\ \A k \in 1 .. i - 1 : a[k] = s[k]
    BY <1>1, SubSeqProperties, SMTT(30)
<1>3. b \in Seq(S) /\ Len(b) = n - i + 1 /\ \A k \in 1 .. n - i + 1 : b[k] = s[i + k - 1]
    BY <1>1, SubSeqProperties, SMTT(30)
<1>4. M!InsertAt(s, i, m) = d \o b
    BY DEF M!InsertAt
<1>5. c \in Seq(S) /\ M!IsInjective(c) /\ M!ToSet(c) = {m}
    BY DEF M!IsInjective, M!ToSet
<1> HIDE DEF n, a, b, c
<1>6. DOMAIN a = 1 .. i - 1 /\ DOMAIN b = 1 .. n - i + 1
    BY <1>2, <1>3, LenProperties
<1>7. \A x, y \in 1 .. n : s[x] = s[y] => x = y
    BY <1>1 DEF M!IsInjective
<1>8. M!IsInjective(a)
  <2>1. ASSUME NEW x \in 1 .. i - 1, NEW y \in 1 .. i - 1, a[x] = a[y] PROVE x = y
    <3>1. x \in 1 .. n /\ y \in 1 .. n /\ s[x] = s[y]
      BY <1>1, <1>2, <2>1
    <3>2. QED
      BY <3>1, <1>7
  <2>2. QED
    BY <2>1, <1>6 DEF M!IsInjective
<1>9. M!IsInjective(b)
  <2>1. ASSUME NEW x \in 1 .. n - i + 1, NEW y \in 1 .. n - i + 1, b[x] = b[y] PROVE x = y
    <3>1. i + x - 1 \in 1 .. n /\ i + y - 1 \in 1 .. n /\ s[i + x - 1] = s[i + y - 1]
      BY <1>1, <1>3, <2>1
    <3>2. i + x - 1 = i + y - 1
      BY <3>1, <1>7
    <3>3. QED
      BY <3>2, <1>1
  <2>2. QED
    BY <2>1, <1>6 DEF M!IsInjective
<1>10. \A y \in M!ToSet(a) : \E x \in 1 .. n : y = s[x] /\ x < i
  <2>1. ASSUME NEW k \in 1 .. i - 1 PROVE \E x \in 1 .. n : a[k] = s[x] /\ x < i
    <3>1. k \in 1 .. n /\ a[k] = s[k] /\ k < i
      BY <1>1, <1>2
    <3>2. QED
      BY <3>1
  <2>2. QED
    BY <2>1, <1>6 DEF M!ToSet
<1>11. \A y \in M!ToSet(b) : \E x \in 1 .. n : y = s[x] /\ ~(x < i)
  <2>1. ASSUME NEW k \in 1 .. n - i + 1 PROVE \E x \in 1 .. n : b[k] = s[x] /\ ~(x < i)
    <3>1. i + k - 1 \in 1 .. n /\ b[k] = s[i + k - 1] /\ ~(i + k - 1 < i)
      BY <1>1, <1>3
    <3>2. QED
      BY <3>1
  <2>2. QED
    BY <2>1, <1>6 DEF M!ToSet
<1>12. \A x \in 1 .. n : s[x] \in M!ToSet(a) \cup M!ToSet(b)
  <2>1. ASSUME NEW x \in 1 .. n, x < i PROVE s[x] \in M!ToSet(a)
    <3>1. x \in 1 .. i - 1 /\ a[x] = s[x]
      BY <1>1, <1>2, <2>1
    <3>2. QED
      BY <3>1, <1>6 DEF M!ToSet
  <2>2. ASSUME NEW x \in 1 .. n, ~(x < i) PROVE s[x] \in M!ToSet(b)
    <3>1. x - i + 1 \in 1 .. n - i + 1 /\ i + (x - i + 1) - 1 = x
      BY <1>1, <2>2
    <3>2. b[x - i + 1] = s[x]
      BY <3>1, <1>3
    <3>3. QED
      BY <3>1, <3>2, <1>6 DEF M!ToSet
  <2>3. QED
    BY <2>1, <2>2
<1>13. M!ToSet(s) = M!ToSet(a) \cup M!ToSet(b)
  <2>1. \A y : y \in M!ToSet(s) <=> \E x \in 1 .. n : y = s[x]
    BY <1>1 DEF M!ToSet
  <2>2. QED
    BY <2>1, <1>10, <1>11, <1>12
<1>14. M!ToSet(a) \cap M!ToSet(b) = {}
    BY <1>7, <1>10, <1>11
<1>15. d \in Seq(S) /\ M!IsInjective(d) /\ M!ToSet(d) = M!ToSet(a) \cup {m}
  <2>1. M!ToSet(a) \cap M!ToSet(c) = {}
    BY <1>5, <1>13
  <2>2. QED
    BY <2>1, <1>2, <1>5, <1>8, Joined
<1> HIDE DEF d
<1>16. M!ToSet(d) \cap M!ToSet(b) = {}
    BY <1>13, <1>14, <1>15
<1>17. QED
    BY <1>3, <1>4, <1>9, <1>13, <1>15, <1>16, Joined

\* The elements of a set in some order.
LEMMA Ordered ==
    ASSUME NEW S, NEW T \in SUBSET S, IsFiniteSet(T)
    PROVE  /\ M!SetToSeq(T) \in Seq(S) /\ M!IsInjective(M!SetToSeq(T))
           /\ M!ToSet(M!SetToSeq(T)) = T
<1> DEFINE n == Cardinality(T)
           f == M!SetToSeq(T)
<1>1. n \in Nat /\ ExistsBijection(1 .. n, T)
    BY FS_CardinalityType
<1>2. M!Cardinality(T) = n
    BY DEF M!Cardinality, Cardinality
<1>3. \E g \in [1 .. n -> T] : M!IsInjective(g)
    BY <1>1 DEF ExistsBijection, Bijection, Injection, M!IsInjective, IsInjective
<1>4. f \in [1 .. n -> T] /\ M!IsInjective(f)
    BY <1>2, <1>3 DEF M!SetToSeq
<1> HIDE DEF f, n
<1>5. f \in Seq(T)
    BY <1>1, <1>4
<1>6. f \in Seq(S) /\ DOMAIN f = 1 .. n
    BY <1>1, <1>4
<1>7. f \in Injection(1 .. n, T)
    BY <1>4 DEF Injection, IsInjective, M!IsInjective
<1>8. f \in Surjection(1 .. n, T)
  <2> DEFINE R == {f[k] : k \in 1 .. n}
  <2>1. R \subseteq T /\ IsFiniteSet(1 .. n) /\ Cardinality(1 .. n) = n
    BY <1>1, <1>4, FS_Interval
  <2>2. f \in Injection(1 .. n, R) /\ f \in Surjection(1 .. n, R)
    BY <1>4, <1>7 DEF Injection, Surjection, IsInjective
  <2>3. IsFiniteSet(R) /\ Cardinality(R) = n
      <3> HIDE DEF R
    <3>1. QED
      BY <2>1, <2>2, FS_Surjection
  <2>4. R = T
    <3> HIDE DEF R
    <3>1. QED
      BY <2>1, <2>3, FS_Subset DEF n
  <2>5. QED
    BY <2>2, <2>4
<1>9. M!ToSet(f) = T
    BY <1>6, <1>8 DEF Surjection, M!ToSet
<1>10. QED
    BY <1>4, <1>6, <1>9 DEF f

----------------------------------------------------------------------------
\* The steps of the senders.

\* The transaction of a row ends: the row is not ready any more, and nobody holds it.
LEMMA RowLeaves ==
    ASSUME M!NotificationsAssumption, OutboxInv, NEW s \in Senders, NEW m \in M!Messages, job[s].msg = m,
           NEW row \in MsgRow, ~(row.status = "pending" /\ row.wait = 0), Waited(row),
           row.status = "failed" /\ m \notin Broken => row.age >= M!Oldest,
           NEW j \in MsgJob, j.msg = 0, j.at \in {"idle", "batch"},
           m_rows' = [m_rows EXCEPT ![m] = row], M!LeaveLine(m), job' = [job EXCEPT ![s] = j],
           m_copies' \in [M!Messages -> Nat], losses' \in Nat
    PROVE  OutboxInv'
<1> USE DEF OutboxInv
<1>1. /\ line' \in Seq(M!Messages) /\ M!IsInjective(line') /\ M!ToSet(line') = Ready \ {m}
    BY LineLeaves DEF LineIsReady
<1>2. OutboxTypes'
    BY <1>1 DEF OutboxTypes
<1>3. m_rows'[m] = row /\ \A k \in M!Messages \ {m} : m_rows'[k] = m_rows[k]
    BY DEF OutboxTypes
<1>4. Ready' = Ready \ {m}
    BY <1>3 DEF Ready
<1>5. LineIsReady'
    BY <1>1, <1>4 DEF LineIsReady
<1>6. job'[s] = j /\ \A t \in Senders \ {s} : job'[t] = job[t]
    BY DEF OutboxTypes
<1>7. m # 0
    BY DEF M!Messages, M!NotificationsAssumption
<1>8. \A t \in Senders \ {s} : job[t].msg # m
    BY <1>7 DEF JobsHoldRows
<1>9. JobsHoldRows'
    BY <1>4, <1>6, <1>8 DEF JobsHoldRows
<1>10. AttemptsTakeTime'
    BY <1>3 DEF AttemptsTakeTime
<1>11. QED
    BY <1>2, <1>5, <1>9, <1>10

\* A job goes on, rows and line stay.
LEMMA JobGoesOn ==
    ASSUME OutboxInv, NEW s \in Senders, NEW j \in MsgJob,
           j.msg # 0 <=> j.at \in {"post", "accepted"}, j.msg # 0 => j.msg \in Ready /\ j.left # 0,
           j.msg # 0 => \A t \in Senders \ {s} : job[t].msg # j.msg,
           job' = [job EXCEPT ![s] = j], UNCHANGED <<m_rows, line>>,
           m_copies' \in [M!Messages -> Nat], losses' \in Nat
    PROVE  OutboxInv'
<1> USE DEF OutboxInv
<1>1. Ready' = Ready
    BY DEF Ready
<1>2. job'[s] = j /\ \A t \in Senders \ {s} : job'[t] = job[t]
    BY DEF OutboxTypes
<1>3. JobsHoldRows'
    BY <1>1, <1>2 DEF JobsHoldRows
<1>4. OutboxTypes' /\ LineIsReady' /\ AttemptsTakeTime'
    BY <1>1 DEF OutboxTypes, LineIsReady, AttemptsTakeTime
<1>5. QED
    BY <1>3, <1>4

\* What a job holds.
LEMMA Held ==
    ASSUME OutboxInv, NEW s \in Senders, job[s].at \in {"post", "accepted"}
    PROVE  /\ job[s].msg \in Ready /\ job[s].msg \in M!Messages /\ m_rows[job[s].msg] \in MsgRow
           /\ job[s] \in MsgJob /\ m_rows[job[s].msg].status = "pending" /\ m_rows[job[s].msg].wait = 0
           /\ Waited(m_rows[job[s].msg]) /\ m_copies[job[s].msg] \in Nat
    BY DEF OutboxInv, OutboxTypes, JobsHoldRows, Ready, AttemptsTakeTime

\* The row after a failed try has waited as long as its attempts ask for, or has been given up
\* after all of them.
LEMMA RetriedWaits ==
    ASSUME M!NotificationsAssumption, NEW row \in MsgRow, row.status = "pending", row.wait = 0, Waited(row)
    PROVE  /\ M!Retried(row) \in MsgRow /\ Waited(M!Retried(row))
           /\ ~(M!Retried(row).status = "pending" /\ M!Retried(row).wait = 0)
           /\ M!Retried(row).status \in {"pending", "failed"}
           /\ M!Retried(row).status = "failed" => M!Retried(row).age >= M!Oldest
<1> DEFINE n == row.attempts
<1>1. n \in Nat /\ n < MaxAttempts /\ MaxAttempts \in Nat /\ row.age \in Nat
    BY DEF MsgRow, Waited, M!NotificationsAssumption
<1>2. row.age >= M!Oldest \/ row.age >= M!Patience[n]
    BY DEF Waited, MsgRow
<1>3. CASE n + 1 >= MaxAttempts
  <2>1. n = MaxAttempts - 1
    BY <1>1, <1>3
  <2>2. row.age >= M!Oldest
    BY <1>2, <2>1 DEF M!Oldest
  <2>3. M!Retried(row) = [status |-> "failed", attempts |-> n + 1, wait |-> row.wait, age |-> row.age]
    BY <1>3 DEF M!Retried, MsgRow
  <2>4. QED
    BY <1>1, <2>2, <2>3 DEF MsgRow, Waited
<1>4. CASE ~(n + 1 >= MaxAttempts)
  <2>1. M!Retried(row) = [status |-> "pending", attempts |-> n + 1, wait |-> M!Backoff(n + 1), age |-> row.age]
    BY <1>4 DEF M!Retried, MsgRow
  <2>2. M!Backoff(n + 1) \in 1 .. MaxBackoff /\ MaxBackoff \in Nat
    BY PauseType DEF M!NotificationsAssumption
  <2>3. /\ M!Patience[n + 1] = M!Patience[n] + M!Backoff(n + 1)
        /\ M!Patience[n] \in Nat
    <3>1. n + 1 \in 1 .. MaxAttempts /\ n \in 0 .. MaxAttempts /\ (n + 1) - 1 = n
      BY <1>1, <1>4
    <3>2. QED
      BY <3>1, PatienceAddsUp
  <2> HIDE DEF n
  <2>4. row.age >= M!Oldest \/ row.age + M!Backoff(n + 1) >= M!Patience[n + 1]
    BY <1>1, <1>2, <2>2, <2>3
  <2>5. M!Retried(row) \in MsgRow
    BY <1>1, <1>4, <2>1, <2>2 DEF MsgRow
  <2>6. QED
    BY <1>1, <1>4, <2>1, <2>2, <2>4, <2>5 DEF Waited
<1>5. QED
    BY <1>3, <1>4

\* Every step keeps the invariant.
LEMMA SenderStep ==
    ASSUME M!NotificationsAssumption, OutboxInv, NEW s \in Senders,
           M!StartJob(s) \/ M!EndJob(s) \/ M!Take(s) \/ M!Answer(s) \/ M!Die(s)
    PROVE  OutboxInv'
<1> DEFINE m == job[s].msg
           row == m_rows[m]
           next == [msg |-> 0, at |-> "batch", left |-> job[s].left - 1]
<1>1. /\ job[s] \in MsgJob /\ m_copies \in [M!Messages -> Nat] /\ losses \in Nat
      /\ MaxLosses \in Nat /\ BatchSize \in Nat \ {0} /\ MaxAttempts \in Nat /\ MaxBackoff \in Nat \ {0}
    BY DEF OutboxInv, OutboxTypes, M!NotificationsAssumption
<1>2. M!NoJob \in MsgJob /\ M!NoJob.msg = 0 /\ M!NoJob.at = "idle"
    BY <1>1 DEF M!NoJob, MsgJob
<1>3. CASE M!StartJob(s)
  <2> DEFINE j == [msg |-> 0, at |-> "batch", left |-> BatchSize]
  <2>1. job' = [job EXCEPT ![s] = j] /\ UNCHANGED <<m_rows, line, m_copies, losses>>
    BY <1>3 DEF M!StartJob
  <2>2. j \in MsgJob /\ j.msg = 0 /\ j.at = "batch"
    BY <1>1 DEF MsgJob
  <2> HIDE DEF j
  <2>3. QED
    BY <1>1, <2>1, <2>2, JobGoesOn
<1>4. CASE M!EndJob(s)
  <2>1. job' = [job EXCEPT ![s] = M!NoJob] /\ UNCHANGED <<m_rows, line, m_copies, losses>>
    BY <1>4 DEF M!EndJob
  <2>2. QED
    BY <1>1, <1>2, <2>1, JobGoesOn
<1>5. CASE M!Take(s)
  <2>1. PICK i \in M!Free : job' = [job EXCEPT ![s] = [msg |-> line[i], at |-> "post", left |-> @.left]]
    BY <1>5 DEF M!Take
  <2>2. line[i] \in M!ToSet(line) /\ line[i] \notin M!Locked
    BY <2>1 DEF M!Free, M!ToSet
  <2>3. line[i] \in Ready /\ line[i] \in M!Messages
    BY <2>2 DEF OutboxInv, LineIsReady, Ready
  <2>4. line[i] # 0
    BY <2>3 DEF M!Messages, M!NotificationsAssumption
  <2>5. \A t \in Senders : job[t].msg # line[i]
    BY <2>2, <2>4 DEF M!Locked
  <2> DEFINE j == [msg |-> line[i], at |-> "post", left |-> job[s].left]
  <2>6. j \in MsgJob /\ j.msg = line[i] /\ j.at = "post"
    BY <1>1, <2>3 DEF MsgJob
  <2>7. job' = [job EXCEPT ![s] = j]
    BY <2>1
  <2>8. UNCHANGED <<m_rows, line, m_copies, losses>> /\ j.left # 0
    BY <1>1, <1>5 DEF M!Take, MsgJob
  <2> HIDE DEF j
  <2>9. QED
    BY <1>1, <2>3, <2>4, <2>5, <2>6, <2>7, <2>8, JobGoesOn
<1>6. CASE M!Die(s)
  <2>1. job' = [job EXCEPT ![s] = M!NoJob] /\ UNCHANGED <<m_rows, line, m_copies>> /\ losses' \in Nat
    BY <1>1, <1>6 DEF M!Die
  <2>2. QED
    BY <1>1, <1>2, <2>1, JobGoesOn
<1>7. ASSUME job[s].at \in {"post", "accepted"}, NEW new \in MsgRow,
             ~(new.status = "pending" /\ new.wait = 0), Waited(new),
             new.status = "failed" /\ m \notin Broken => new.age >= M!Oldest,
             M!Settle(s, new), UNCHANGED m_copies, losses' \in Nat
      PROVE  OutboxInv'
  <2>1. m \in M!Messages
    BY <1>7, Held
  <2>2. next \in MsgJob /\ next.msg = 0 /\ next.at = "batch"
    BY <1>1, <1>7 DEF MsgJob, OutboxInv, JobsHoldRows
  <2>3. m_rows' = [m_rows EXCEPT ![m] = new] /\ M!LeaveLine(m)
    BY <1>7 DEF M!Settle
  <2>4. job' = [job EXCEPT ![s] = next]
    BY <1>1, <1>7 DEF M!Settle, OutboxInv, OutboxTypes
  <2> HIDE DEF next, m
  <2>5. job[s].msg = m
    BY DEF m
  <2>6. QED
    BY <1>1, <1>7, <2>1, <2>2, <2>3, <2>4, <2>5, RowLeaves
<1>8. ASSUME job[s].at \in {"post", "accepted"}, NEW outcome \in {"sent", "undeliverable", "failed"},
             outcome = "failed" => m \in Broken, M!Settle(s, [row EXCEPT !.status = outcome]),
             UNCHANGED <<m_copies, losses>>
      PROVE  OutboxInv'
  <2> DEFINE new == [row EXCEPT !.status = outcome]
  <2>1. row \in MsgRow
    BY <1>8, Held
  <2>2. new \in MsgRow /\ new.status = outcome
    BY <2>1 DEF MsgRow
  <2>3. M!Settle(s, new) /\ Waited(new) /\ losses' \in Nat
    BY <1>1, <1>8, <2>2 DEF Waited
  <2> HIDE DEF new, m, row
  <2>4. QED
    BY <1>7, <1>8, <2>2, <2>3
<1>9. CASE M!Unrenderable(s) \/ M!MarkSent(s) \/ M!Undeliverable(s)
    BY <1>8, <1>9 DEF M!Unrenderable, M!MarkSent, M!Undeliverable
<1>10. CASE M!Refuse(s) \/ M!LoseAnswer(s)
  <2>1. job[s].at \in {"post", "accepted"}
    BY <1>10 DEF M!Refuse, M!LoseAnswer
  <2>2. row \in MsgRow /\ row.status = "pending" /\ row.wait = 0 /\ Waited(row)
    BY <2>1, Held
  <2>3. M!Settle(s, M!Retried(row)) /\ UNCHANGED m_copies /\ losses' \in Nat
    BY <1>1, <1>10 DEF M!Refuse, M!LoseAnswer
  <2> HIDE DEF row, m
  <2>4. /\ M!Retried(row) \in MsgRow /\ Waited(M!Retried(row))
        /\ ~(M!Retried(row).status = "pending" /\ M!Retried(row).wait = 0)
        /\ M!Retried(row).status = "failed" => M!Retried(row).age >= M!Oldest
    BY <2>2, RetriedWaits
  <2>5. QED
    BY <1>7, <2>1, <2>3, <2>4
<1>11. CASE M!Accept(s)
  <2> DEFINE j == [msg |-> m, at |-> "accepted", left |-> job[s].left]
  <2>1. job[s].at = "post" /\ m \in Ready /\ m \in M!Messages
    BY <1>11, Held DEF M!Accept
  <2>2. j \in MsgJob /\ j.msg = m /\ j.at = "accepted" /\ j.left = job[s].left
    BY <1>1, <2>1 DEF MsgJob
  <2>3. job' = [job EXCEPT ![s] = j]
    <3>1. [job[s] EXCEPT !.at = "accepted"] = j
      BY <1>1 DEF MsgJob
    <3>2. job' = [job EXCEPT ![s] = [job[s] EXCEPT !.at = "accepted"]]
      BY <1>11 DEF M!Accept, OutboxInv, OutboxTypes
    <3> HIDE DEF j
    <3>3. QED
      BY <3>1, <3>2
  <2>4. UNCHANGED <<m_rows, line, losses>> /\ m_copies' \in [M!Messages -> Nat]
    BY <1>1, <2>1, <1>11 DEF M!Accept
  <2>5. m # 0 /\ job[s].left # 0 /\ \A t \in Senders \ {s} : job[t].msg # m
    BY <2>1 DEF OutboxInv, JobsHoldRows
  <2> HIDE DEF j, m
  <2>6. QED
    BY <1>1, <2>1, <2>2, <2>3, <2>4, <2>5, JobGoesOn
<1>12. CASE M!SlowDown(s)
  <2> DEFINE new == [row EXCEPT !.wait = 1]
  <2>1. /\ row \in MsgRow /\ row.status = "pending" /\ row.wait = 0 /\ Waited(row) /\ m \in M!Messages
        /\ M!Patience[row.attempts] \in Nat
    <3>1. /\ row \in MsgRow /\ row.status = "pending" /\ row.wait = 0 /\ Waited(row) /\ m \in M!Messages
      BY <1>12, Held DEF M!SlowDown
    <3>2. row.attempts \in 0 .. MaxAttempts
      BY <3>1 DEF MsgRow
    <3>3. QED
      BY <3>1, <3>2, PatienceAddsUp
  <2>2. new \in MsgRow /\ new.status = "pending" /\ new.wait = 1 /\ new.age = row.age
        /\ new.attempts = row.attempts
    BY <1>1, <2>1 DEF MsgRow, M!NotificationsAssumption
  <2>3. Waited(new)
    <3>1. row.age \in Nat
      BY <2>1 DEF MsgRow
    <3> HIDE DEF new, row
    <3>2. QED
      BY <3>1, <2>1, <2>2 DEF Waited
  <2>4. m_rows' = [m_rows EXCEPT ![m] = new]
    BY <1>12 DEF M!SlowDown, OutboxInv, OutboxTypes
  <2>5. M!LeaveLine(m) /\ job' = [job EXCEPT ![s] = M!NoJob] /\ UNCHANGED <<m_copies, losses>>
    BY <1>12 DEF M!SlowDown
  <2> HIDE DEF new, m
  <2>6. job[s].msg = m
    BY DEF m
  <2>7. ~(new.status = "pending" /\ new.wait = 0) /\ ~(new.status = "failed" /\ m \notin Broken)
    BY <2>2
  <2>8. m \in M!Messages /\ m_copies' \in [M!Messages -> Nat] /\ losses' \in Nat
    BY <1>1, <2>1, <2>5
  <2> DEFINE j == M!NoJob
  <2>9. j \in MsgJob /\ j.msg = 0 /\ j.at \in {"idle", "batch"} /\ job' = [job EXCEPT ![s] = j]
    BY <1>2, <2>5
  <2> HIDE DEF j
  <2>10. QED
    BY <2>2, <2>3, <2>4, <2>5, <2>6, <2>7, <2>8, <2>9, RowLeaves
<1>13. QED
    BY <1>3, <1>4, <1>5, <1>6, <1>9, <1>10, <1>11, <1>12 DEF M!Answer

----------------------------------------------------------------------------
\* A message is queued, time passes.

LEMMA QueueStep ==
    ASSUME M!NotificationsAssumption, OutboxInv, NEW m \in M!Messages, M!Enqueue(m)
    PROVE  OutboxInv'
<1> USE DEF OutboxInv
<1> DEFINE row == [status |-> "pending", attempts |-> 0, wait |-> 0, age |-> 0]
<1>1. m_rows' = [m_rows EXCEPT ![m] = row] /\ UNCHANGED <<job, m_copies, losses>>
  <2>1. M!NoRow \in MsgRow
    BY DEF MsgRow, M!NoRow, M!NotificationsAssumption
  <2>2. [M!NoRow EXCEPT !.status = "pending"] = row
    BY <2>1 DEF MsgRow, M!NoRow
  <2> HIDE DEF row
  <2>3. QED
    BY <2>2 DEF M!Enqueue
<1>2. row \in MsgRow
    BY DEF MsgRow, M!NotificationsAssumption
<1>3. m_rows[m].status = "none"
    BY DEF M!Enqueue, M!NoRow
<1>4. m \notin M!ToSet(line)
    BY <1>3 DEF LineIsReady, Ready
<1>5. PICK i \in 1 .. Len(line) + 1 : line' = M!InsertAt(line, i, m)
    BY DEF M!Enqueue
<1>6. line' \in Seq(M!Messages) /\ M!IsInjective(line') /\ M!ToSet(line') = M!ToSet(line) \cup {m}
    BY <1>4, <1>5, Inserted DEF OutboxTypes, LineIsReady
<1>7. Waited(row) /\ row.status = "pending" /\ row.wait = 0
    BY PatienceAddsUp DEF Waited, M!NotificationsAssumption
<1> HIDE DEF row
<1>8. m_rows'[m] = row /\ \A k \in M!Messages \ {m} : m_rows'[k] = m_rows[k]
    BY <1>1 DEF OutboxTypes
<1>9. Ready' = Ready \cup {m}
    BY <1>7, <1>8 DEF Ready
<1>10. OutboxTypes'
    BY <1>1, <1>2, <1>6 DEF OutboxTypes
<1>11. LineIsReady' /\ JobsHoldRows'
    BY <1>1, <1>6, <1>9 DEF LineIsReady, JobsHoldRows
<1>12. AttemptsTakeTime'
    BY <1>7, <1>8 DEF AttemptsTakeTime
<1>13. QED
    BY <1>10, <1>11, <1>12

LEMMA OutboxTick ==
    ASSUME M!NotificationsAssumption, OutboxInv, M!Tick
    PROVE  OutboxInv'
<1> USE DEF OutboxInv
<1> DEFINE over == {m \in M!Pending : m_rows[m].wait = 1}
           Aged(row) == [status |-> row.status, attempts |-> row.attempts,
                          wait |-> IF row.wait > 0 THEN row.wait - 1 ELSE 0,
                          age |-> IF row.age < M!Oldest THEN row.age + 1 ELSE row.age]
           order == M!SetToSeq(over)
<1>1. /\ m_rows' = [m \in M!Messages |-> IF m \in M!Pending THEN Aged(m_rows[m]) ELSE m_rows[m]]
      /\ line' = line \o order /\ UNCHANGED <<job, m_copies, losses>>
    BY DEF M!Tick
<1>2. over \in SUBSET M!Messages /\ IsFiniteSet(over)
  <2>1. over \subseteq M!Messages
    BY DEF M!Pending
  <2>2. IsFiniteSet(M!Messages)
    BY FS_Interval DEF M!Messages, M!NotificationsAssumption
  <2> HIDE DEF over
  <2>3. QED
    BY <2>1, <2>2, FS_Subset
<1>3. order \in Seq(M!Messages) /\ M!IsInjective(order) /\ M!ToSet(order) = over
  <2> HIDE DEF over
  <2>1. QED
    BY <1>2, Ordered
<1>4. M!ToSet(line) \cap over = {}
    BY DEF LineIsReady, Ready
<1>5. line' \in Seq(M!Messages) /\ M!IsInjective(line') /\ M!ToSet(line') = M!ToSet(line) \cup over
  <2> HIDE DEF over, order
  <2>1. line \in Seq(M!Messages) /\ M!IsInjective(line) /\ M!ToSet(line) \cap M!ToSet(order) = {}
    BY <1>3, <1>4 DEF OutboxTypes, LineIsReady
  <2>2. QED
    BY <1>1, <1>3, <2>1, Joined
<1>6. ASSUME NEW m \in M!Messages, m_rows[m].status = "pending"
      PROVE  /\ m_rows'[m] \in MsgRow /\ m_rows'[m].status = "pending"
             /\ m_rows'[m].wait = IF m_rows[m].wait > 0 THEN m_rows[m].wait - 1 ELSE 0
             /\ m_rows'[m].age = IF m_rows[m].age < M!Oldest THEN m_rows[m].age + 1 ELSE m_rows[m].age
             /\ m_rows'[m].attempts = m_rows[m].attempts
  <2> DEFINE row == m_rows[m]
  <2>1. row \in MsgRow /\ row.age \in Nat /\ row.wait \in 0 .. MaxBackoff /\ MaxBackoff \in Nat
    BY DEF OutboxTypes, MsgRow, M!NotificationsAssumption
  <2>2. m_rows'[m] = Aged(row)
    BY <1>1, <1>6 DEF M!Pending
  <2>4. (IF row.wait > 0 THEN row.wait - 1 ELSE 0) \in 0 .. MaxBackoff
    BY <2>1
  <2>5. (IF row.age < M!Oldest THEN row.age + 1 ELSE row.age) \in Nat
    BY <2>1
  <2>6. row.status \in {"none", "pending", "sent", "failed", "undeliverable"} /\ row.attempts \in 0 .. MaxAttempts
    BY <2>1 DEF MsgRow
  <2>7. QED
    BY <1>6, <2>2, <2>4, <2>5, <2>6 DEF MsgRow
<1>7. ASSUME NEW m \in M!Messages, m_rows[m].status # "pending" PROVE m_rows'[m] = m_rows[m]
    BY <1>1, <1>7 DEF M!Pending
<1>8. \A m \in M!Messages : m_rows[m].wait \in Nat /\ m_rows[m].age \in Nat /\ m_rows[m].attempts \in 0 .. MaxAttempts
    BY DEF OutboxTypes, MsgRow, M!NotificationsAssumption
<1>9. Ready' = Ready \cup over
  <2>1. ASSUME NEW m \in M!Messages PROVE m \in Ready' <=> m \in Ready \/ m \in over
    <3>1. CASE m_rows[m].status = "pending"
      BY <3>1, <1>6, <1>8 DEF Ready, M!Pending
    <3>2. CASE m_rows[m].status # "pending"
      BY <3>2, <1>7 DEF Ready, M!Pending
    <3>3. QED
      BY <3>1, <3>2
  <2>2. QED
    BY <2>1, <1>2 DEF Ready
<1> HIDE DEF over, Aged, order
<1>10. m_rows' \in [M!Messages -> MsgRow]
  <2>1. \A m \in M!Messages : m_rows'[m] \in MsgRow
    BY <1>6, <1>7 DEF OutboxTypes
  <2>2. QED
    BY <2>1, <1>1
<1>11. OutboxTypes' /\ LineIsReady'
    BY <1>1, <1>5, <1>9, <1>10 DEF OutboxTypes, LineIsReady
<1>12. JobsHoldRows'
    BY <1>1, <1>9 DEF JobsHoldRows
<1>13. AttemptsTakeTime'
  <2>1. ASSUME NEW m \in M!Messages
        PROVE  /\ Waited(m_rows'[m])
               /\ m_rows'[m].status = "failed" /\ m \notin Broken => m_rows'[m].age >= M!Oldest
    <3>1. Waited(m_rows[m]) /\ (m_rows[m].status = "failed" /\ m \notin Broken => m_rows[m].age >= M!Oldest)
      BY DEF AttemptsTakeTime
    <3>2. M!Patience[m_rows[m].attempts] \in Nat /\ M!Oldest \in Nat
      <4>1. MaxAttempts - 1 \in 0 .. MaxAttempts
        BY DEF M!NotificationsAssumption
      <4>2. QED
        BY <1>8, <4>1, PatienceAddsUp DEF M!Oldest
    <3>3. CASE m_rows[m].status = "pending"
      <4>1. m_rows[m].attempts < MaxAttempts /\
            (m_rows[m].age >= M!Oldest \/ m_rows[m].age + m_rows[m].wait >= M!Patience[m_rows[m].attempts])
        BY <3>1, <3>3 DEF Waited
      <4>2. /\ m_rows'[m].age >= M!Oldest \/ m_rows'[m].age + m_rows'[m].wait >= M!Patience[m_rows[m].attempts]
        BY <1>6, <1>8, <3>2, <3>3, <4>1
      <4>3. QED
        BY <1>6, <3>3, <4>1, <4>2 DEF Waited
    <3>4. QED
      BY <1>7, <3>1, <3>3
  <2>2. QED
    BY <2>1 DEF AttemptsTakeTime
<1>14. QED
    BY <1>11, <1>12, <1>13

----------------------------------------------------------------------------
\* Repeated messages.

\* Whether the copy that the chat has got, or one of them, is accounted for: the row says so, or
\* a sender is about to.
Known(m) == m_rows[m].status = "sent" \/ \E s \in Senders : job[s].msg = m /\ job[s].at = "accepted"
Accounted(m) == IF Known(m) THEN 1 ELSE 0
Surplus == [m \in M!Messages |-> m_copies[m] - Accounted(m)]

CopiesAreLosses ==
    /\ \A m \in M!Messages : Accounted(m) <= m_copies[m]
    /\ Sum(Surplus, M!Messages) <= losses

LEMMA MessagesFinite == ASSUME M!NotificationsAssumption PROVE IsFiniteSet(M!Messages)
    BY FS_Interval DEF M!Messages, M!NotificationsAssumption

LEMMA SurplusType ==
    ASSUME OutboxTypes, CopiesAreLosses
    PROVE  \A m \in M!Messages : Surplus[m] \in Nat /\ Accounted(m) \in {0, 1} /\ m_copies[m] \in Nat
    BY DEF OutboxTypes, CopiesAreLosses, Surplus, Accounted

\* No copy comes without being accounted for.
LEMMA CopiesStay ==
    ASSUME M!NotificationsAssumption, OutboxTypes, OutboxTypes', CopiesAreLosses, losses' = losses,
           \A m \in M!Messages : m_copies'[m] - Accounted(m)' = m_copies[m] - Accounted(m)
    PROVE  CopiesAreLosses'
<1>1. \A m \in M!Messages : Surplus'[m] = Surplus[m]
    BY DEF Surplus
<1>2. Sum(Surplus', M!Messages) = Sum(Surplus, M!Messages)
    BY <1>1, SumSame, MessagesFinite
<1>3. \A m \in M!Messages : Accounted(m)' <= m_copies'[m]
  <2>1. \A m \in M!Messages : Accounted(m)' \in {0, 1} /\ m_copies'[m] \in Nat
    BY DEF Accounted, OutboxTypes
  <2>2. QED
    BY <2>1, SurplusType DEF CopiesAreLosses
<1>4. QED
    BY <1>2, <1>3 DEF CopiesAreLosses

\* What is not accounted for any more has been lost.
LEMMA CopyIsLost ==
    ASSUME M!NotificationsAssumption, OutboxTypes, OutboxTypes', CopiesAreLosses, losses' = losses + 1,
           NEW m \in M!Messages, m_copies' = m_copies, Accounted(m) = 1, Accounted(m)' = 0,
           \A k \in M!Messages \ {m} : Accounted(k)' = Accounted(k)
    PROVE  CopiesAreLosses'
<1>1. /\ Surplus'[m] = Surplus[m] + 1 /\ \A k \in M!Messages \ {m} : Surplus'[k] = Surplus[k]
      /\ \A k \in M!Messages : Surplus[k] \in Nat
    BY SurplusType DEF Surplus
<1>2. \A k \in M!Messages : Surplus[k] \in Nat /\ Surplus'[k] \in Nat
    BY <1>1
<1>3. Sum(Surplus', M!Messages) + Surplus[m] = Sum(Surplus, M!Messages) + Surplus'[m]
    BY <1>1, <1>2, SumChange, MessagesFinite
<1>4. Sum(Surplus, M!Messages) \in Nat /\ Sum(Surplus', M!Messages) \in Nat
    BY <1>2, SumType, MessagesFinite
<1>5. losses \in Nat /\ Sum(Surplus, M!Messages) <= losses
    BY DEF OutboxTypes, CopiesAreLosses
<1>6. Sum(Surplus', M!Messages) <= losses'
    BY <1>1, <1>2, <1>3, <1>4, <1>5
<1>7. \A k \in M!Messages : Accounted(k)' <= m_copies'[k]
    BY SurplusType DEF CopiesAreLosses
<1>8. QED
    BY <1>6, <1>7 DEF CopiesAreLosses

LEMMA CopyStep ==
    ASSUME M!NotificationsAssumption, OutboxInv, OutboxInv', CopiesAreLosses, NEW s \in Senders,
           M!StartJob(s) \/ M!EndJob(s) \/ M!Take(s) \/ M!Answer(s) \/ M!Die(s)
    PROVE  CopiesAreLosses'
<1>0. PICK m : m = job[s].msg
    OBVIOUS
<1> USE <1>0
<1>1. OutboxTypes /\ OutboxTypes' /\ \A t \in Senders \ {s} : job'[t] = job[t]
  <2>1. \E j : job' = [job EXCEPT ![s] = j]
    BY DEF M!StartJob, M!EndJob, M!Take, M!Answer, M!Die, M!Unrenderable, M!Accept, M!MarkSent,
           M!Undeliverable, M!SlowDown, M!Refuse, M!LoseAnswer, M!Settle
  <2>2. QED
    BY <2>1 DEF OutboxInv, OutboxTypes
<1>2. \A k \in M!Messages : k # 0
    BY DEF M!Messages, M!NotificationsAssumption
<1>3. job \in [Senders -> MsgJob] /\ (m # 0 <=> job[s].at \in {"post", "accepted"})
    BY DEF OutboxInv, OutboxTypes, JobsHoldRows
<1>4. ASSUME NEW k \in M!Messages, ~(job[s].msg = k /\ job[s].at = "accepted"),
             ~(job'[s].msg = k /\ job'[s].at = "accepted"), m_rows'[k] = m_rows[k]
      PROVE  Accounted(k)' = Accounted(k)
  <2>1. Known(k)' <=> Known(k)
    BY <1>1, <1>4 DEF Known
  <2>2. QED
    BY <2>1 DEF Accounted
<1>5. CASE M!StartJob(s) \/ M!EndJob(s) \/ M!Take(s)
  <2>1. job[s].at \in {"idle", "batch"} /\ job'[s].at \in {"idle", "batch", "post"}
    BY <1>3, <1>5 DEF M!StartJob, M!EndJob, M!Take, M!NoJob
  <2>2. UNCHANGED <<m_rows, m_copies, losses>>
    BY <1>5 DEF M!StartJob, M!EndJob, M!Take
  <2>3. \A k \in M!Messages : Accounted(k)' = Accounted(k)
    BY <2>1, <2>2, <1>4
  <2>4. QED
    BY <1>1, <2>2, <2>3, CopiesStay
<1>6. ASSUME job[s].at = "post", job'[s].at # "accepted", UNCHANGED <<m_copies, losses>>,
             m_rows'[m].status # "sent", \A k \in M!Messages \ {m} : m_rows'[k] = m_rows[k]
      PROVE  CopiesAreLosses'
  <2>1. m \in M!Messages /\ m_rows[m].status = "pending"
    BY <1>6, Held
  <2>2. Known(m)' <=> Known(m)
    BY <1>1, <1>6, <2>1 DEF Known
  <2>3. \A k \in M!Messages : Accounted(k)' = Accounted(k)
    BY <1>4, <1>6, <2>2 DEF Accounted
  <2>4. QED
    BY <1>1, <1>6, <2>3, CopiesStay
<1>7. ASSUME job[s].at = "accepted", job'[s].msg = 0, \A k \in M!Messages \ {m} : m_rows'[k] = m_rows[k],
             UNCHANGED m_copies
      PROVE  /\ m_rows'[m].status = "sent" /\ losses' = losses => CopiesAreLosses'
             /\ m_rows'[m].status # "sent" /\ losses' = losses + 1 => CopiesAreLosses'
  <2>1. m \in M!Messages /\ m # 0
    BY <1>2, <1>7, Held
  <2>2. Accounted(m) = 1
    BY <1>7 DEF Accounted, Known
  <2>3. \A t \in Senders \ {s} : job'[t].msg # m
    BY <1>1, <2>1 DEF OutboxInv, JobsHoldRows
  <2>4. Known(m)' <=> m_rows'[m].status = "sent"
    BY <1>7, <2>1, <2>3 DEF Known
  <2>5. \A k \in M!Messages \ {m} : Accounted(k)' = Accounted(k)
    BY <1>2, <1>4, <1>7
  <2>6. CASE m_rows'[m].status = "sent" /\ losses' = losses
    <3>1. Accounted(m)' = 1
      BY <2>4, <2>6 DEF Accounted
    <3>2. \A k \in M!Messages : Accounted(k)' = Accounted(k)
      BY <2>2, <2>5, <3>1
    <3>3. QED
      BY <1>1, <1>7, <2>6, <3>2, CopiesStay
  <2>7. CASE m_rows'[m].status # "sent" /\ losses' = losses + 1
    <3>1. Accounted(m)' = 0
      BY <2>4, <2>7 DEF Accounted
    <3>2. QED
      BY <1>1, <1>7, <2>1, <2>2, <2>5, <2>7, <3>1, CopyIsLost
  <2>8. QED
    BY <2>6, <2>7
<1>8. CASE M!Accept(s)
  <2>1. job[s].at = "post" /\ m \in M!Messages /\ m_rows[m].status = "pending" /\ m # 0
    BY <1>2, <1>8, Held DEF M!Accept
  <2>2. job'[s].at = "accepted" /\ job'[s].msg = m /\ UNCHANGED <<m_rows, losses>>
    BY <1>3, <1>8 DEF M!Accept, MsgJob
  <2>3. m_copies'[m] = m_copies[m] + 1 /\ \A k \in M!Messages \ {m} : m_copies'[k] = m_copies[k]
    BY <1>1, <1>8, <2>1 DEF M!Accept, OutboxTypes
  <2>4. \A t \in Senders \ {s} : job[t].msg # m
    BY <2>1 DEF OutboxInv, JobsHoldRows
  <2>5. Accounted(m) = 0 /\ Accounted(m)' = 1
    <3>1. ~Known(m)
      BY <2>1, <2>4 DEF Known
    <3>2. Known(m)'
      BY <2>2 DEF Known
    <3>3. QED
      BY <3>1, <3>2 DEF Accounted
  <2>6. \A k \in M!Messages \ {m} : Accounted(k)' = Accounted(k)
    BY <1>4, <2>1, <2>2
  <2>7. m_copies[m] \in Nat
    BY <1>1, <2>1 DEF OutboxTypes
  <2>8. \A k \in M!Messages : m_copies'[k] - Accounted(k)' = m_copies[k] - Accounted(k)
    BY <2>3, <2>5, <2>6, <2>7
  <2>9. QED
    BY <1>1, <2>2, <2>8, CopiesStay
<1>9. ASSUME job[s].at \in {"post", "accepted"}, NEW row, m_rows' = [m_rows EXCEPT ![m] = row]
      PROVE  m_rows'[m] = row /\ \A k \in M!Messages \ {m} : m_rows'[k] = m_rows[k]
    BY <1>1, <1>9, Held DEF OutboxTypes
<1>10. ASSUME NEW row, M!Settle(s, row)
       PROVE  job'[s].at = "batch" /\ job'[s].msg = 0 /\ m_rows' = [m_rows EXCEPT ![m] = row]
    BY <1>1, <1>10 DEF M!Settle, OutboxTypes
<1>11. CASE M!Unrenderable(s) \/ M!Undeliverable(s)
  <2>1. PICK outcome \in {"failed", "undeliverable"} : M!Settle(s, [m_rows[m] EXCEPT !.status = outcome])
    BY <1>11 DEF M!Unrenderable, M!Undeliverable
  <2>2. job[s].at = "post" /\ UNCHANGED <<m_copies, losses>>
    BY <1>11 DEF M!Unrenderable, M!Undeliverable
  <2>3. [m_rows[m] EXCEPT !.status = outcome].status = outcome
    BY <2>2, Held DEF MsgRow
  <2>4. QED
    BY <1>6, <1>9, <1>10, <2>1, <2>2, <2>3
<1>12. CASE M!MarkSent(s)
  <2>1. job[s].at = "accepted" /\ UNCHANGED <<m_copies, losses>>
    BY <1>12 DEF M!MarkSent
  <2>2. M!Settle(s, [m_rows[m] EXCEPT !.status = "sent"])
    BY <1>12 DEF M!MarkSent
  <2>3. [m_rows[m] EXCEPT !.status = "sent"].status = "sent"
    BY <2>1, Held DEF MsgRow
  <2>4. QED
    BY <1>7, <1>9, <1>10, <2>1, <2>2, <2>3
<1>13. CASE M!SlowDown(s)
  <2>1. /\ job[s].at = "post" /\ m_rows' = [m_rows EXCEPT ![m].wait = 1] /\ UNCHANGED <<m_copies, losses>>
        /\ job' = [job EXCEPT ![s] = M!NoJob]
    BY <1>13 DEF M!SlowDown
  <2>2. m \in M!Messages /\ m_rows[m].status = "pending" /\ m_rows[m] \in MsgRow
    BY <2>1, Held
  <2>3. m_rows'[m].status = "pending" /\ \A k \in M!Messages \ {m} : m_rows'[k] = m_rows[k]
    BY <1>1, <2>1, <2>2 DEF OutboxTypes, MsgRow
  <2>4. job'[s].at = "idle"
    BY <1>3, <2>1 DEF M!NoJob
  <2>5. QED
    BY <1>6, <2>1, <2>3, <2>4
<1>14. CASE M!Refuse(s) \/ M!LoseAnswer(s)
  <2>1. job[s].at \in {"post", "accepted"} /\ M!Settle(s, M!Retried(m_rows[m])) /\ UNCHANGED m_copies
    BY <1>14 DEF M!Refuse, M!LoseAnswer
  <2>2. M!Retried(m_rows[m]).status # "sent"
    <3>1. M!Retried(m_rows[m]).status \in {"pending", "failed"}
      BY <2>1, Held, RetriedWaits
    <3>2. QED
      BY <3>1
  <2>3. CASE M!Refuse(s)
    BY <2>1, <2>2, <2>3, <1>6, <1>9, <1>10 DEF M!Refuse
  <2>4. CASE M!LoseAnswer(s)
    BY <2>1, <2>2, <2>4, <1>7, <1>9, <1>10 DEF M!LoseAnswer
  <2>5. QED
    BY <1>14, <2>3, <2>4
<1>15. CASE M!Die(s)
  <2>1. /\ job' = [job EXCEPT ![s] = M!NoJob] /\ UNCHANGED <<m_rows, m_copies>>
        /\ losses' = IF job[s].at = "accepted" THEN losses + 1 ELSE losses
    BY <1>15 DEF M!Die
  <2>2. job'[s].msg = 0 /\ job'[s].at = "idle"
    BY <1>3, <2>1 DEF M!NoJob
  <2>3. CASE job[s].at = "accepted"
    <3>1. m \in M!Messages /\ m_rows[m].status = "pending"
      BY <2>3, Held
    <3>2. QED
      BY <1>7, <2>1, <2>2, <2>3, <3>1
  <2>4. CASE job[s].at # "accepted"
    <3>1. \A k \in M!Messages : Accounted(k)' = Accounted(k)
      BY <1>4, <2>1, <2>2, <2>4
    <3>2. QED
      BY <1>1, <2>1, <2>4, <3>1, CopiesStay
  <2>5. QED
    BY <2>3, <2>4
<1>16. QED
    BY <1>5, <1>8, <1>11, <1>12, <1>13, <1>14, <1>15 DEF M!Answer

LEMMA OutboxStep ==
    ASSUME M!NotificationsAssumption, OutboxInv, CopiesAreLosses, [M!Next]_(M!vars)
    PROVE  OutboxInv' /\ CopiesAreLosses'
<1>1. ASSUME NEW s \in Senders, M!StartJob(s) \/ M!EndJob(s) \/ M!Take(s) \/ M!Answer(s) \/ M!Die(s)
      PROVE  OutboxInv' /\ CopiesAreLosses'
    BY <1>1, SenderStep, CopyStep
<1>2. ASSUME NEW m \in M!Messages, M!Enqueue(m) PROVE OutboxInv' /\ CopiesAreLosses'
  <2>1. OutboxInv'
    BY <1>2, QueueStep
  <2>2. \A k \in M!Messages : m_rows'[k].status = "sent" <=> m_rows[k].status = "sent"
    <3>1. m_rows[m].status = "none" /\ m_rows' = [m_rows EXCEPT ![m] = [M!NoRow EXCEPT !.status = "pending"]]
      BY <1>2 DEF M!Enqueue, M!NoRow
    <3>2. [M!NoRow EXCEPT !.status = "pending"].status = "pending"
      BY DEF M!NoRow
    <3>3. QED
      BY <3>1, <3>2 DEF OutboxInv, OutboxTypes
  <2>3. UNCHANGED <<job, m_copies, losses>>
    BY <1>2 DEF M!Enqueue
  <2>4. \A k \in M!Messages : Accounted(k)' = Accounted(k)
    BY <2>2, <2>3 DEF Accounted, Known
  <2>5. QED
    BY <2>1, <2>3, <2>4, CopiesStay DEF OutboxInv
<1>3. CASE M!Tick
  <2>1. OutboxInv'
    BY <1>3, OutboxTick
  <2>2. \A k \in M!Messages : m_rows'[k].status = "sent" <=> m_rows[k].status = "sent"
    BY <1>3 DEF M!Tick, M!Pending
  <2>3. UNCHANGED <<job, m_copies, losses>>
    BY <1>3 DEF M!Tick
  <2>4. \A k \in M!Messages : Accounted(k)' = Accounted(k)
    BY <2>2, <2>3 DEF Accounted, Known
  <2>5. QED
    BY <2>1, <2>3, <2>4, CopiesStay DEF OutboxInv
<1>4. CASE UNCHANGED M!vars
  <2>1. OutboxInv'
    BY <1>4 DEF M!vars, OutboxInv, OutboxTypes, LineIsReady, Ready, JobsHoldRows, AttemptsTakeTime
  <2>2. \A k \in M!Messages : Accounted(k)' = Accounted(k)
    BY <1>4 DEF M!vars, Accounted, Known
  <2>3. QED
    BY <1>4, <2>1, <2>2, CopiesStay DEF OutboxInv, M!vars
<1>5. QED
    BY <1>1, <1>2, <1>3, <1>4 DEF M!Next

\* The sum that RepeatsAreLosses speaks of.
LEMMA RepeatsAre ==
    ASSUME M!NotificationsAssumption
    PROVE  M!RepeatsAreLosses <=>
             Sum([m \in M!Messages |-> IF m_copies[m] > 1 THEN m_copies[m] - 1 ELSE 0], M!Messages) <= losses
<1> DEFINE S == M!Messages
           g == [m \in S |-> IF m_copies[m] > 1 THEN m_copies[m] - 1 ELSE 0]
           Adds(h) == h = [s \in SUBSET S |->
                          IF s = {} THEN 0
                          ELSE (IF m_copies[CHOOSE x \in s : TRUE] > 1
                                THEN m_copies[CHOOSE x \in s : TRUE] - 1 ELSE 0)
                               + h[s \ {CHOOSE x \in s : TRUE}]]
<1>1. M!RepeatsAreLosses <=> (CHOOSE h : Adds(h))[S] <= losses
    BY DEF M!RepeatsAreLosses, M!MapThenSumSet, M!MapThenFoldSet
<1>2. ASSUME NEW s \in SUBSET S, s # {}
      PROVE  g[Some(s)] = IF m_copies[CHOOSE x \in s : TRUE] > 1
                          THEN m_copies[CHOOSE x \in s : TRUE] - 1 ELSE 0
  <2>1. Some(s) \in S
    BY <1>2, SomeIsIn
  <2>2. g[Some(s)] = IF m_copies[Some(s)] > 1 THEN m_copies[Some(s)] - 1 ELSE 0
    BY <2>1
  <2>3. QED
    BY <2>2 DEF Some
<1>3. IsFiniteSet(S)
    BY MessagesFinite
<1> HIDE DEF g
<1>4. ASSUME NEW h PROVE Adds(h) <=> Sums(h, g, S)
  <2>1. [s \in SUBSET S |-> IF s = {} THEN 0
                            ELSE (IF m_copies[CHOOSE x \in s : TRUE] > 1
                                  THEN m_copies[CHOOSE x \in s : TRUE] - 1 ELSE 0)
                                 + h[s \ {CHOOSE x \in s : TRUE}]]
        = [s \in SUBSET S |-> IF s = {} THEN 0 ELSE g[Some(s)] + h[s \ {Some(s)}]]
    BY <1>2 DEF Some
  <2>2. QED
    BY <2>1 DEF Sums
<1> HIDE DEF Adds, S
<1>5. \E h : Sums(h, g, S)
    BY <1>3, SumsExist
<1>6. Adds(CHOOSE h : Adds(h))
    BY <1>4, <1>5
<1>7. Sums(CHOOSE h : Adds(h), g, S)
    BY <1>4, <1>6
<1>8. (CHOOSE h : Adds(h))[S] = Sum(g, S)
    BY <1>3, <1>7, SumIs
<1>9. QED
    BY <1>1, <1>8 DEF g, S

LEMMA OutboxIsSound ==
    ASSUME M!NotificationsAssumption, OutboxInv, CopiesAreLosses
    PROVE  M!TypeOK /\ MessagesGoOnce
<1> DEFINE g == [m \in M!Messages |-> IF m_copies[m] > 1 THEN m_copies[m] - 1 ELSE 0]
<1>1. \A m \in M!Messages : g[m] \in Nat /\ Surplus[m] \in Nat /\ g[m] <= Surplus[m]
    BY SurplusType DEF OutboxInv, Surplus
<1> HIDE DEF g
<1>2. Sum(g, M!Messages) <= Sum(Surplus, M!Messages)
    BY <1>1, SumGrows, MessagesFinite
<1>3. Sum(g, M!Messages) \in Nat /\ Sum(Surplus, M!Messages) \in Nat /\ losses \in Nat
    BY <1>1, SumType, MessagesFinite DEF OutboxInv, OutboxTypes
<1>4. Sum(g, M!Messages) <= losses
    BY <1>2, <1>3 DEF CopiesAreLosses
<1>5. M!RepeatsAreLosses
    BY <1>4, RepeatsAre DEF g
<1>6. M!FailedAfterPatience
    BY DEF OutboxInv, AttemptsTakeTime, M!FailedAfterPatience
<1>7. M!TypeOK
  <2>1. \A s \in Senders : job[s].msg # 0 => job[s].msg \in Ready
    BY DEF OutboxInv, JobsHoldRows
  <2>2. M!ToSet(line) = Ready /\ Ready = {m \in M!Pending : m_rows[m].wait = 0}
    BY DEF OutboxInv, LineIsReady, Ready, M!Pending
  <2>3. QED
    BY <2>1, <2>2 DEF OutboxInv, OutboxTypes, LineIsReady, MsgRow, MsgJob, M!TypeOK
<1>8. QED
    BY <1>5, <1>6, <1>7 DEF MessagesGoOnce

\* Notifications: for any senders and messages and whatever is lost or killed, all the copies
\* that came too often are no more than the answers and transactions lost after Telegram had
\* taken a message, no two senders are about one row, and a message is given up only after an
\* outage as long as the pauses of its attempts (_send_one, send_pending).
THEOREM SentOnce ==
    ASSUME M!NotificationsAssumption
    PROVE  M!Spec => [](M!TypeOK /\ MessagesGoOnce)
<1>1. M!Init => OutboxInv /\ CopiesAreLosses
  <2> SUFFICES ASSUME M!Init PROVE OutboxInv /\ CopiesAreLosses
    OBVIOUS
  <2> USE DEF M!Init
  <2>1. M!NoRow \in MsgRow /\ M!NoJob \in MsgJob
    BY DEF M!NoRow, M!NoJob, MsgRow, MsgJob, M!NotificationsAssumption
  <2>2. OutboxTypes
    BY <2>1 DEF OutboxTypes
  <2>3. \A m \in M!Messages : m_rows[m].status = "none" /\ m_copies[m] = 0
    BY DEF M!NoRow
  <2>4. LineIsReady
    BY <2>3 DEF LineIsReady, Ready, M!IsInjective, M!ToSet
  <2>5. JobsHoldRows
    BY DEF JobsHoldRows, M!NoJob
  <2>6. AttemptsTakeTime
    BY <2>3 DEF AttemptsTakeTime, Waited
  <2>7. \A m \in M!Messages : Accounted(m) = 0
    BY <2>3 DEF Accounted, Known, M!NoJob
  <2>8. \A m \in M!Messages : Surplus[m] = 0
    BY <2>3, <2>7 DEF Surplus
  <2>9. Sum(Surplus, M!Messages) = 0
    BY <2>8, SumType, MessagesFinite
  <2>10. CopiesAreLosses
    BY <2>3, <2>7, <2>9 DEF CopiesAreLosses
  <2>11. QED
    BY <2>2, <2>4, <2>5, <2>6, <2>10 DEF OutboxInv
<1>2. OutboxInv /\ CopiesAreLosses /\ [M!Next]_(M!vars) => (OutboxInv /\ CopiesAreLosses)'
    BY OutboxStep
<1>3. OutboxInv /\ CopiesAreLosses => M!TypeOK /\ MessagesGoOnce
    BY OutboxIsSound
<1>4. QED
    BY <1>1, <1>2, <1>3, PTL DEF M!Spec
=============================================================================
