-------------------------- MODULE TripAccessProofs --------------------------
(***************************************************************************)
(* What reaches a trip beside its owner's pages, for any number of links,  *)
(* requests, tabs and changes: links, where the row locks keep what a      *)
(* revocation read true until it commits (Sharing), and the copies on a    *)
(* device, with what a sign-out leaves of them (OfflinePackages).          *)
(***************************************************************************)
EXTENDS Sharing, OfflinePackages, FiniteSetTheorems, SequenceTheorems, TLAPS

\* The transactions, by what they are about to do.
Creations == [op : {"create", "created"}, link : Links, expires : Nat \ {0}]
Searches == [op : {"revoke"}, link : Links, at : Nat]
Revocations == [op : {"revoked"}, link : Links, last : BOOLEAN]
Transactions == {Idle} \union Creations \union Searches \union Revocations
Answers == {NoAnswer} \union [op : {"created", "revoked"}, link : Links]

Typed ==
  /\ exists \in BOOLEAN /\ visible \in BOOLEAN /\ byHand \in BOOLEAN
  /\ now \in Nat /\ now <= MaxTime
  /\ link \in [Links -> [made : BOOLEAN, expires : Nat, revoked : BOOLEAN]]
  /\ audit \subseteq {"created", "revoked"} \X Links
  /\ tx \in [Requests -> Transactions] /\ keyShared \subseteq Requests
  /\ page \in [listed : [Links -> {"no", "active", "revoked"}], answer : Answers,
     told : SUBSET Links]

Creates(r) == tx[r].op \in {"create", "created"}
Revokes(r) == tx[r].op \in {"revoke", "revoked"}

\* Who holds which lock: one writer at a time, and a revocation alone.
Locks ==
  /\ \A r \in Requests : r \in keyShared <=> Creates(r)
  /\ \A r \in Requests : tx[r].op = "created" => locked = [by |-> {r}, full |-> FALSE]
  /\ \A r \in Requests : Revokes(r) => locked = [by |-> {r}, full |-> TRUE]
  /\ \/ locked = Free
     \/ \E r \in Requests : tx[r].op = "created" \/ Revokes(r)
  /\ locked.full => keyShared = {}

\* What a transaction under way relies on.
CreationsAreNew ==
  \A r \in Requests : Creates(r) =>
    /\ exists /\ ~link[tx[r].link].made
    /\ \A s \in Requests \ {r} : Creates(s) => tx[s].link # tx[r].link
RevocationsAreRight ==
  \A r \in Requests : Revokes(r) =>
    /\ exists /\ link[tx[r].link].made
    /\ tx[r].op = "revoke" => tx[r].at <= now
    /\ tx[r].op = "revoked" =>
         IF tx[r].last THEN \A l \in Links \ {tx[r].link} : ~Active(l, now)
         ELSE \E l \in Links \ {tx[r].link} : Active(l, 0)

\* A trip made visible by a link has one, and what the page tells is so.
VisibleByLink == visible /\ ~byHand => \E l \in Links : Active(l, 0)
Closed(l) == link[l].made /\ link[l].revoked
PageIsRight ==
  /\ \A l \in page.told : Closed(l)
  /\ page.answer.op = "revoked" => Closed(page.answer.link)

\* The inductive invariant.
IInv ==
  /\ Typed
  /\ Locks
  /\ CreationsAreNew
  /\ RevocationsAreRight
  /\ ActiveLinksOpen
  /\ VisibleByLink
  /\ PageIsRight

-----------------------------------------------------------------------------
\* What the transactions look like.
LEMMA TransactionShapes ==
  ASSUME NEW x \in Transactions
  PROVE  /\ x.op \in {"none", "create", "created", "revoke", "revoked"}
         /\ x.op = "none" <=> x = Idle
         /\ x.op \in {"create", "created"} => x \in Creations /\ x.link \in Links
            /\ x.expires \in Nat \ {0}
         /\ x.op = "revoke" => x \in Searches /\ x.link \in Links /\ x.at \in Nat
         /\ x.op = "revoked" => x \in Revocations /\ x.link \in Links /\ x.last \in BOOLEAN
BY DEF Transactions, Creations, Searches, Revocations, Idle

LEMMA InitHolds == Init => IInv
<1> SUFFICES ASSUME Init PROVE IInv
  OBVIOUS
<1>1. Typed
  BY SharingAssumption DEF Init, Typed, NoLink, NoAnswer, Answers, Transactions, Idle
<1>2. Locks /\ CreationsAreNew /\ RevocationsAreRight
  BY DEF Init, Locks, CreationsAreNew, RevocationsAreRight, Creates, Revokes, Idle, Free
<1>3. ActiveLinksOpen /\ VisibleByLink /\ PageIsRight
  BY DEF Init, ActiveLinksOpen, VisibleByLink, PageIsRight, Active, NoLink, NoAnswer, Closed
<1> QED BY <1>1, <1>2, <1>3 DEF IInv


LEMMA InsertHolds == \A r \in Requests, l \in Links : IInv /\ Insert(r, l) => IInv'
<1> SUFFICES ASSUME NEW r \in Requests, NEW l \in Links, IInv, Insert(r, l) PROVE IInv'
  OBVIOUS
<1> USE DEF IInv
<1>1. PICK d \in Lifetimes : tx' = [tx EXCEPT ![r] = [op |-> "create", link |-> l,
      expires |-> now + d]]
  BY DEF Insert
<1>2. now + d \in Nat \ {0}
  BY SharingAssumption DEF Typed
<1>3. [op |-> "create", link |-> l, expires |-> now + d] \in Transactions
  BY <1>2 DEF Transactions, Creations
<1>4. /\ tx'[r].op = "create" /\ tx'[r].link = l /\ tx[r].op = "none"
      /\ \A s \in Requests \ {r} : tx'[s] = tx[s]
      /\ tx' \in [Requests -> Transactions]
  BY <1>1, <1>3 DEF Insert, Typed, Idle
<1>5. UNCHANGED <<exists, visible, link, now, locked, audit, byHand, page>>
      /\ keyShared' = keyShared \union {r}
      /\ exists /\ ~link[l].made /\ ~locked.full
      /\ \A s \in Requests : Creates(s) => tx[s].link # l
  BY DEF Insert, Creates
<1>6. Typed'
  BY <1>4, <1>5 DEF Typed
<1>7. Locks'
  BY <1>4, <1>5 DEF Locks, Creates, Revokes, Free
<1>8. CreationsAreNew' /\ RevocationsAreRight'
  BY <1>4, <1>5 DEF CreationsAreNew, RevocationsAreRight, Creates, Revokes, Active
<1>9. ActiveLinksOpen' /\ VisibleByLink' /\ PageIsRight'
  BY <1>5 DEF ActiveLinksOpen, VisibleByLink, PageIsRight, Active, Closed
<1> QED BY <1>6, <1>7, <1>8, <1>9

LEMMA PublishHolds == \A r \in Requests : IInv /\ Publish(r) => IInv'
<1> SUFFICES ASSUME NEW r \in Requests, IInv, Publish(r) PROVE IInv'
  OBVIOUS
<1> USE DEF IInv
<1>1. tx[r] \in Creations /\ tx[r].op = "create"
  BY TransactionShapes DEF Publish, Typed
<1>2. PICK l \in Links, e \in Nat \ {0} : tx[r] = [op |-> "create", link |-> l, expires |-> e]
  BY <1>1 DEF Creations
<1>3. tx' = [tx EXCEPT ![r] = [op |-> "created", link |-> l, expires |-> e]]
  <2>1. [tx[r] EXCEPT !.op = "created"] = [op |-> "created", link |-> l, expires |-> e]
    BY <1>2
  <2>2. tx' = [tx EXCEPT ![r] = [tx[r] EXCEPT !.op = "created"]]
    BY DEF Publish
  <2> QED BY <2>1, <2>2
<1>4. [op |-> "created", link |-> l, expires |-> e] \in Transactions
  BY DEF Transactions, Creations
<1>5. /\ tx'[r].op = "created" /\ tx'[r].link = tx[r].link /\ tx[r].op = "create"
      /\ \A s \in Requests \ {r} : tx'[s] = tx[s]
      /\ tx' \in [Requests -> Transactions]
  BY <1>2, <1>3, <1>4 DEF Typed
<1>6. /\ UNCHANGED <<exists, visible, link, now, keyShared, audit, byHand, page>>
      /\ locked = Free /\ locked' = [by |-> {r}, full |-> FALSE]
  BY DEF Publish
<1>7. Typed'
  BY <1>5, <1>6 DEF Typed
<1>8. Locks'
  BY <1>5, <1>6 DEF Locks, Creates, Revokes, Free
<1>9. CreationsAreNew' /\ RevocationsAreRight'
  BY <1>5, <1>6 DEF CreationsAreNew, RevocationsAreRight, Creates, Revokes, Active
<1>10. ActiveLinksOpen' /\ VisibleByLink' /\ PageIsRight'
  BY <1>6 DEF ActiveLinksOpen, VisibleByLink, PageIsRight, Active, Closed
<1> QED BY <1>7, <1>8, <1>9, <1>10

\* The end of a transaction, which gives back what it held.
LEMMA EndOfTransaction ==
  ASSUME NEW r \in Requests, IInv, tx' = [tx EXCEPT ![r] = Idle], Release(r),
         tx[r].op = "created" \/ Revokes(r)
  PROVE  /\ Locks'
         /\ tx' \in [Requests -> Transactions] /\ keyShared' \subseteq Requests
         /\ tx'[r].op = "none" /\ \A s \in Requests \ {r} : tx'[s] = tx[s]
         /\ locked' = Free
         /\ \A s \in Requests \ {r} : ~Revokes(s) /\ tx[s].op # "created"
<1> USE DEF IInv
<1>1. tx'[r].op = "none" /\ \A s \in Requests \ {r} : tx'[s] = tx[s]
  BY DEF Typed, Idle
<1>2. tx' \in [Requests -> Transactions] /\ keyShared' \subseteq Requests
  BY DEF Typed, Transactions, Release
<1>3. locked.by = {r}
  BY DEF Locks
<1>4. locked' = Free
  BY <1>3 DEF Release
<1>5. \A s \in Requests \ {r} : ~Revokes(s) /\ tx[s].op # "created"
  BY <1>3 DEF Locks
<1>6. keyShared' = keyShared \ {r}
  BY DEF Release
<1>7. Locks'
  <2>1. \A s \in Requests : s \in keyShared' <=> Creates(s)'
    BY <1>1, <1>6 DEF Locks, Creates
  <2>2. \A s \in Requests : ~Revokes(s)' /\ tx'[s].op # "created"
    BY <1>1, <1>5 DEF Revokes
  <2> QED BY <2>1, <2>2, <1>4 DEF Locks, Free
<1> QED BY <1>1, <1>2, <1>4, <1>5, <1>7

LEMMA CommitCreationHolds == \A r \in Requests : IInv /\ CommitCreation(r) => IInv'
<1> SUFFICES ASSUME NEW r \in Requests, IInv, CommitCreation(r) PROVE IInv'
  OBVIOUS
<1> USE DEF IInv
<1> DEFINE m == tx[r].link
           row == [made |-> TRUE, expires |-> tx[r].expires, revoked |-> FALSE]
<1>1. m \in Links /\ tx[r].expires \in Nat \ {0} /\ tx[r].op = "created" /\ Creates(r)
  BY TransactionShapes DEF CommitCreation, Typed, Creates
<1>2. /\ link' = [link EXCEPT ![m] = row] /\ visible' = TRUE /\ byHand' = FALSE
      /\ audit' = audit \union {<<"created", m>>} /\ UNCHANGED <<exists, now>>
      /\ page' = [page EXCEPT !.answer = [op |-> "created", link |-> m]]
      /\ tx' = [tx EXCEPT ![r] = Idle] /\ Release(r)
  BY DEF CommitCreation
<1>3. /\ Locks'
      /\ tx' \in [Requests -> Transactions] /\ keyShared' \subseteq Requests
      /\ tx'[r].op = "none" /\ \A s \in Requests \ {r} : tx'[s] = tx[s]
      /\ \A s \in Requests \ {r} : ~Revokes(s) /\ tx[s].op # "created"
  BY <1>1, <1>2, EndOfTransaction
<1>4. /\ link'[m] = row /\ \A l \in Links \ {m} : link'[l] = link[l]
      /\ link' \in [Links -> [made : BOOLEAN, expires : Nat, revoked : BOOLEAN]]
  BY <1>1, <1>2 DEF Typed
<1>5. [op |-> "created", link |-> m] \in Answers
  BY <1>1 DEF Answers
<1>6. /\ page'.answer = [op |-> "created", link |-> m] /\ page'.told = page.told
      /\ page' \in [listed : [Links -> {"no", "active", "revoked"}], answer : Answers,
         told : SUBSET Links]
  BY <1>2, <1>5 DEF Typed
<1>7. Typed'
  <2>1. audit' \subseteq {"created", "revoked"} \X Links
    BY <1>1, <1>2 DEF Typed
  <2>2. exists' \in BOOLEAN /\ visible' \in BOOLEAN /\ byHand' \in BOOLEAN /\ now' \in Nat
        /\ now' <= MaxTime
    BY <1>2 DEF Typed
  <2> QED BY <2>1, <2>2, <1>3, <1>4, <1>6 DEF Typed
<1>8. ~link[m].made
  BY <1>1 DEF CreationsAreNew
<1>9. CreationsAreNew'
  <2> SUFFICES ASSUME NEW s \in Requests, Creates(s)'
               PROVE  /\ exists' /\ ~link'[tx'[s].link].made
                      /\ \A q \in Requests \ {s} : Creates(q)' => tx'[q].link # tx'[s].link
    BY DEF CreationsAreNew
  <2>1. s # r /\ Creates(s) /\ tx'[s] = tx[s]
    BY <1>3 DEF Creates
  <2>2. tx[s].link \in Links /\ tx[s].link # m
    BY <2>1, <1>1, TransactionShapes DEF CreationsAreNew, Typed, Creates
  <2>3. exists' /\ ~link'[tx'[s].link].made
    BY <2>1, <2>2, <1>2, <1>4 DEF CreationsAreNew
  <2>4. ASSUME NEW q \in Requests \ {s}, Creates(q)' PROVE tx'[q].link # tx'[s].link
    <3>1. q # r /\ tx'[q] = tx[q] /\ Creates(q)
      BY <2>4, <1>3 DEF Creates
    <3> QED BY <3>1, <2>1 DEF CreationsAreNew
  <2> QED BY <2>3, <2>4
<1>10. RevocationsAreRight'
  BY <1>3 DEF RevocationsAreRight, Revokes
<1>11. ActiveLinksOpen'
  BY <1>2 DEF ActiveLinksOpen
<1>12. VisibleByLink'
  <2>1. \A l \in Links : l = m => Active(l, 0)'
    BY <1>1, <1>4 DEF Active
  <2> QED BY <1>1, <2>1 DEF VisibleByLink
<1>13. PageIsRight'
  <2>1. \A l \in page.told : l # m /\ l \in Links
    BY <1>8 DEF PageIsRight, Closed, Typed
  <2> QED BY <2>1, <1>4, <1>6 DEF PageIsRight, Closed
<1> QED BY <1>3, <1>7, <1>9, <1>10, <1>11, <1>12, <1>13

LEMMA FindHolds == \A r \in Requests, l \in Links : IInv /\ Find(r, l) => IInv'
<1> SUFFICES ASSUME NEW r \in Requests, NEW l \in Links, IInv, Find(r, l) PROVE IInv'
  OBVIOUS
<1> USE DEF IInv
<1>1. /\ tx' = [tx EXCEPT ![r] = [op |-> "revoke", link |-> l, at |-> now]]
      /\ locked = Free /\ keyShared = {} /\ locked' = [by |-> {r}, full |-> TRUE]
      /\ exists /\ link[l].made
      /\ UNCHANGED <<exists, visible, link, now, keyShared, audit, byHand, page>>
  BY DEF Find
<1>2. [op |-> "revoke", link |-> l, at |-> now] \in Transactions
  BY DEF Transactions, Searches, Typed
<1>3. /\ tx'[r].op = "revoke" /\ tx'[r].link = l /\ tx'[r].at = now
      /\ \A s \in Requests \ {r} : tx'[s] = tx[s]
      /\ tx' \in [Requests -> Transactions]
  BY <1>1, <1>2 DEF Typed
<1>4. \A s \in Requests : ~Creates(s) /\ ~Revokes(s)
  BY <1>1 DEF Locks, Creates, Free
<1>5. Typed'
  BY <1>1, <1>3 DEF Typed
<1>6. Locks'
  BY <1>1, <1>3, <1>4 DEF Locks, Creates, Revokes
<1>7. CreationsAreNew'
  BY <1>3, <1>4 DEF CreationsAreNew, Creates
<1>8. RevocationsAreRight'
  <2> SUFFICES ASSUME NEW s \in Requests, Revokes(s)'
               PROVE  /\ exists' /\ link'[tx'[s].link].made
                      /\ tx'[s].op = "revoke" /\ tx'[s].at <= now'
    BY DEF RevocationsAreRight
  <2>1. s = r
    BY <1>3, <1>4 DEF Revokes
  <2> QED BY <2>1, <1>1, <1>3 DEF Typed
<1>9. ActiveLinksOpen' /\ VisibleByLink' /\ PageIsRight'
  BY <1>1 DEF ActiveLinksOpen, VisibleByLink, PageIsRight, Active, Closed
<1> QED BY <1>5, <1>6, <1>7, <1>8, <1>9

LEMMA LookForOthersHolds == \A r \in Requests : IInv /\ LookForOthers(r) => IInv'
<1> SUFFICES ASSUME NEW r \in Requests, IInv, LookForOthers(r) PROVE IInv'
  OBVIOUS
<1> USE DEF IInv
<1>1. PICK m \in Links, t \in Nat, b \in BOOLEAN :
        /\ m = tx[r].link /\ t = tx[r].at
        /\ b = ~\E l \in Links \ {m} : Active(l, t)
  BY TransactionShapes DEF LookForOthers, Typed
<1>2. /\ tx[r].op = "revoke" /\ tx' = [tx EXCEPT ![r] = [op |-> "revoked", link |-> m, last |-> b]]
      /\ UNCHANGED <<exists, visible, link, now, keyShared, locked, audit, byHand, page>>
  BY <1>1 DEF LookForOthers
<1>3. [op |-> "revoked", link |-> m, last |-> b] \in Transactions
  BY DEF Transactions, Revocations
<1>4. /\ tx'[r].op = "revoked" /\ tx'[r].link = m /\ tx'[r].last = b
      /\ \A s \in Requests \ {r} : tx'[s] = tx[s]
      /\ tx' \in [Requests -> Transactions]
  BY <1>2, <1>3 DEF Typed
<1>5. Typed'
  BY <1>2, <1>4 DEF Typed
<1>6. Locks' /\ CreationsAreNew'
  BY <1>2, <1>4 DEF Locks, Creates, Revokes, CreationsAreNew
<1>7. exists /\ link[m].made /\ t <= now
  BY <1>1, <1>2 DEF RevocationsAreRight, Revokes
<1>8. IF b THEN \A l \in Links \ {m} : ~Active(l, now) ELSE \E l \in Links \ {m} : Active(l, 0)
  BY <1>1, <1>7 DEF Active, Typed
<1>9. RevocationsAreRight'
  <2> SUFFICES ASSUME NEW s \in Requests, Revokes(s)'
               PROVE  /\ exists' /\ link'[tx'[s].link].made
                      /\ tx'[s].op = "revoke" => tx'[s].at <= now'
                      /\ tx'[s].op = "revoked" =>
                           IF tx'[s].last THEN \A l \in Links \ {tx'[s].link} : ~Active(l, now)'
                           ELSE \E l \in Links \ {tx'[s].link} : Active(l, 0)'
    BY DEF RevocationsAreRight
  <2>1. CASE s = r
    BY <2>1, <1>2, <1>4, <1>7, <1>8 DEF Active
  <2>2. CASE s # r
    <3>1. tx'[s] = tx[s] /\ Revokes(s)
      BY <2>2, <1>4 DEF Revokes
    <3> QED BY <3>1, <1>2 DEF RevocationsAreRight, Active
  <2> QED BY <2>1, <2>2
<1>10. ActiveLinksOpen' /\ VisibleByLink' /\ PageIsRight'
  BY <1>2 DEF ActiveLinksOpen, VisibleByLink, PageIsRight, Active, Closed
<1> QED BY <1>5, <1>6, <1>9, <1>10

LEMMA CommitRevocationHolds == \A r \in Requests : IInv /\ CommitRevocation(r) => IInv'
<1> SUFFICES ASSUME NEW r \in Requests, IInv, CommitRevocation(r) PROVE IInv'
  OBVIOUS
<1> USE DEF IInv
<1>1. PICK m \in Links, b \in BOOLEAN : m = tx[r].link /\ b = tx[r].last
  BY TransactionShapes DEF CommitRevocation, Typed
<1>2. /\ tx[r].op = "revoked" /\ Revokes(r)
      /\ link' = [link EXCEPT ![m].revoked = TRUE]
      /\ visible' = (visible /\ ~b) /\ byHand' = (byHand /\ ~b)
      /\ audit' = audit \union {<<"revoked", m>>} /\ UNCHANGED <<exists, now>>
      /\ page' = [page EXCEPT !.answer = [op |-> "revoked", link |-> m]]
      /\ tx' = [tx EXCEPT ![r] = Idle] /\ Release(r)
  BY <1>1 DEF CommitRevocation, Revokes
<1>3. /\ Locks'
      /\ tx' \in [Requests -> Transactions] /\ keyShared' \subseteq Requests
      /\ tx'[r].op = "none" /\ \A s \in Requests \ {r} : tx'[s] = tx[s]
      /\ \A s \in Requests \ {r} : ~Revokes(s) /\ tx[s].op # "created"
  BY <1>2, EndOfTransaction
<1>4. link[m].made /\ (IF b THEN \A l \in Links \ {m} : ~Active(l, now)
                       ELSE \E l \in Links \ {m} : Active(l, 0))
  BY <1>1, <1>2 DEF RevocationsAreRight
<1>5. /\ link'[m].made = link[m].made /\ link'[m].revoked = TRUE
      /\ \A l \in Links \ {m} : link'[l] = link[l]
      /\ link' \in [Links -> [made : BOOLEAN, expires : Nat, revoked : BOOLEAN]]
  BY <1>2 DEF Typed
<1>6. [op |-> "revoked", link |-> m] \in Answers
  BY DEF Answers
<1>7. /\ page'.answer = [op |-> "revoked", link |-> m] /\ page'.told = page.told
      /\ page' \in [listed : [Links -> {"no", "active", "revoked"}], answer : Answers,
         told : SUBSET Links]
  BY <1>2, <1>6 DEF Typed
<1>8. Typed'
  <2>1. audit' \subseteq {"created", "revoked"} \X Links
    BY <1>2 DEF Typed
  <2>2. exists' \in BOOLEAN /\ visible' \in BOOLEAN /\ byHand' \in BOOLEAN /\ now' \in Nat
        /\ now' <= MaxTime
    BY <1>2 DEF Typed
  <2> QED BY <2>1, <2>2, <1>3, <1>5, <1>7 DEF Typed
<1>9. CreationsAreNew'
  <2> SUFFICES ASSUME NEW s \in Requests, Creates(s)'
               PROVE  /\ exists' /\ ~link'[tx'[s].link].made
                      /\ \A q \in Requests \ {s} : Creates(q)' => tx'[q].link # tx'[s].link
    BY DEF CreationsAreNew
  <2>1. s # r /\ Creates(s) /\ tx'[s] = tx[s]
    BY <1>3 DEF Creates
  <2>2. tx[s].link \in Links /\ ~link[tx[s].link].made /\ exists
    BY <2>1, TransactionShapes DEF CreationsAreNew, Typed, Creates
  <2>3. exists' /\ ~link'[tx'[s].link].made
    BY <2>1, <2>2, <1>2, <1>4, <1>5
  <2>4. ASSUME NEW q \in Requests \ {s}, Creates(q)' PROVE tx'[q].link # tx'[s].link
    <3>1. q # r /\ tx'[q] = tx[q] /\ Creates(q)
      BY <2>4, <1>3 DEF Creates
    <3> QED BY <3>1, <2>1 DEF CreationsAreNew
  <2> QED BY <2>3, <2>4
<1>10. RevocationsAreRight'
  BY <1>3 DEF RevocationsAreRight, Revokes
<1>11. \A l \in Links, t \in Nat : Active(l, t)' <=> l # m /\ Active(l, t)
  BY <1>5 DEF Active
<1>12. ActiveLinksOpen'
  <2> SUFFICES ASSUME NEW l \in Links, exists', Active(l, now)', ~byHand' PROVE visible'
    BY DEF ActiveLinksOpen
  <2>1. l # m /\ Active(l, now)
    BY <1>2, <1>5 DEF Active
  <2>2. ~b
    BY <2>1, <1>4
  <2> QED BY <2>1, <2>2, <1>2 DEF ActiveLinksOpen
<1>13. VisibleByLink'
  <2> SUFFICES ASSUME visible' PROVE \E l \in Links : Active(l, 0)'
    BY DEF VisibleByLink
  <2>1. ~b
    BY <1>2
  <2>2. PICK l \in Links \ {m} : Active(l, 0)
    BY <2>1, <1>4
  <2> QED BY <2>2, <1>11
<1>14. PageIsRight'
  <2>1. Closed(m)'
    BY <1>4, <1>5 DEF Closed
  <2>2. \A l \in page.told : l \in Links /\ Closed(l)
    BY DEF PageIsRight, Typed
  <2>3. \A l \in page.told : Closed(l)'
    BY <2>1, <2>2, <1>5 DEF Closed
  <2> QED BY <2>1, <2>3, <1>7 DEF PageIsRight
<1> QED BY <1>3, <1>8, <1>9, <1>10, <1>12, <1>13, <1>14

\* Nobody writes while a request holds the trip.
LEMMA NobodyUnderWay ==
  ASSUME IInv, locked = Free, keyShared = {}
  PROVE  \A r \in Requests : ~Creates(r) /\ ~Revokes(r)
BY DEF IInv, Locks, Free

LEMMA SetVisibilityHolds == \A v \in BOOLEAN : IInv /\ SetVisibility(v) => IInv'
<1> SUFFICES ASSUME NEW v \in BOOLEAN, IInv, SetVisibility(v) PROVE IInv'
  OBVIOUS
<1>1. \A r \in Requests : ~Creates(r) /\ ~Revokes(r)
  BY NobodyUnderWay DEF SetVisibility
<1>2. Typed' /\ Locks'
  BY DEF IInv, SetVisibility, Typed, Locks, Creates, Revokes
<1>3. CreationsAreNew' /\ RevocationsAreRight'
  BY <1>1 DEF SetVisibility, CreationsAreNew, RevocationsAreRight, Creates, Revokes
<1>4. ActiveLinksOpen' /\ VisibleByLink' /\ PageIsRight'
  BY DEF IInv, SetVisibility, ActiveLinksOpen, VisibleByLink, PageIsRight, Closed
<1> QED BY <1>2, <1>3, <1>4 DEF IInv

LEMMA DeleteTripHolds == IInv /\ DeleteTrip => IInv'
<1> SUFFICES ASSUME IInv, DeleteTrip PROVE IInv'
  OBVIOUS
<1>1. \A r \in Requests : ~Creates(r) /\ ~Revokes(r)
  BY NobodyUnderWay DEF DeleteTrip
<1>2. /\ \A l \in Links : link'[l].made = link[l].made /\ link'[l].revoked = TRUE
      /\ link' \in [Links -> [made : BOOLEAN, expires : Nat, revoked : BOOLEAN]]
  BY DEF IInv, DeleteTrip, Typed
<1>3. Typed'
  BY <1>2 DEF IInv, DeleteTrip, Typed
<1>4. Locks'
  BY DEF IInv, DeleteTrip, Locks, Creates, Revokes
<1>5. CreationsAreNew' /\ RevocationsAreRight'
  BY <1>1 DEF DeleteTrip, CreationsAreNew, RevocationsAreRight, Creates, Revokes
<1>6. ActiveLinksOpen' /\ VisibleByLink'
  BY DEF DeleteTrip, ActiveLinksOpen, VisibleByLink
<1>7. PageIsRight'
  <2>1. page' = page /\ page.told \subseteq Links /\ page.answer.op = "revoked"
        => page.answer.link \in Links
    BY DEF IInv, DeleteTrip, Typed, Answers, NoAnswer
  <2> QED BY <2>1, <1>2 DEF IInv, PageIsRight, Closed, DeleteTrip, Typed
<1> QED BY <1>3, <1>4, <1>5, <1>6, <1>7 DEF IInv

\* The page's own steps leave the database alone.
LEMMA PageSteps ==
  ASSUME IInv, UNCHANGED db,
         page' \in [listed : [Links -> {"no", "active", "revoked"}], answer : Answers,
           told : SUBSET Links],
         PageIsRight'
  PROVE  IInv'
<1> USE DEF db
<1>1. Typed' /\ Locks'
  BY DEF IInv, Typed, Locks, Creates, Revokes
<1>2. CreationsAreNew' /\ RevocationsAreRight'
  BY DEF IInv, CreationsAreNew, RevocationsAreRight, Creates, Revokes, Active
<1>3. ActiveLinksOpen' /\ VisibleByLink'
  BY DEF IInv, ActiveLinksOpen, VisibleByLink, Active
<1> QED BY <1>1, <1>2, <1>3 DEF IInv

LEMMA AnsweredHolds == IInv /\ Answered => IInv'
<1> SUFFICES ASSUME IInv, Answered PROVE IInv'
  OBVIOUS
<1>1. PICK o \in {"created", "revoked"}, m \in Links : page.answer.op = o /\ page.answer.link = m
  BY DEF IInv, Typed, Answers, Answered
<1> DEFINE state == IF o = "created" THEN "active" ELSE "revoked"
           more == IF o = "revoked" THEN page.told \union {m} ELSE page.told
<1>2. page' = [listed |-> [page.listed EXCEPT ![m] = state], answer |-> NoAnswer, told |-> more]
  BY <1>1 DEF Answered, IInv, Typed
<1>3. [page.listed EXCEPT ![m] = state] \in [Links -> {"no", "active", "revoked"}]
  BY DEF IInv, Typed
<1>4. page' \in [listed : [Links -> {"no", "active", "revoked"}], answer : Answers,
      told : SUBSET Links]
  BY <1>2, <1>3 DEF IInv, Typed, Answers
<1>5. UNCHANGED db
  BY DEF Answered
<1>6. PageIsRight'
  BY <1>1, <1>2, <1>5 DEF IInv, PageIsRight, Closed, db, NoAnswer
<1> QED BY <1>4, <1>5, <1>6, PageSteps

LEMMA AnswerLostHolds == IInv /\ AnswerLost => IInv'
<1> SUFFICES ASSUME IInv, AnswerLost PROVE IInv'
  OBVIOUS
<1>1. page' = [page EXCEPT !.answer = NoAnswer] /\ UNCHANGED db
  BY DEF AnswerLost
<1>2. page' \in [listed : [Links -> {"no", "active", "revoked"}], answer : Answers,
      told : SUBSET Links]
  BY <1>1 DEF IInv, Typed, Answers
<1>3. PageIsRight'
  BY <1>1 DEF IInv, Typed, PageIsRight, Closed, db, NoAnswer
<1> QED BY <1>1, <1>2, <1>3, PageSteps

LEMMA ListLinksHolds == IInv /\ ListLinks => IInv'
<1> SUFFICES ASSUME IInv, ListLinks PROVE IInv'
  OBVIOUS
<1> DEFINE list == [l \in Links |->
       IF ~link[l].made THEN "no" ELSE IF Active(l, now) THEN "active" ELSE "revoked"]
<1>1. page' = [page EXCEPT !.listed = list] /\ UNCHANGED db
  BY DEF ListLinks
<1>2. list \in [Links -> {"no", "active", "revoked"}]
  OBVIOUS
<1> HIDE DEF list
<1>3. page' \in [listed : [Links -> {"no", "active", "revoked"}], answer : Answers,
      told : SUBSET Links]
  BY <1>1, <1>2 DEF IInv, Typed
<1>4. PageIsRight'
  BY <1>1 DEF IInv, Typed, PageIsRight, Closed, db
<1> QED BY <1>1, <1>3, <1>4, PageSteps

LEMMA TickHolds == IInv /\ Tick => IInv'
<1> SUFFICES ASSUME IInv, Tick PROVE IInv'
  OBVIOUS
<1>1. now \in Nat /\ now' = now + 1 /\ now' <= MaxTime
      /\ UNCHANGED <<exists, visible, link, tx, keyShared, locked, audit, byHand, page>>
  BY SharingAssumption DEF Tick, IInv, Typed
<1>2. \A l \in Links : (Active(l, 0)' <=> Active(l, 0)) /\ (Active(l, now)' => Active(l, now))
  BY <1>1 DEF IInv, Typed, Active
<1>3. Typed' /\ Locks' /\ CreationsAreNew'
  BY <1>1 DEF IInv, Typed, Locks, Creates, Revokes, CreationsAreNew
<1>4. RevocationsAreRight'
  <2> SUFFICES ASSUME NEW s \in Requests, Revokes(s)
               PROVE  /\ exists' /\ link'[tx'[s].link].made
                      /\ tx'[s].op = "revoke" => tx'[s].at <= now'
                      /\ tx'[s].op = "revoked" =>
                           IF tx'[s].last THEN \A l \in Links \ {tx'[s].link} : ~Active(l, now)'
                           ELSE \E l \in Links \ {tx'[s].link} : Active(l, 0)'
    BY <1>1 DEF RevocationsAreRight, Revokes
  <2>1. tx[s].op = "revoke" => tx[s].at <= now /\ tx[s].at \in Nat
    BY TransactionShapes DEF IInv, Typed, RevocationsAreRight
  <2>2. tx'[s].op = "revoke" => tx'[s].at <= now'
    BY <1>1, <2>1
  <2> QED BY <1>1, <1>2, <2>2 DEF IInv, RevocationsAreRight
<1>5. ActiveLinksOpen' /\ VisibleByLink' /\ PageIsRight'
  BY <1>1, <1>2 DEF IInv, ActiveLinksOpen, VisibleByLink, PageIsRight, Closed
<1> QED BY <1>3, <1>4, <1>5 DEF IInv

-----------------------------------------------------------------------------
\* The invariant holds of every behaviour: one lemma for each action.
THEOREM Inductive == Spec => []IInv
<1>1. Init => IInv
  BY InitHolds
<1>2. IInv /\ [Next]_vars => IInv'
  <2> SUFFICES ASSUME IInv, [Next]_vars PROVE IInv'
    OBVIOUS
  <2>1. ASSUME NEW r \in Requests, NEW l \in Links, Insert(r, l) \/ Find(r, l) PROVE IInv'
    BY <2>1, InsertHolds, FindHolds
  <2>2. ASSUME NEW r \in Requests, Works(r) PROVE IInv'
    BY <2>2, PublishHolds, CommitCreationHolds, LookForOthersHolds, CommitRevocationHolds DEF Works
  <2>3. ASSUME NEW v \in BOOLEAN, SetVisibility(v) PROVE IInv'
    BY <2>3, SetVisibilityHolds
  <2>4. CASE DeleteTrip \/ Answered \/ AnswerLost \/ ListLinks \/ Tick
    BY <2>4, DeleteTripHolds, AnsweredHolds, AnswerLostHolds, ListLinksHolds, TickHolds
  <2>5. CASE UNCHANGED vars
    <3>1. UNCHANGED <<exists, visible, link, now, tx, keyShared, locked, audit, byHand, page>>
      BY <2>5 DEF vars, db
    <3>2. UNCHANGED db
      BY <3>1 DEF db
    <3>3. PageIsRight' /\ Typed'
      BY <3>1 DEF IInv, PageIsRight, Closed, Typed
    <3> QED BY <3>2, <3>3, PageSteps DEF Typed
  <2> QED BY <2>1, <2>2, <2>3, <2>4, <2>5 DEF Next
<1> QED BY <1>1, <1>2, PTL DEF Spec

\* Every active link opens its trip unless the owner hid it, a revoked link the
\* owner was told of stays closed, and the locks are held as PostgreSQL grants
\* them, for any number of links and requests (authorization.ts).
THEOREM LinksAreSoundHolds == Spec => []LinksAreSound
<1>1. IInv => LinksAreSound
  <2> SUFFICES ASSUME IInv PROVE LinksAreSound
    OBVIOUS
  <2>1. locked.by \subseteq Requests /\ Cardinality(locked.by) <= 1
    <3>1. locked.by = {} \/ \E r \in Requests : locked.by = {r}
      BY DEF IInv, Locks, Free
    <3>2. CASE locked.by = {}
      BY <3>2, FS_EmptySet
    <3>3. ASSUME NEW r \in Requests, locked.by = {r} PROVE locked.by \subseteq Requests
            /\ Cardinality(locked.by) <= 1
      <4>1. Cardinality({r}) = 1
        BY FS_Singleton
      <4> QED BY <3>3, <4>1
    <3> QED BY <3>1, <3>2, <3>3
  <2>2. \A r \in Requests : r \in keyShared \union locked.by => tx[r] # Idle
    BY DEF IInv, Locks, Creates, Revokes, Free, Idle
  <2>3. TypeOK
    BY <2>1, <2>2 DEF IInv, Typed, TypeOK
  <2>4. RevokedMeansClosed
    BY DEF IInv, PageIsRight, Closed, RevokedMeansClosed, Opens, Active
  <2> QED BY <2>3, <2>4 DEF IInv, LinksAreSound
<1> QED BY <1>1, Inductive, PTL

\* A trip whose links were all revoked is private again: the revocation of the
\* last one saw every other, because creations wait for its locks.
THEOREM LastRevocationHidesHolds == Spec => []LastRevocationHides
<1>1. IInv => LastRevocationHides
  BY DEF IInv, VisibleByLink, LastRevocationHides
<1> QED BY <1>1, Inductive, PTL

---------------------------------------------------------------------------
(* Offline packages.                                                       *)

Packages == [revision : Nat \ {0}, guidance : Nat \ {0}]
Stages == {"none", "reading", "guiding", "writing", "answered"}
Request == [stage : Stages, attempt : Nat, revision : Nat, guidance : Nat, answer : Nat]

OfflineTyped ==
  /\ trip \in 0 .. MaxChanges + 1 /\ guidance \in 1 .. MaxChanges + 1
  /\ packages \in Seq(Packages)
  /\ request \in [Tabs -> Request]
  /\ tab \in [Tabs -> {"closed", "idle", "asking", "saving", "caching"}]
  /\ device \in Nat
  /\ worker \subseteq Tabs /\ routes \in BOOLEAN /\ crossed \in BOOLEAN
  /\ session \in {"in", "cleared", "leaving", "out"}

\* What a request has read is what it found, and its answer is a package.
RequestSound(t) ==
  /\ request[t].stage \in {"guiding", "writing"} => request[t].revision # 0
  /\ request[t].stage = "writing" => request[t].guidance # 0
  /\ request[t].stage = "answered" => request[t].answer # 0
  /\ tab[t] = "saving" => request[t].stage = "answered"
  /\ trip # 0 => request[t].answer <= Len(packages)
DeviceSound == trip # 0 => device <= Len(packages)

\* Nothing is on its way to a device that was cleared undisturbed.
Cleared ==
  session # "in" /\ ~crossed =>
    /\ device = 0 /\ worker = {} /\ \A t \in Tabs : tab[t] \notin Working
    /\ session # "cleared" => ~routes

OfflineIInv ==
  /\ OfflineTyped
  /\ \A t \in Tabs : RequestSound(t)
  /\ DeviceSound
  /\ NoTwinPackages
  /\ Cleared

-----------------------------------------------------------------------------
LEMMA NewRequests ==
  /\ NoRequest \in Request /\ NoRequest.stage = "none" /\ NoRequest.answer = 0
  /\ \A n \in Nat : Replied(n) \in Request /\ Replied(n).stage = "answered" /\ Replied(n).answer = n
  /\ LET y == [NoRequest EXCEPT !.stage = "reading"]
     IN y \in Request /\ y.stage = "reading" /\ y.answer = 0
BY DEF Request, Stages, NoRequest, Replied

\* A step of one tab that changes no package, unless it writes.
LEMMA TabStep ==
  ASSUME OfflineIInv, NEW t \in Tabs, UNCHANGED server,
         \A s \in Tabs \ {t} : request'[s] = request[s] /\ tab'[s] = tab[s],
         request' \in [Tabs -> Request],
         tab' \in [Tabs -> {"closed", "idle", "asking", "saving", "caching"}],
         device' \in Nat, worker' \subseteq Tabs, routes' \in BOOLEAN, crossed' \in BOOLEAN,
         UNCHANGED session, RequestSound(t)', DeviceSound', Cleared'
  PROVE  OfflineIInv'
<1>1. OfflineTyped'
  BY DEF OfflineIInv, OfflineTyped, server
<1>2. \A s \in Tabs \ {t} : RequestSound(s)'
  BY DEF OfflineIInv, RequestSound, server
<1>3. NoTwinPackages'
  BY DEF OfflineIInv, NoTwinPackages, server
<1> QED BY <1>1, <1>2, <1>3 DEF OfflineIInv

LEMMA OfflineInitHolds == OfflineInit => OfflineIInv
<1> SUFFICES ASSUME OfflineInit PROVE OfflineIInv
  OBVIOUS
<1>1. OfflineTyped
  <2>1. trip \in 0 .. MaxChanges + 1 /\ guidance \in 1 .. MaxChanges + 1
    BY OfflineAssumption DEF OfflineInit
  <2>2. request \in [Tabs -> Request] /\ packages \in Seq(Packages)
    BY NewRequests DEF OfflineInit
  <2> QED BY <2>1, <2>2 DEF OfflineInit, OfflineTyped
<1>2. (\A t \in Tabs : RequestSound(t)) /\ DeviceSound /\ NoTwinPackages /\ Cleared
  BY NewRequests DEF OfflineInit, RequestSound, DeviceSound, NoTwinPackages, Cleared
<1> QED BY <1>1, <1>2 DEF OfflineIInv

LEMMA ReadTripHolds == \A t \in Tabs : OfflineIInv /\ ReadTrip(t) => OfflineIInv'
<1> SUFFICES ASSUME NEW t \in Tabs, OfflineIInv, ReadTrip(t) PROVE OfflineIInv'
  OBVIOUS
<1> DEFINE y == [request[t] EXCEPT !.stage = "guiding", !.revision = trip]
<1>1. trip \in Nat /\ trip # 0 /\ request[t] \in Request
  BY OfflineAssumption DEF ReadTrip, OfflineIInv, OfflineTyped
<1>2. y \in Request /\ y.stage = "guiding" /\ y.revision = trip /\ y.answer = request[t].answer
  <2> DEFINE x == request[t]
             n == trip
  <2>1. x \in Request /\ n \in Nat
    BY <1>1
  <2>2. y = [x EXCEPT !.stage = "guiding", !.revision = n]
    OBVIOUS
  <2>3. n = trip /\ x = request[t]
    OBVIOUS
  <2> HIDE DEF x, y, n
  <2>4. y \in Request /\ y.stage = "guiding" /\ y.revision = n /\ y.answer = x.answer
    BY <2>1, <2>2 DEF Request, Stages
  <2> QED BY <2>3, <2>4
<1>3. request' = [request EXCEPT ![t] = y]
      /\ UNCHANGED <<server, tab, device, worker, routes, session, crossed>>
      /\ request[t].stage = "reading"
  BY DEF ReadTrip
<1> HIDE DEF y
<1>4. request'[t] = y /\ request' \in [Tabs -> Request]
      /\ \A s \in Tabs \ {t} : request'[s] = request[s]
  BY <1>2, <1>3 DEF OfflineIInv, OfflineTyped
<1>5. RequestSound(t)'
  BY <1>1, <1>2, <1>3, <1>4 DEF OfflineIInv, RequestSound, server
<1>6. DeviceSound' /\ Cleared'
  BY <1>3 DEF OfflineIInv, DeviceSound, Cleared, server
<1> QED BY <1>3, <1>4, <1>5, <1>6, TabStep DEF OfflineIInv, OfflineTyped

LEMMA ReadGuidanceHolds == \A t \in Tabs : OfflineIInv /\ ReadGuidance(t) => OfflineIInv'
<1> SUFFICES ASSUME NEW t \in Tabs, OfflineIInv, ReadGuidance(t) PROVE OfflineIInv'
  OBVIOUS
<1> DEFINE y == [request[t] EXCEPT !.stage = "writing", !.guidance = guidance]
<1>1. guidance \in Nat /\ guidance # 0 /\ request[t] \in Request
  BY OfflineAssumption DEF OfflineIInv, OfflineTyped
<1>2. /\ y \in Request /\ y.stage = "writing" /\ y.guidance = guidance
      /\ y.revision = request[t].revision /\ y.answer = request[t].answer
  <2> DEFINE x == request[t]
             n == guidance
  <2>1. x \in Request /\ n \in Nat
    BY <1>1
  <2>2. y = [x EXCEPT !.stage = "writing", !.guidance = n]
    OBVIOUS
  <2>3. n = guidance /\ x = request[t]
    OBVIOUS
  <2> HIDE DEF x, y, n
  <2>4. y \in Request /\ y.stage = "writing" /\ y.guidance = n /\ y.answer = x.answer
    BY <2>1, <2>2 DEF Request, Stages
  <2>5. y.revision = x.revision
    BY <2>1, <2>2 DEF Request
  <2> QED BY <2>3, <2>4, <2>5
<1>3. request' = [request EXCEPT ![t] = y]
      /\ UNCHANGED <<server, tab, device, worker, routes, session, crossed>>
      /\ request[t].stage = "guiding"
  BY DEF ReadGuidance
<1> HIDE DEF y
<1>4. request'[t] = y /\ request' \in [Tabs -> Request]
      /\ \A s \in Tabs \ {t} : request'[s] = request[s]
  BY <1>2, <1>3 DEF OfflineIInv, OfflineTyped
<1>5. RequestSound(t)'
  BY <1>1, <1>2, <1>3, <1>4 DEF OfflineIInv, RequestSound, server
<1>6. DeviceSound' /\ Cleared'
  BY <1>3 DEF OfflineIInv, DeviceSound, Cleared, server
<1> QED BY <1>3, <1>4, <1>5, <1>6, TabStep DEF OfflineIInv, OfflineTyped

\* The package that is written is the trip at its revision, and a new one.
LEMMA Written ==
  ASSUME OfflineIInv, NEW t \in Tabs, Write(t)
  PROVE  /\ Manifest(request[t]) \in Packages /\ Manifest(request[t]).revision = trip
         /\ packages' \in Seq(Packages) /\ Len(packages') \in Nat \ {0}
            /\ Len(packages) <= Len(packages')
         /\ NoTwinPackages'
         /\ packages' # packages =>
              /\ Len(packages') = Len(packages) + 1
              /\ packages'[Len(packages')] = Manifest(request[t])
<1> DEFINE m == Manifest(request[t])
<1>1. request[t] \in Request /\ request[t].revision = trip /\ trip # 0 /\ request[t].guidance # 0
  BY DEF Write, OfflineIInv, OfflineTyped, RequestSound
<1>2. m \in Packages /\ m.revision = trip
  BY <1>1 DEF Manifest, Packages, Request
<1> HIDE DEF m
<1>3. packages \in Seq(Packages) /\ Len(packages) \in Nat
  BY DEF OfflineIInv, OfflineTyped
<1>4. CASE packages # <<>> /\ packages[Len(packages)] = m
  <2>1. packages' = packages
    BY <1>4 DEF Write, m
  <2>2. Len(packages) # 0
    BY <1>3, <1>4
  <2> QED BY <1>2, <1>3, <2>1, <2>2 DEF OfflineIInv, NoTwinPackages, m
<1>5. CASE ~(packages # <<>> /\ packages[Len(packages)] = m)
  <2>1. packages' = Append(packages, m)
    BY <1>5 DEF Write, m
  <2>2. /\ packages' \in Seq(Packages) /\ Len(packages') = Len(packages) + 1
        /\ packages'[Len(packages')] = m /\ \A n \in 1 .. Len(packages) : packages'[n] = packages[n]
    BY <1>2, <1>3, <2>1
  <2>3. NoTwinPackages'
    <3> SUFFICES ASSUME NEW n \in 2 .. Len(packages') PROVE packages'[n] # packages'[n - 1]
      BY DEF NoTwinPackages
    <3>1. CASE n = Len(packages')
      <4>1. Len(packages) >= 1 /\ packages'[n - 1] = packages[Len(packages)] /\ packages'[n] = m
        BY <3>1, <2>2, <1>3
      <4>2. packages # <<>>
        BY <4>1
      <4> QED BY <4>1, <4>2, <1>5
    <3>2. CASE n # Len(packages')
      <4>1. n \in 2 .. Len(packages) /\ n - 1 \in 1 .. Len(packages) /\ n \in 1 .. Len(packages)
        BY <3>2, <2>2, <1>3
      <4> QED BY <4>1, <2>2 DEF OfflineIInv, NoTwinPackages
    <3> QED BY <3>1, <3>2
  <2> QED BY <1>2, <1>3, <2>2, <2>3 DEF m
<1> QED BY <1>4, <1>5

LEMMA WriteHolds == \A t \in Tabs : OfflineIInv /\ Write(t) => OfflineIInv'
<1> SUFFICES ASSUME NEW t \in Tabs, OfflineIInv, Write(t) PROVE OfflineIInv'
  OBVIOUS
<1>1. /\ request' = [request EXCEPT ![t] = Replied(Len(packages'))]
      /\ UNCHANGED <<trip, guidance, tab, device, worker, routes, session, crossed>>
      /\ request[t].stage = "writing"
  BY DEF Write
<1>2. /\ packages' \in Seq(Packages) /\ Len(packages') \in Nat \ {0}
        /\ Len(packages) <= Len(packages')
      /\ NoTwinPackages'
  BY Written
<1>3. /\ request'[t] = Replied(Len(packages')) /\ request' \in [Tabs -> Request]
      /\ \A s \in Tabs \ {t} : request'[s] = request[s]
      /\ request'[t].stage = "answered" /\ request'[t].answer = Len(packages')
  BY <1>1, <1>2, NewRequests DEF OfflineIInv, OfflineTyped
<1>4. Len(packages) \in Nat /\ Len(packages') \in Nat
  BY <1>2 DEF OfflineIInv, OfflineTyped
<1>5. OfflineTyped'
  BY <1>1, <1>2, <1>3 DEF OfflineIInv, OfflineTyped
<1>6. RequestSound(t)'
  BY <1>1, <1>2, <1>3 DEF OfflineIInv, RequestSound
<1>7. \A s \in Tabs \ {t} : RequestSound(s)'
  <2> SUFFICES ASSUME NEW s \in Tabs \ {t} PROVE RequestSound(s)'
    OBVIOUS
  <2>1. request[s].answer \in Nat /\ (trip # 0 => request[s].answer <= Len(packages))
    BY DEF OfflineIInv, OfflineTyped, Request, RequestSound
  <2>2. trip' # 0 => request'[s].answer <= Len(packages')
    BY <2>1, <1>1, <1>2, <1>3, <1>4
  <2> QED BY <2>2, <1>1, <1>3 DEF OfflineIInv, RequestSound
<1>8. DeviceSound'
  <2>1. device \in Nat /\ (trip # 0 => device <= Len(packages))
    BY DEF OfflineIInv, OfflineTyped, DeviceSound
  <2> QED BY <2>1, <1>1, <1>2, <1>4 DEF DeviceSound
<1>9. Cleared'
  BY <1>1 DEF OfflineIInv, Cleared
<1> QED BY <1>2, <1>5, <1>6, <1>7, <1>8, <1>9 DEF OfflineIInv

LEMMA RetryHolds == \A t \in Tabs : OfflineIInv /\ Retry(t) => OfflineIInv'
<1> SUFFICES ASSUME NEW t \in Tabs, OfflineIInv, Retry(t) PROVE OfflineIInv'
  OBVIOUS
<1> DEFINE y == [request[t] EXCEPT !.stage = "reading", !.attempt = @ + 1]
<1>1. y \in Request /\ y.stage = "reading" /\ y.answer = request[t].answer
  <2> DEFINE x == request[t]
             n == request[t].attempt + 1
  <2>1. x \in Request /\ n \in Nat
    BY DEF OfflineIInv, OfflineTyped, Request
  <2>2. y = [x EXCEPT !.stage = "reading", !.attempt = n]
    OBVIOUS
  <2>3. x = request[t]
    OBVIOUS
  <2> HIDE DEF x, y, n
  <2>4. y \in Request /\ y.stage = "reading" /\ y.answer = x.answer
    BY <2>1, <2>2 DEF Request, Stages
  <2> QED BY <2>3, <2>4
<1>2. request' = [request EXCEPT ![t] = y]
      /\ UNCHANGED <<server, tab, device, worker, routes, session, crossed>>
      /\ request[t].stage = "writing"
  BY DEF Retry
<1> HIDE DEF y
<1>3. request'[t] = y /\ request' \in [Tabs -> Request]
      /\ \A s \in Tabs \ {t} : request'[s] = request[s]
  BY <1>1, <1>2 DEF OfflineIInv, OfflineTyped
<1>4. RequestSound(t)'
  BY <1>1, <1>2, <1>3 DEF OfflineIInv, RequestSound, server
<1>5. DeviceSound' /\ Cleared'
  BY <1>2 DEF OfflineIInv, DeviceSound, Cleared, server
<1> QED BY <1>2, <1>3, <1>4, <1>5, TabStep DEF OfflineIInv, OfflineTyped

LEMMA FailHolds == \A t \in Tabs : OfflineIInv /\ Fail(t) => OfflineIInv'
<1> SUFFICES ASSUME NEW t \in Tabs, OfflineIInv, Fail(t) PROVE OfflineIInv'
  OBVIOUS
<1>1. /\ request' = [request EXCEPT ![t] = NoRequest] /\ tab[t] # "saving"
      /\ tab' = IF tab[t] = "asking" THEN [tab EXCEPT ![t] = "idle"] ELSE tab
      /\ UNCHANGED <<server, device, worker, routes, session, crossed>>
  BY DEF Fail
<1>2. /\ request'[t] = NoRequest /\ request' \in [Tabs -> Request]
      /\ \A s \in Tabs \ {t} : request'[s] = request[s] /\ tab'[s] = tab[s]
      /\ tab' \in [Tabs -> {"closed", "idle", "asking", "saving", "caching"}]
      /\ tab'[t] = tab[t] \/ tab'[t] = "idle"
  BY <1>1, NewRequests DEF OfflineIInv, OfflineTyped
<1>3. Len(packages') >= 0
  BY <1>1 DEF OfflineIInv, OfflineTyped, server
<1>4. RequestSound(t)'
  BY <1>1, <1>2, <1>3, NewRequests DEF RequestSound
<1>5. DeviceSound' /\ Cleared'
  BY <1>1, <1>2 DEF OfflineIInv, DeviceSound, Cleared, Working, server
<1> QED BY <1>1, <1>2, <1>4, <1>5, TabStep DEF OfflineIInv, OfflineTyped

\* The page changes and its request does not.
LEMMA PageOnly ==
  ASSUME OfflineIInv, NEW t \in Tabs, NEW place \in {"closed", "idle", "caching"},
         tab' = [tab EXCEPT ![t] = place],
           UNCHANGED <<server, request, device, worker, routes, session, crossed>>,
         place = "caching" => tab[t] \in Working
  PROVE  OfflineIInv'
<1>1. /\ \A s \in Tabs \ {t} : tab'[s] = tab[s] /\ request'[s] = request[s]
      /\ tab'[t] = place /\ tab' \in [Tabs -> {"closed", "idle", "asking", "saving", "caching"}]
  BY DEF OfflineIInv, OfflineTyped
<1>2. RequestSound(t)'
  BY <1>1 DEF OfflineIInv, RequestSound, server
<1>3. DeviceSound'
  BY DEF OfflineIInv, DeviceSound, server
<1>4. Cleared'
  BY <1>1 DEF OfflineIInv, Cleared, Working
<1> QED BY <1>1, <1>2, <1>3, <1>4, TabStep DEF OfflineIInv, OfflineTyped

LEMMA PageHolds ==
  \A t \in Tabs : OfflineIInv /\ (Open(t) \/ Close(t) \/ Cancel(t) \/ CacheTimeout(t))
    => OfflineIInv'
BY PageOnly DEF Open, Close, Cancel, CacheTimeout, server

LEMMA DownloadHolds == \A t \in Tabs : OfflineIInv /\ Download(t) => OfflineIInv'
<1> SUFFICES ASSUME NEW t \in Tabs, OfflineIInv, Download(t) PROVE OfflineIInv'
  OBVIOUS
<1> DEFINE y == [NoRequest EXCEPT !.stage = "reading"]
<1>1. y \in Request /\ y.stage = "reading" /\ y.answer = 0
  BY NewRequests
<1>2. /\ tab' = [tab EXCEPT ![t] = "asking"] /\ request' = [request EXCEPT ![t] = y]
      /\ crossed' = (crossed \/ session # "in")
         /\ UNCHANGED <<server, device, worker, routes, session>>
  BY DEF Download
<1> HIDE DEF y
<1>3. /\ request'[t] = y /\ request' \in [Tabs -> Request] /\ tab'[t] = "asking"
      /\ \A s \in Tabs \ {t} : request'[s] = request[s] /\ tab'[s] = tab[s]
      /\ tab' \in [Tabs -> {"closed", "idle", "asking", "saving", "caching"}]
      /\ crossed' \in BOOLEAN
  BY <1>1, <1>2 DEF OfflineIInv, OfflineTyped
<1>4. Len(packages') >= 0
  BY <1>2 DEF OfflineIInv, OfflineTyped, server
<1>5. RequestSound(t)'
  BY <1>1, <1>3, <1>4 DEF RequestSound
<1>6. DeviceSound' /\ Cleared'
  BY <1>2 DEF OfflineIInv, DeviceSound, Cleared, server
<1> QED BY <1>2, <1>3, <1>5, <1>6, TabStep DEF OfflineIInv, OfflineTyped

LEMMA AnswerHolds == \A t \in Tabs : OfflineIInv /\ Answer(t) => OfflineIInv'
<1> SUFFICES ASSUME NEW t \in Tabs, OfflineIInv, Answer(t) PROVE OfflineIInv'
  OBVIOUS
<1>1. /\ request[t].stage = "answered" /\ tab[t] = "asking"
      /\ UNCHANGED <<server, device, worker, routes, session, crossed>>
  BY DEF Answer
<1>2. DeviceSound'
  BY <1>1 DEF OfflineIInv, DeviceSound, server
<1>3. Cleared'
  BY <1>1 DEF OfflineIInv, Cleared, Working
<1>4. CASE tab' = [tab EXCEPT ![t] = "saving"] /\ UNCHANGED request
  <2>1. /\ \A s \in Tabs \ {t} : tab'[s] = tab[s] /\ request'[s] = request[s]
        /\ tab' \in [Tabs -> {"closed", "idle", "asking", "saving", "caching"}]
    BY <1>4 DEF OfflineIInv, OfflineTyped
  <2>2. RequestSound(t)'
    BY <1>1, <1>4 DEF OfflineIInv, RequestSound, server
  <2> QED BY <1>1, <1>2, <1>3, <1>4, <2>1, <2>2, TabStep DEF OfflineIInv, OfflineTyped
<1>5. CASE tab' = [tab EXCEPT ![t] = "idle"] /\ request' = [request EXCEPT ![t] = NoRequest]
  <2>1. /\ \A s \in Tabs \ {t} : tab'[s] = tab[s] /\ request'[s] = request[s]
        /\ tab' \in [Tabs -> {"closed", "idle", "asking", "saving", "caching"}] /\ tab'[t] = "idle"
        /\ request'[t] = NoRequest /\ request' \in [Tabs -> Request]
    BY <1>5, NewRequests DEF OfflineIInv, OfflineTyped
  <2>2. Len(packages') >= 0
    BY <1>1 DEF OfflineIInv, OfflineTyped, server
  <2>3. RequestSound(t)'
    BY <2>1, <2>2, NewRequests DEF RequestSound
  <2> QED BY <1>1, <1>2, <1>3, <2>1, <2>3, TabStep DEF OfflineIInv, OfflineTyped
<1> QED BY <1>4, <1>5 DEF Answer

LEMMA SaveHolds == \A t \in Tabs : OfflineIInv /\ Save(t) => OfflineIInv'
<1> SUFFICES ASSUME NEW t \in Tabs, OfflineIInv, Save(t) PROVE OfflineIInv'
  OBVIOUS
<1>1. /\ tab[t] = "saving" /\ request' = [request EXCEPT ![t] = NoRequest]
      /\ UNCHANGED <<server, routes, session, crossed>>
  BY DEF Save
<1>2. PICK place \in {"caching", "idle"} :
        /\ tab' = [tab EXCEPT ![t] = place]
        /\ device' \in {device, request[t].answer} /\ worker' \in {worker, worker \union {t}}
  BY DEF Save
<1>3. /\ \A s \in Tabs \ {t} : tab'[s] = tab[s] /\ request'[s] = request[s]
      /\ tab' \in [Tabs -> {"closed", "idle", "asking", "saving", "caching"}] /\ tab'[t] = place
      /\ request'[t] = NoRequest /\ request' \in [Tabs -> Request]
  BY <1>1, <1>2, NewRequests DEF OfflineIInv, OfflineTyped
<1>4. request[t].answer \in Nat /\ (trip # 0 => request[t].answer <= Len(packages))
  BY DEF OfflineIInv, OfflineTyped, Request, RequestSound
<1>5. device' \in Nat /\ worker' \subseteq Tabs /\ DeviceSound'
  BY <1>1, <1>2, <1>4 DEF OfflineIInv, OfflineTyped, DeviceSound, server
<1>6. Len(packages') >= 0
  BY <1>1 DEF OfflineIInv, OfflineTyped, server
<1>7. RequestSound(t)'
  BY <1>3, <1>6, NewRequests DEF RequestSound
<1>8. Cleared'
  BY <1>1 DEF OfflineIInv, Cleared, Working
<1> QED BY <1>1, <1>3, <1>5, <1>7, <1>8, TabStep DEF OfflineIInv, OfflineTyped

LEMMA CacheRoutesHolds == \A t \in Tabs : OfflineIInv /\ CacheRoutes(t) => OfflineIInv'
<1> SUFFICES ASSUME NEW t \in Tabs, OfflineIInv, CacheRoutes(t) PROVE OfflineIInv'
  OBVIOUS
<1>1. /\ t \in worker /\ worker' = worker \ {t} /\ routes' = (routes \/ session # "out")
      /\ tab' = IF tab[t] = "caching" THEN [tab EXCEPT ![t] = "idle"] ELSE tab
      /\ UNCHANGED <<server, request, device, session, crossed>>
  BY DEF CacheRoutes
<1>2. /\ \A s \in Tabs \ {t} : tab'[s] = tab[s] /\ request'[s] = request[s]
      /\ tab' \in [Tabs -> {"closed", "idle", "asking", "saving", "caching"}]
      /\ tab'[t] = tab[t] \/ tab'[t] = "idle"
      /\ worker' \subseteq Tabs /\ routes' \in BOOLEAN
  BY <1>1 DEF OfflineIInv, OfflineTyped
<1>3. RequestSound(t)'
  BY <1>1, <1>2 DEF OfflineIInv, RequestSound, server
<1>4. DeviceSound'
  BY <1>1 DEF OfflineIInv, DeviceSound, server
<1>5. Cleared'
  BY <1>1 DEF OfflineIInv, Cleared
<1> QED BY <1>1, <1>2, <1>3, <1>4, <1>5, TabStep DEF OfflineIInv, OfflineTyped

LEMMA RemoveHolds == \A t \in Tabs : OfflineIInv /\ Remove(t) => OfflineIInv'
<1> SUFFICES ASSUME NEW t \in Tabs, OfflineIInv, Remove(t) PROVE OfflineIInv'
  OBVIOUS
<1>1. device' = 0 /\ UNCHANGED <<server, request, tab, worker, routes, session, crossed>>
  BY DEF Remove
<1>2. Len(packages') >= 0
  BY <1>1 DEF OfflineIInv, OfflineTyped, server
<1>3. RequestSound(t)' /\ DeviceSound' /\ Cleared'
  BY <1>1, <1>2 DEF OfflineIInv, RequestSound, DeviceSound, Cleared, server
<1> QED BY <1>1, <1>3, TabStep DEF OfflineIInv, OfflineTyped

LEMMA SignOutHolds == OfflineIInv /\ (ClearDevice \/ DropRoutes \/ EndSession) => OfflineIInv'
<1> SUFFICES ASSUME OfflineIInv, ClearDevice \/ DropRoutes \/ EndSession PROVE OfflineIInv'
  OBVIOUS
<1>1. UNCHANGED <<server, request, tab, worker>> /\ device' \in {0, device}
      /\ routes' \in BOOLEAN /\ crossed' \in BOOLEAN /\ session' \in {"cleared", "leaving", "out"}
  BY DEF ClearDevice, DropRoutes, EndSession, OfflineIInv, OfflineTyped, Busy
<1>2. OfflineTyped' /\ NoTwinPackages' /\ \A t \in Tabs : RequestSound(t)'
  BY <1>1 DEF OfflineIInv, OfflineTyped, NoTwinPackages, RequestSound, server
<1>3. DeviceSound'
  <2>1. Len(packages) >= 0
    BY DEF OfflineIInv, OfflineTyped
  <2> QED BY <1>1, <2>1 DEF OfflineIInv, DeviceSound, server
<1>4. Cleared'
  <2>1. CASE ClearDevice
    BY <2>1, <1>1 DEF ClearDevice, Busy, Cleared
  <2>2. CASE DropRoutes
    BY <2>2 DEF DropRoutes, OfflineIInv, Cleared
  <2>3. CASE EndSession
    BY <2>3 DEF EndSession, OfflineIInv, Cleared
  <2> QED BY <2>1, <2>2, <2>3
<1> QED BY <1>2, <1>3, <1>4 DEF OfflineIInv

LEMMA ChangeHolds == OfflineIInv /\ Change => OfflineIInv'
<1> SUFFICES ASSUME OfflineIInv, Change PROVE OfflineIInv'
  OBVIOUS
<1>1. UNCHANGED <<request, tab, device, worker, routes, session, crossed>> /\ trip # 0
      /\ session = "in"
  BY DEF Change
<1>2. /\ trip' \in 0 .. MaxChanges + 1 /\ guidance' \in 1 .. MaxChanges + 1
      /\ packages' \in Seq(Packages) /\ NoTwinPackages' /\ (trip' # 0 => packages' = packages)
  <2>1. trip \in 1 .. MaxChanges + 1 /\ guidance \in 1 .. MaxChanges + 1
        /\ packages \in Seq(Packages)
    BY <1>1, OfflineAssumption DEF OfflineIInv, OfflineTyped
  <2>2. CASE trip + guidance <= MaxChanges + 1 /\ trip' = trip + 1
        /\ UNCHANGED <<guidance, packages>>
    BY <2>1, <2>2, OfflineAssumption DEF OfflineIInv, NoTwinPackages
  <2>3. CASE trip + guidance <= MaxChanges + 1 /\ guidance' = guidance + 1
        /\ UNCHANGED <<trip, packages>>
    BY <2>1, <2>3, OfflineAssumption DEF OfflineIInv, NoTwinPackages
  <2>4. CASE trip' = 0 /\ packages' = <<>> /\ UNCHANGED guidance
    <3>1. Len(packages') = 0 /\ packages' \in Seq(Packages)
      BY <2>4
    <3>2. NoTwinPackages'
      BY <3>1 DEF NoTwinPackages
    <3> QED BY <2>1, <2>4, <3>1, <3>2, OfflineAssumption
  <2> QED BY <2>2, <2>3, <2>4 DEF Change
<1>3. OfflineTyped'
  BY <1>1, <1>2 DEF OfflineIInv, OfflineTyped
<1>4. DeviceSound' /\ \A t \in Tabs : RequestSound(t)'
  BY <1>1, <1>2 DEF OfflineIInv, DeviceSound, RequestSound
<1>5. Cleared'
  BY <1>1 DEF OfflineIInv, Cleared
<1> QED BY <1>2, <1>3, <1>4, <1>5 DEF OfflineIInv

-----------------------------------------------------------------------------
LEMMA StepHolds == OfflineIInv /\ [OfflineNext]_offlineVars => OfflineIInv'
<1> SUFFICES ASSUME OfflineIInv, [OfflineNext]_offlineVars PROVE OfflineIInv'
  OBVIOUS
<1>1. ASSUME NEW t \in Tabs, Goes(t) PROVE OfflineIInv'
  BY <1>1, ReadTripHolds, ReadGuidanceHolds, WriteHolds, RetryHolds, FailHolds, AnswerHolds,
     SaveHolds, PageHolds DEF Goes
<1>2. ASSUME NEW t \in Tabs, Open(t) \/ Close(t) \/ Cancel(t) PROVE OfflineIInv'
  BY <1>2, PageHolds
<1>3. ASSUME NEW t \in Tabs, Download(t) \/ CacheRoutes(t) \/ Remove(t) PROVE OfflineIInv'
  BY <1>3, DownloadHolds, CacheRoutesHolds, RemoveHolds
<1>4. CASE ClearDevice \/ DropRoutes \/ EndSession \/ Change
  BY <1>4, SignOutHolds, ChangeHolds
<1>5. CASE UNCHANGED offlineVars
  <2>1. OfflineTyped' /\ NoTwinPackages' /\ DeviceSound' /\ Cleared'
    BY <1>5 DEF OfflineIInv, OfflineTyped, NoTwinPackages, DeviceSound, Cleared, offlineVars, server
  <2>2. \A t \in Tabs : RequestSound(t)'
    BY <1>5 DEF OfflineIInv, RequestSound, offlineVars, server
  <2> QED BY <2>1, <2>2 DEF OfflineIInv
<1> QED BY <1>1, <1>2, <1>3, <1>4, <1>5 DEF OfflineNext

\* The invariant holds of every behaviour: one lemma for each action.
THEOREM OfflineInductive == OfflineSpec => []OfflineIInv
BY OfflineInitHolds, StepHolds, PTL DEF OfflineSpec

\* The server never stores a package twice in a row, and the device holds only
\* what the server made, for any number of tabs (generate, Write).
THEOREM PackagesAreSoundHolds == OfflineSpec => []PackagesAreSound
<1>1. OfflineIInv => PackagesAreSound
  <2> SUFFICES ASSUME OfflineIInv PROVE PackagesAreSound
    OBVIOUS
  <2>1. \A t \in Tabs : request[t].stage \in Stages /\ request[t].answer \in Nat
    BY DEF OfflineIInv, OfflineTyped, Request
  <2>2. \A t \in Tabs : tab[t] = "saving" => request[t].answer > 0
    BY <2>1 DEF OfflineIInv, RequestSound
  <2>3. trip # 0 => {device} \union {request[t].answer : t \in Tabs} \subseteq 0 .. Len(packages)
    BY <2>1 DEF OfflineIInv, OfflineTyped, RequestSound, DeviceSound
  <2>4. OfflineTypeOK
    BY <2>1, <2>2, <2>3 DEF OfflineIInv, OfflineTyped, OfflineTypeOK, Stages, Packages
  <2> QED BY <2>4 DEF OfflineIInv, PackagesAreSound
<1> QED BY <1>1, OfflineInductive, PTL

\* A package is the trip as it stands when the package is written (generate locks
\* the trip and compares the revision it read).
THEOREM PackagesAreCurrentHolds == OfflineSpec => PackagesAreCurrent
<1>1. OfflineIInv /\ [OfflineNext]_offlineVars => [packages' # packages /\ trip' # 0 =>
        Len(packages') = Len(packages) + 1 /\ packages'[Len(packages')].revision = trip]_offlineVars
  <2> SUFFICES ASSUME OfflineIInv, OfflineNext, packages' # packages, trip' # 0
               PROVE  Len(packages') = Len(packages) + 1
                      /\ packages'[Len(packages')].revision = trip
    OBVIOUS
  <2>1. PICK t \in Tabs : Write(t)
    BY DEF OfflineNext, Goes, ReadTrip, ReadGuidance, Retry, Fail, Answer, Save, CacheTimeout,
       Open, Close, Download,
           Cancel, CacheRoutes, Remove, ClearDevice, DropRoutes, EndSession, Change, server
  <2> QED BY <2>1, Written
<1> QED BY <1>1, OfflineInductive, PTL DEF OfflineSpec, PackagesAreCurrent

\* A sign-out that no download crossed leaves nothing on the device (signOutSafely).
THEOREM SignOutClearsHolds == OfflineSpec => []SignOutClears
<1>1. OfflineIInv => SignOutClears
  BY DEF OfflineIInv, Cleared, SignOutClears
<1> QED BY <1>1, OfflineInductive, PTL

=============================================================================
