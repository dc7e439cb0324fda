--------------------------- MODULE BotAccessProofs ---------------------------
(***************************************************************************)
(* The invariants of BotAccess hold for any users, players, candidate      *)
(* names, interactions and faults.                                         *)
(***************************************************************************)
EXTENDS BotAccess, FiniteSetTheorems, TLAPS

Statements == {"new", "authorize", "act", "link", "name", "insert", "read back", "done"}

LEMMA Constants ==
  /\ Nobody \notin Ids /\ IsFiniteSet(Ids)
  /\ \A u \in Users : Candidates[u] \subseteq Seq(Names \cup {Nobody})
  /\ BootstrapIds \in Seq(Users) /\ MaxFaults \in Nat /\ MaxOutside \in Nat
  BY AccessAssumption

\* An interaction that inserts a link does so for the first name left.
NameLeft ==
  \A r \in Requests : state[r] \in {"insert", "read back"} => names[r] # <<>>

Typed == TypeOK /\ NameLeft

-----------------------------------------------------------------------------
(* Types.                                                                  *)

LEMMA InitTypes == Init => Typed
<1> SUFFICES ASSUME Init PROVE Typed
  OBVIOUS
<1>1. names \in [Requests -> Seq(Names \cup {Nobody})]
  BY Constants DEF Init, Lists
<1>2. faults \in 0..MaxFaults /\ outside \in 0..MaxOutside /\ seeds \in Seq(Users)
  BY Constants DEF Init
<1>3. NameLeft
  BY DEF Init, NameLeft
<1> QED
  BY <1>1, <1>2, <1>3 DEF Init, TypeOK, Roles, Typed

LEMMA NoSeeds == <<>> \in Seq(Users)
  OBVIOUS

LEMMA FaultTypes ==
  ASSUME TypeOK
  PROVE  /\ Fault => faults' \in 0..MaxFaults
         /\ Outside => outside' \in 0..MaxOutside
<1>1. faults \in 0..MaxFaults /\ outside \in 0..MaxOutside
  BY DEF TypeOK
<1>2. ASSUME NEW m \in Nat, NEW k \in 0..m, k < m PROVE k + 1 \in 0..m
  BY <1>2
<1>3. MaxFaults \in Nat /\ MaxOutside \in Nat
  BY Constants
<1> QED
  BY <1>1, <1>2, <1>3 DEF Fault, Outside

LEMMA GotoTypes ==
  ASSUME TypeOK, NEW r \in Requests, NEW s \in Statements, Goto(r, s)
  PROVE  /\ state' \in [Requests -> Statements] /\ state'[r] = s
         /\ \A q \in Requests \ {r} : state'[q] = state[q]
  BY DEF TypeOK, Goto, Statements

LEMMA ProcessTypes ==
  ASSUME TypeOK, Start \/ SeedAdmin \/ Seeded \/ Stop
  PROVE  TypeOK'
<1> USE DEF tables, request, history
<1>1. CASE Start
  <2>1. faults' \in 0..MaxFaults
    BY <1>1, FaultTypes DEF Start, TypeOK
  <2>2. seeds' \in Seq(Users) /\ phase' \in {"down", "bootstrap", "up"} /\ connected' \in BOOLEAN
    BY <1>1, Constants DEF Start, TypeOK
  <2> QED
    BY <1>1, <2>1, <2>2 DEF Start, TypeOK
<1>2. CASE SeedAdmin
  <2>1. Head(seeds) \in Users /\ Tail(seeds) \in Seq(Users)
    <3>1. seeds \in Seq(Users) /\ seeds # <<>>
      BY <1>2 DEF SeedAdmin, TypeOK
    <3> QED
      BY <3>1
  <2>2. roles' \in [Users -> Roles] /\ seeds' \in Seq(Users) /\ phase' \in {"down", "bootstrap", "up"}
    <3>1. <<>> \in Seq(Users)
      BY NoSeeds
    <3>2. "admin" \in Roles /\ roles \in [Users -> Roles]
      BY DEF Roles, TypeOK
    <3> QED
      BY <1>2, <2>1, <3>1, <3>2 DEF SeedAdmin
  <2>3. faults' \in 0..MaxFaults
    BY <1>2, FaultTypes DEF SeedAdmin, TypeOK
  <2> QED
    BY <1>2, <2>2, <2>3 DEF SeedAdmin, TypeOK
<1>3. CASE Seeded
  BY <1>3 DEF Seeded, bounds, TypeOK
<1>4. CASE Stop
  <2>1. state' \in [Requests -> Statements] /\ seeds' \in Seq(Users)
    <3>1. seeds' \in Seq(Users)
      BY <1>4, NoSeeds DEF Stop
    <3>2. state' \in [Requests -> Statements]
      BY <1>4 DEF Stop, TypeOK, Statements
    <3> QED
      BY <3>1, <3>2
  <2>2. faults' \in 0..MaxFaults
    BY <1>4, FaultTypes DEF Stop
  <2> QED
    BY <1>4, <2>1, <2>2 DEF Stop, TypeOK, Statements
<1> QED
  BY <1>1, <1>2, <1>3, <1>4

LEMMA CommandTypes ==
  ASSUME TypeOK, NEW r \in Requests, Authorize(r) \/ Act(r)
  PROVE  TypeOK'
<1> USE DEF tables, process
<1>1. CASE Authorize(r)
  <2>1. \E s \in Statements : Goto(r, s)
    BY <1>1, Zenon DEF Authorize, Statements
  <2>2. state' \in [Requests -> Statements]
    BY <2>1, GotoTypes
  <2>3. faults' \in 0..MaxFaults
    BY <1>1, FaultTypes DEF Authorize, TypeOK
  <2> QED
    BY <1>1, <2>2, <2>3 DEF Authorize, TypeOK, Statements, history
<1>2. CASE Act(r)
  <2>1. "done" \in Statements /\ state' \in [Requests -> Statements]
    BY <1>2, GotoTypes DEF Act, Statements
  <2>2. NewRole(r) \in Roles /\ target[r] \in Users
    BY DEF NewRole, Roles, TypeOK
  <2>3. roles' \in [Users -> Roles] /\ demoted' \subseteq Users /\ emptied' \in BOOLEAN
    <3>1. roles \in [Users -> Roles] /\ demoted \subseteq Users /\ emptied \in BOOLEAN
      BY DEF TypeOK
    <3>2. roles' \in {roles, [roles EXCEPT ![target[r]] = NewRole(r)]}
      BY <1>2 DEF Act
    <3>3. demoted' \in {demoted, demoted \cup {target[r]}}
      BY <1>2 DEF Act
    <3>4. emptied' \in BOOLEAN
      <4>1. emptied' = emptied \/ emptied' = (emptied \/ \A u \in Users : roles'[u] = "none")
        BY <1>2, Zenon DEF Act
      <4>2. (emptied \/ \A u \in Users : roles'[u] = "none") \in BOOLEAN
        OBVIOUS
      <4> QED
        BY <3>1, <4>1, <4>2, Zenon
    <3>5. roles' \in [Users -> Roles]
      BY <2>2, <3>1, <3>2
    <3> QED
      BY <2>2, <3>1, <3>3, <3>4, <3>5
  <2>4. faults' \in 0..MaxFaults
    BY <1>2, FaultTypes DEF Act, TypeOK
  <2> QED
    BY <1>2, <2>1, <2>3, <2>4 DEF Act, TypeOK, Statements
<1> QED
  BY <1>1, <1>2

LEMMA LookupTypes ==
  ASSUME Typed, NEW r \in Requests,
         ReadLink(r) \/ TryName(r) \/ NoNameLeft(r) \/ InsertLink(r) \/ ReadBack(r) \/ QueryFails(r)
  PROVE  TypeOK'
<1> USE DEF tables, process, history, bounds
<1> TypeOK /\ NameLeft
  BY DEF Typed
<1>1. CASE ReadLink(r)
  <2>1. \E s \in Statements : Goto(r, s)
    BY <1>1, Zenon DEF ReadLink, Statements
  <2>2. state' \in [Requests -> Statements]
    BY <2>1, GotoTypes
  <2> QED
    BY <1>1, <2>2 DEF ReadLink, TypeOK, Statements
<1>2. CASE TryName(r)
  <2>1. state' \in [Requests -> Statements]
    <3>1. CASE UNCHANGED state
      BY <3>1 DEF TypeOK, Statements
    <3>2. CASE Goto(r, "insert")
      BY <3>2, GotoTypes DEF Statements
    <3> QED
      BY <1>2, <3>1, <3>2 DEF TryName
  <2>2. names[r] \in Seq(Names \cup {Nobody}) /\ names[r] # <<>>
    BY <1>2 DEF TryName, TypeOK
  <2>3. Tail(names[r]) \in Seq(Names \cup {Nobody}) /\ Head(names[r]) \in Names \cup {Nobody}
    BY <2>2
  <2>4. names' \in [Requests -> Seq(Names \cup {Nobody})]
    BY <1>2, <2>3 DEF TryName, TypeOK
  <2>5. match' \in [Requests -> Ids \cup {Nobody}] /\ unique' \subseteq Ids \X Names
    <3>1. match \in [Requests -> Ids \cup {Nobody}] /\ unique \subseteq Ids \X Names
      BY DEF TypeOK
    <3>2. CASE UNCHANGED <<match, unique>>
      BY <3>1, <3>2
    <3>3. ASSUME NEW s \in Ids, NEW n \in Names, match' = [match EXCEPT ![r] = s],
                 unique' \in {unique, unique \cup {<<s, n>>}}
          PROVE  match' \in [Requests -> Ids \cup {Nobody}] /\ unique' \subseteq Ids \X Names
      BY <3>1, <3>3
    <3> QED
      BY <1>2, <2>3, <3>2, <3>3 DEF TryName
  <2> QED
    BY <1>2, <2>1, <2>4, <2>5 DEF TryName, TypeOK, Statements
<1>3. CASE NoNameLeft(r)
  <2>1. state' \in [Requests -> Statements]
    BY <1>3, GotoTypes DEF NoNameLeft, Statements
  <2> QED
    BY <1>3, <2>1 DEF NoNameLeft, TypeOK, Statements
<1>4. CASE InsertLink(r)
  <2>1. state' \in [Requests -> Statements]
    BY <1>4, GotoTypes DEF InsertLink, Statements
  <2>2. links' \in [Users -> Ids \cup {Nobody}]
    BY <1>4 DEF InsertLink, TypeOK
  <2> QED
    BY <1>4, <2>1, <2>2 DEF InsertLink, TypeOK, Statements
<1>5. CASE ReadBack(r)
  <2>1. \E s \in Statements : Goto(r, s)
    BY <1>5, Zenon DEF ReadBack, Statements
  <2>2. state' \in [Requests -> Statements]
    BY <2>1, GotoTypes
  <2>3. identity' \in [Requests -> Ids \cup {Nobody}]
    BY <1>5 DEF ReadBack, Effective, TypeOK
  <2>4. names' \in [Requests -> Seq(Names \cup {Nobody})]
    <3>1. names \in [Requests -> Seq(Names \cup {Nobody})]
      BY DEF TypeOK
    <3>2. Tail(names[r]) \in Seq(Names \cup {Nobody})
      <4>1. names[r] \in Seq(Names \cup {Nobody}) /\ names[r] # <<>>
        BY <1>5, <3>1 DEF ReadBack, NameLeft
      <4> QED
        BY <4>1
    <3> QED
      BY <1>5, <3>1, <3>2 DEF ReadBack
  <2> QED
    BY <1>5, <2>2, <2>3, <2>4 DEF ReadBack, TypeOK, Statements
<1>6. CASE QueryFails(r)
  <2>1. state' \in [Requests -> Statements]
    BY <1>6, GotoTypes DEF QueryFails, Statements
  <2>2. faults' \in 0..MaxFaults
    BY <1>6, FaultTypes DEF QueryFails
  <2> QED
    BY <1>6, <2>1, <2>2 DEF QueryFails, TypeOK, Statements
<1> QED
  BY <1>1, <1>2, <1>3, <1>4, <1>5, <1>6

LEMMA OutsideTypes ==
  ASSUME TypeOK, NEW s \in Ids,
         (\E n \in Names : Rename(s, n)) \/ (\E u \in Users : LinkByHand(u, s))
  PROVE  TypeOK'
<1>1. outside' \in 0..MaxOutside
  BY FaultTypes DEF Rename, LinkByHand
<1>2. CASE \E n \in Names : Rename(s, n)
  <2>1. players' \in [Ids -> Names \cup {Nobody}]
    BY <1>2 DEF Rename, TypeOK
  <2> QED
    BY <1>1, <1>2, <2>1 DEF Rename, TypeOK, process, request, history
<1>3. CASE \E u \in Users : LinkByHand(u, s)
  <2>1. links' \in [Users -> Ids \cup {Nobody}]
    BY <1>3 DEF LinkByHand, TypeOK
  <2>2. byHand' \subseteq Users
    BY <1>3 DEF LinkByHand, TypeOK
  <2> QED
    BY <1>1, <1>3, <2>1, <2>2 DEF LinkByHand, TypeOK, process, request
<1> QED
  BY <1>2, <1>3

\* The names left change only where an interaction is looking for one.
LEMMA NameLeftStep ==
  ASSUME Typed, [Next]_vars
  PROVE  NameLeft'
<1> USE DEF tables, process, history, bounds, request
<1> TypeOK /\ NameLeft
  BY DEF Typed
<1>1. ASSUME UNCHANGED names, NEW r \in Requests, state'[r] \notin {"insert", "read back"},
             \A q \in Requests \ {r} : state'[q] = state[q]
      PROVE  NameLeft'
  BY <1>1 DEF NameLeft
<1>2. ASSUME NEW r \in Requests, RequestStep(r) PROVE NameLeft'
  <2>1. CASE Authorize(r) \/ Act(r) \/ ReadLink(r) \/ NoNameLeft(r) \/ QueryFails(r)
    <3>1. \E s \in {"done", "link", "act", "name"} : Goto(r, s) /\ UNCHANGED names
      BY <2>1, Zenon DEF Authorize, Act, ReadLink, NoNameLeft, QueryFails
    <3> QED
      BY <1>1, <3>1, GotoTypes DEF Statements
  <2>2. CASE TryName(r)
    <3>1. names[r] # <<>> /\ state[r] = "name"
      BY <2>2 DEF TryName
    <3>2. \/ Goto(r, "insert") /\ UNCHANGED names
          \/ UNCHANGED state /\ names' = [names EXCEPT ![r] = Tail(@)]
      BY <2>2, Zenon DEF TryName
    <3> QED
      BY <3>1, <3>2, GotoTypes DEF NameLeft, TypeOK, Statements
  <2>3. CASE InsertLink(r)
    BY <2>3, GotoTypes DEF InsertLink, NameLeft, Statements
  <2>4. CASE ReadBack(r)
    <3>1. \/ Goto(r, "name") /\ names' = [names EXCEPT ![r] = Tail(@)]
          \/ Goto(r, "done") /\ UNCHANGED names
      BY <2>4, Zenon DEF ReadBack
    <3> QED
      BY <3>1, GotoTypes DEF NameLeft, TypeOK, Statements
  <2> QED
    BY <1>2, <2>1, <2>2, <2>3, <2>4 DEF RequestStep
<1>3. CASE Stop
  BY <1>3 DEF Stop, NameLeft, TypeOK
<1>4. CASE UNCHANGED <<state, names>>
  BY <1>4 DEF NameLeft
<1>5. CASE Start \/ SeedAdmin \/ Seeded \/ UNCHANGED vars
  BY <1>4, <1>5 DEF Start, SeedAdmin, Seeded, vars
<1>6. ASSUME NEW s \in Ids, (\E n \in Names : Rename(s, n)) \/ (\E u \in Users : LinkByHand(u, s))
      PROVE  NameLeft'
  BY <1>4, <1>6 DEF Rename, LinkByHand
<1> QED
  BY <1>2, <1>3, <1>5, <1>6 DEF Next

LEMMA TypeStep == Typed /\ [Next]_vars => Typed'
<1> SUFFICES ASSUME Typed, [Next]_vars PROVE TypeOK'
  BY NameLeftStep DEF Typed
<1>1. CASE UNCHANGED vars
  BY <1>1 DEF vars, tables, process, request, history, bounds, TypeOK, Typed
<1>2. CASE Next
  BY <1>2, ProcessTypes, CommandTypes, LookupTypes, OutsideTypes DEF Next, RequestStep, Typed
<1> QED
  BY <1>1, <1>2

\* Every reachable state of the tables and the interactions is well typed.
THEOREM TypeCorrect == Spec => []TypeOK
<1>1. Typed => TypeOK
  BY DEF Typed
<1> QED
  BY <1>1, InitTypes, TypeStep, PTL DEF Spec

-----------------------------------------------------------------------------
(* Which player a user is.                                                 *)

\* Links are made where there are none and never changed.
LEMMA LinksKept ==
  ASSUME Typed, IdentityIsLink, [Next]_vars
  PROVE  /\ \A u \in Users : links[u] # Nobody => links'[u] = links[u]
         /\ \A u, v \in Users : links'[u] # Nobody /\ links'[u] = links'[v] => u = v
<1> TypeOK
  BY DEF Typed
<1>1. ASSUME UNCHANGED links
      PROVE  /\ \A u \in Users : links[u] # Nobody => links'[u] = links[u]
             /\ \A u, v \in Users : links'[u] # Nobody /\ links'[u] = links'[v] => u = v
  BY <1>1 DEF IdentityIsLink
<1>2. ASSUME NEW w \in Users, NEW s, Free(w, s), links' = [links EXCEPT ![w] = s]
      PROVE  /\ \A u \in Users : links[u] # Nobody => links'[u] = links[u]
             /\ \A u, v \in Users : links'[u] # Nobody /\ links'[u] = links'[v] => u = v
  BY <1>2 DEF IdentityIsLink, Free, TypeOK
<1>3. ASSUME NEW r \in Requests, InsertLink(r)
      PROVE  UNCHANGED links \/ \E s : \E w \in Users : Free(w, s) /\ links' = [links EXCEPT ![w] = s]
  BY <1>3 DEF InsertLink, TypeOK
<1>4. ASSUME NEW r \in Requests, RequestStep(r), ~ InsertLink(r) PROVE UNCHANGED links
  BY <1>4 DEF RequestStep, Authorize, Act, ReadLink, TryName, NoNameLeft, ReadBack, QueryFails, tables
<1>5. ASSUME Start \/ SeedAdmin \/ Seeded \/ Stop \/ UNCHANGED vars PROVE UNCHANGED links
  BY <1>5 DEF Start, SeedAdmin, Seeded, Stop, vars, tables
<1>6. ASSUME NEW s \in Ids, NEW n \in Names, Rename(s, n) PROVE UNCHANGED links
  BY <1>6 DEF Rename
<1>7. ASSUME NEW s \in Ids, NEW u \in Users, LinkByHand(u, s)
      PROVE  Free(u, s) /\ links' = [links EXCEPT ![u] = s]
  BY <1>7 DEF LinkByHand
<1> QED
  BY <1>1, <1>2, <1>3, <1>4, <1>5, <1>6, <1>7 DEF Next

LEMMA IdentityStep ==
  ASSUME Typed, IdentityIsLink, [Next]_vars
  PROVE  IdentityIsLink'
<1> TypeOK
  BY DEF Typed
<1>1. ASSUME NEW r \in Requests, identity'[r] # Nobody PROVE links'[from'[r]] = identity'[r]
  <2>1. UNCHANGED from
    BY DEF Next, RequestStep, Start, SeedAdmin, Seeded, Stop, Authorize, Act, ReadLink, TryName, NoNameLeft,
       InsertLink, ReadBack, QueryFails, Rename, LinkByHand, request, vars
  <2>2. from[r] \in Users
    BY DEF TypeOK
  <2>3. CASE identity'[r] = identity[r]
    BY <1>1, <2>1, <2>2, <2>3, LinksKept DEF IdentityIsLink
  <2>4. CASE ReadLink(r) \/ ReadBack(r)
    <3>1. identity' = [identity EXCEPT ![r] = links[from[r]]] /\ UNCHANGED links
      BY <2>4 DEF ReadLink, ReadBack, Effective, tables
    <3> QED
      BY <2>1, <3>1 DEF TypeOK
  <2>5. ASSUME NEW q \in Requests \ {r}, ReadLink(q) \/ ReadBack(q) PROVE identity'[r] = identity[r]
    BY <2>5 DEF ReadLink, ReadBack, TypeOK
  <2>6. ASSUME NEW q \in Requests,
               Authorize(q) \/ Act(q) \/ TryName(q) \/ NoNameLeft(q) \/ InsertLink(q) \/ QueryFails(q)
        PROVE  UNCHANGED identity
    BY <2>6 DEF Authorize, Act, TryName, NoNameLeft, InsertLink, QueryFails
  <2>7. ASSUME Start \/ SeedAdmin \/ Seeded \/ Stop \/ UNCHANGED vars PROVE UNCHANGED identity
    BY <2>7 DEF Start, SeedAdmin, Seeded, Stop, vars, request
  <2>8. ASSUME NEW s \in Ids, (\E n \in Names : Rename(s, n)) \/ (\E u \in Users : LinkByHand(u, s))
        PROVE  UNCHANGED identity
    BY <2>8 DEF Rename, LinkByHand, request
  <2> QED
    BY <2>3, <2>4, <2>5, <2>6, <2>7, <2>8 DEF Next, RequestStep
<1> QED
  BY <1>1, LinksKept DEF IdentityIsLink

\* Whom the bot has taken a user for is the player in the user's link, which
\* no other user has, for any number of questions at the same time
\* (persistAutoLink never overwrites a link).
THEOREM LinkedIdentity == Spec => []IdentityIsLink
<1>1. Init => IdentityIsLink
  BY DEF Init, IdentityIsLink
<1>2. Typed /\ IdentityIsLink /\ [Next]_vars => IdentityIsLink'
  BY IdentityStep
<1> QED
  BY <1>1, <1>2, InitTypes, TypeStep, PTL DEF Spec

-----------------------------------------------------------------------------
(* Roles.                                                                  *)

\* While the roles are being seeded nobody has been demoted without the table
\* becoming empty, because a command needs the process to be up.
RolesInv ==
  /\ DemotedStays
  /\ demoted # {} => emptied \/ ~ Empty
  /\ phase = "bootstrap" /\ demoted # {} => emptied
  /\ \A r \in Requests : state[r] = "act" => phase = "up"

LEMMA RolesStep ==
  ASSUME Typed, RolesInv, [Next]_vars
  PROVE  RolesInv'
<1> USE DEF tables, process, request, history, bounds
<1> TypeOK
  BY DEF Typed
<1>1. CASE Start
  <2>1. UNCHANGED <<roles, demoted, emptied, state>>
    BY <1>1 DEF Start
  <2>2. \A r \in Requests : state[r] # "act"
    BY <1>1 DEF Start, RolesInv
  <2>3. phase' = "bootstrap" => Empty
    BY <1>1 DEF Start
  <2> QED
    BY <2>1, <2>2, <2>3 DEF RolesInv, DemotedStays, Empty
<1>2. CASE SeedAdmin
  <2>1. phase = "bootstrap" /\ UNCHANGED <<demoted, emptied, state>>
    BY <1>2 DEF SeedAdmin
  <2>2. demoted # {} => emptied
    BY <2>1 DEF RolesInv
  <2>3. \A r \in Requests : state[r] # "act"
    BY <2>1 DEF RolesInv
  <2> QED
    BY <2>1, <2>2, <2>3 DEF RolesInv, DemotedStays
<1>3. CASE Seeded
  BY <1>3 DEF Seeded, RolesInv, DemotedStays, Empty
<1>4. CASE Stop
  <2>1. phase' = "down" /\ UNCHANGED <<roles, demoted, emptied>> /\ \A r \in Requests : state'[r] # "act"
    BY <1>4 DEF Stop, TypeOK
  <2> QED
    BY <2>1 DEF RolesInv, DemotedStays, Empty
<1>5. ASSUME NEW r \in Requests, Act(r) PROVE RolesInv'
  <2>1. phase = "up" /\ UNCHANGED phase
    BY <1>5 DEF Act, RolesInv
  <2>2. CASE UNCHANGED <<roles, demoted, emptied>>
    BY <2>1, <2>2 DEF RolesInv, DemotedStays, Empty
  <2>3. ASSUME roles' = [roles EXCEPT ![target[r]] = NewRole(r)],
               demoted' = IF roles[target[r]] = "admin" THEN demoted \cup {target[r]} ELSE demoted,
               emptied' = (emptied \/ \A u \in Users : roles'[u] = "none")
        PROVE  RolesInv'
    <3>1. target[r] \in Users /\ NewRole(r) # "admin" /\ roles'[target[r]] = NewRole(r)
          /\ \A u \in Users \ {target[r]} : roles'[u] = roles[u]
      BY <2>3 DEF TypeOK, NewRole
    <3>2. DemotedStays'
      <4>1. ASSUME NEW u \in demoted', roles'[u] = "admin" PROVE emptied'
        <5>1. u # target[r]
          BY <3>1, <4>1
        <5>2. u \in demoted /\ demoted \subseteq Users
          BY <2>3, <5>1 DEF TypeOK
        <5>3. emptied
          BY <3>1, <4>1, <5>1, <5>2 DEF RolesInv, DemotedStays
        <5> QED
          BY <2>3, <5>3, Zenon
      <4> QED
        BY <4>1 DEF DemotedStays
    <3>3. emptied' \/ ~ Empty'
      BY <2>3, Zenon DEF Empty
    <3> QED
      BY <2>1, <3>2, <3>3 DEF RolesInv
  <2> QED
    BY <1>5, <2>2, <2>3, Zenon DEF Act
<1>6. ASSUME NEW r \in Requests, RequestStep(r), ~ Act(r) PROVE RolesInv'
  <2>1. UNCHANGED <<roles, phase, demoted, emptied>>
    BY <1>6 DEF RequestStep, Authorize, ReadLink, TryName, NoNameLeft, InsertLink, ReadBack, QueryFails
  <2>2. \A q \in Requests : state'[q] = "act" => state[q] = "act" \/ phase = "up"
    <3>1. CASE Authorize(r)
      BY <3>1 DEF Authorize
    <3>2. CASE ~ Authorize(r)
      <4>1. UNCHANGED state \/ \E s \in {"done", "link", "name", "insert", "read back"} : Goto(r, s)
        BY <1>6, <3>2, Zenon DEF RequestStep, ReadLink, TryName, NoNameLeft, InsertLink, ReadBack, QueryFails
      <4> QED
        BY <4>1 DEF Goto, TypeOK
    <3> QED
      BY <3>1, <3>2
  <2> QED
    BY <2>1, <2>2 DEF RolesInv, DemotedStays, Empty
<1>7. ASSUME NEW s \in Ids, (\E n \in Names : Rename(s, n)) \/ (\E u \in Users : LinkByHand(u, s))
      PROVE  RolesInv'
  BY <1>7 DEF Rename, LinkByHand, RolesInv, DemotedStays, Empty
<1>8. CASE UNCHANGED vars
  BY <1>8 DEF vars, RolesInv, DemotedStays, Empty
<1> QED
  BY <1>1, <1>2, <1>3, <1>4, <1>5, <1>6, <1>7, <1>8 DEF Next

\* A restart does not bring a demoted administrator back, unless commands had
\* emptied the table of roles (bootstrapAdmins).
THEOREM NoRepromotion == Spec => []DemotedStays
<1>1. Init => RolesInv
  BY DEF Init, RolesInv, DemotedStays
<1>2. Typed /\ RolesInv /\ [Next]_vars => RolesInv'
  BY RolesStep
<1>3. RolesInv => DemotedStays
  BY DEF RolesInv
<1> QED
  BY <1>1, <1>2, <1>3, InitTypes, TypeStep, PTL DEF Spec

-----------------------------------------------------------------------------
(* By which name a user was linked.                                        *)

IsNameOf(u, n) == \E l \in Candidates[u] : \E k \in 1..Len(l) : n = l[k]

NamesInv ==
  /\ LinkedByName
  /\ \A r \in Requests : \A i \in 1..Len(names[r]) : IsNameOf(from[r], names[r][i])
  /\ \A r \in Requests : state[r] = "insert" => <<match[r], Head(names[r])>> \in unique

LEMMA InitNames == Init => NamesInv
<1> SUFFICES ASSUME Init PROVE NamesInv
  OBVIOUS
<1>1. \A r \in Requests : names[r] \in Candidates[from[r]]
  BY DEF Init
<1>2. \A r \in Requests : \A i \in 1..Len(names[r]) : IsNameOf(from[r], names[r][i])
  BY <1>1 DEF IsNameOf
<1> QED
  BY <1>2 DEF Init, NamesInv, LinkedByName

\* A link made by the program is to the match of the first name left.
LEMMA LinkNames ==
  ASSUME Typed, NamesInv, NEW r \in Requests, InsertLink(r)
  PROVE  LinkedByName'
<1> TypeOK /\ NameLeft
  BY DEF Typed
<1>1. ASSUME NEW u \in Users, links'[u] # Nobody, u \notin byHand'
      PROVE  \E l \in Candidates[u] : \E k \in 1..Len(l) : <<links'[u], l[k]>> \in unique'
  <2>1. UNCHANGED <<unique, byHand>>
    BY DEF InsertLink, history
  <2>2. CASE links'[u] = links[u]
    BY <1>1, <2>1, <2>2 DEF NamesInv, LinkedByName
  <2>3. CASE links'[u] # links[u]
    <3>1. u = from[r] /\ links'[u] = match[r] /\ state[r] = "insert"
      BY <2>3 DEF InsertLink, TypeOK
    <3>2. names[r] # <<>> /\ names[r] \in Seq(Names \cup {Nobody})
      BY <3>1 DEF NameLeft, TypeOK
    <3>3. 1 \in 1..Len(names[r]) /\ Head(names[r]) = names[r][1]
      BY <3>2
    <3>4. IsNameOf(u, Head(names[r])) /\ <<links'[u], Head(names[r])>> \in unique'
      BY <2>1, <3>1, <3>3 DEF NamesInv
    <3> QED
      BY <3>4 DEF IsNameOf
  <2> QED
    BY <2>2, <2>3
<1> QED
  BY <1>1 DEF LinkedByName

\* A name that leads to a player leads to one only.
LEMMA MatchNames ==
  ASSUME Typed, NEW r \in Requests, TryName(r)
  PROVE  \/ /\ Goto(r, "insert") /\ UNCHANGED names
            /\ <<match'[r], Head(names[r])>> \in unique'
         \/ UNCHANGED <<state, match>> /\ names' = [names EXCEPT ![r] = Tail(@)]
<1> TypeOK
  BY DEF Typed
<1>1. CASE Head(names[r]) # Nobody /\ Matches(Head(names[r]))
  <2> DEFINE n == Head(names[r])
             S == {s \in Ids : players[s] = n}
  <2>1. PICK s \in Ids :
          /\ players[s] = n
          /\ match' = [match EXCEPT ![r] = s]
          /\ unique' = IF \A t \in Ids \ {s} : players[t] # n THEN unique \cup {<<s, n>>} ELSE unique
          /\ Goto(r, "insert") /\ UNCHANGED names
    BY <1>1 DEF TryName
  <2>2. IsFiniteSet(S) /\ Cardinality(S) = 1
    <3>1. S \in SUBSET Ids /\ IsFiniteSet(Ids)
      BY Constants
    <3>2. IsFiniteSet(S)
      BY <3>1, FS_Subset, Zenon
    <3> QED
      BY <1>1, <3>2 DEF Matches
  <2>3. PICK x : S = {x}
    BY <2>2, FS_Singleton
  <2>4. \A t \in Ids \ {s} : players[t] # n
    BY <2>1, <2>3
  <2>5. <<s, n>> \in unique' /\ match'[r] = s
    BY <2>1, <2>4 DEF TypeOK
  <2> QED
    BY <2>1, <2>5
<1>2. CASE ~ (Head(names[r]) # Nobody /\ Matches(Head(names[r])))
  BY <1>2 DEF TryName
<1> QED
  BY <1>1, <1>2

LEMMA UniqueKept ==
  ASSUME Typed, [Next]_vars
  PROVE  /\ unique \subseteq unique' /\ byHand \subseteq byHand' /\ UNCHANGED from
         /\ \/ UNCHANGED links
            \/ \E r \in Requests : InsertLink(r)
            \/ \E u \in Users, s \in Ids : links' = [links EXCEPT ![u] = s] /\ byHand' = byHand \cup {u}
<1> USE DEF tables, process, request, history, bounds
<1>1. ASSUME NEW r \in Requests, RequestStep(r), ~ InsertLink(r)
      PROVE  unique \subseteq unique' /\ UNCHANGED <<byHand, from, links>>
  <2>1. CASE TryName(r)
    BY <2>1 DEF TryName
  <2>2. CASE Authorize(r) \/ Act(r) \/ ReadLink(r) \/ NoNameLeft(r) \/ ReadBack(r) \/ QueryFails(r)
    BY <2>2 DEF Authorize, Act, ReadLink, NoNameLeft, ReadBack, QueryFails
  <2> QED
    BY <1>1, <2>1, <2>2 DEF RequestStep
<1>2. ASSUME NEW r \in Requests, InsertLink(r) PROVE UNCHANGED <<unique, byHand, from>>
  BY <1>2 DEF InsertLink
<1>3. ASSUME Start \/ SeedAdmin \/ Seeded \/ Stop \/ UNCHANGED vars
      PROVE  UNCHANGED <<unique, byHand, from, links>>
  BY <1>3 DEF Start, SeedAdmin, Seeded, Stop, vars
<1>4. ASSUME NEW s \in Ids, NEW n \in Names, Rename(s, n) PROVE UNCHANGED <<unique, byHand, from, links>>
  BY <1>4 DEF Rename
<1>5. ASSUME NEW s \in Ids, NEW u \in Users, LinkByHand(u, s)
      PROVE  /\ UNCHANGED <<unique, from>>
             /\ links' = [links EXCEPT ![u] = s] /\ byHand' = byHand \cup {u}
  BY <1>5 DEF LinkByHand
<1> QED
  BY <1>1, <1>2, <1>3, <1>4, <1>5 DEF Next

LEMMA NamesStep ==
  ASSUME Typed, NamesInv, [Next]_vars
  PROVE  NamesInv'
<1> USE DEF tables, process, request, history, bounds
<1> TypeOK /\ NameLeft
  BY DEF Typed
<1>1. LinkedByName'
  <2>1. CASE UNCHANGED links
    BY <2>1, UniqueKept DEF NamesInv, LinkedByName
  <2>2. CASE \E r \in Requests : InsertLink(r)
    BY <2>2, LinkNames
  <2>3. ASSUME NEW u \in Users, NEW s \in Ids, links' = [links EXCEPT ![u] = s], byHand' = byHand \cup {u}
        PROVE  LinkedByName'
    <3>1. ASSUME NEW v \in Users, links'[v] # Nobody, v \notin byHand'
          PROVE  links'[v] = links[v] /\ v \notin byHand
      BY <2>3, <3>1 DEF TypeOK
    <3> QED
      BY <3>1, UniqueKept DEF NamesInv, LinkedByName
  <2> QED
    BY <2>1, <2>2, <2>3, UniqueKept
<1>2. ASSUME NEW r \in Requests
      PROVE  \/ names'[r] = names[r]
             \/ names[r] # <<>> /\ names'[r] = Tail(names[r]) /\ state'[r] # "insert"
  <2>1. ASSUME NEW q \in Requests, TryName(q)
        PROVE  \/ names'[r] = names[r]
               \/ names[r] # <<>> /\ names'[r] = Tail(names[r]) /\ state'[r] # "insert"
    <3>1. CASE q = r
      <4>1. names[r] # <<>> /\ state[r] = "name"
        BY <2>1, <3>1 DEF TryName
      <4> QED
        BY <2>1, <3>1, <4>1, MatchNames DEF TypeOK
    <3>2. CASE q # r
      BY <2>1, <3>2, MatchNames DEF TypeOK
    <3> QED
      BY <3>1, <3>2
  <2>2. ASSUME NEW q \in Requests, ReadBack(q)
        PROVE  \/ names'[r] = names[r]
               \/ names[r] # <<>> /\ names'[r] = Tail(names[r]) /\ state'[r] # "insert"
    <3>1. names[q] # <<>> /\ (names' = [names EXCEPT ![q] = Tail(@)] \/ UNCHANGED names)
      BY <2>2 DEF ReadBack, NameLeft
    <3>2. state'[q] # "insert"
      BY <2>2, Zenon DEF ReadBack, Goto, TypeOK
    <3> QED
      BY <3>1, <3>2 DEF TypeOK
  <2>3. ASSUME NEW q \in Requests, RequestStep(q), ~ TryName(q), ~ ReadBack(q) PROVE UNCHANGED names
    BY <2>3 DEF RequestStep, Authorize, Act, ReadLink, NoNameLeft, InsertLink, QueryFails
  <2>4. ASSUME Start \/ SeedAdmin \/ Seeded \/ Stop \/ UNCHANGED vars PROVE UNCHANGED names
    BY <2>4 DEF Start, SeedAdmin, Seeded, Stop, vars
  <2>5. ASSUME NEW s \in Ids, (\E n \in Names : Rename(s, n)) \/ (\E u \in Users : LinkByHand(u, s))
        PROVE  UNCHANGED names
    BY <2>5 DEF Rename, LinkByHand
  <2> QED
    BY <2>1, <2>2, <2>3, <2>4, <2>5 DEF Next
<1>3. ASSUME NEW r \in Requests, NEW i \in 1..Len(names'[r]) PROVE IsNameOf(from'[r], names'[r][i])
  <2>1. names[r] \in Seq(Names \cup {Nobody}) /\ from'[r] = from[r]
    BY UniqueKept DEF TypeOK
  <2>2. CASE names'[r] = names[r]
    BY <1>3, <2>1, <2>2 DEF NamesInv
  <2>3. CASE names[r] # <<>> /\ names'[r] = Tail(names[r])
    <3>1. i + 1 \in 1..Len(names[r]) /\ names'[r][i] = names[r][i + 1]
      BY <1>3, <2>1, <2>3
    <3> QED
      BY <2>1, <3>1 DEF NamesInv
  <2> QED
    BY <1>2, <2>2, <2>3
<1>4. ASSUME NEW r \in Requests, state'[r] = "insert" PROVE <<match'[r], Head(names'[r])>> \in unique'
  <2>1. names'[r] = names[r]
    BY <1>2, <1>4
  <2>2. CASE TryName(r)
    <3>1. state[r] = "name"
      BY <2>2 DEF TryName
    <3> QED
      BY <1>4, <2>1, <2>2, <3>1, MatchNames
  <2>3. CASE ~ TryName(r)
    <3>1. ASSUME NEW q \in Requests, TryName(q), q # r PROVE state'[r] = state[r] /\ match'[r] = match[r]
      BY <3>1 DEF TryName, Goto, TypeOK
    <3>2. ASSUME NEW q \in Requests, RequestStep(q), ~ TryName(q)
          PROVE  UNCHANGED match /\ (state'[r] = state[r] \/ state'[r] # "insert")
      <4>1. UNCHANGED match
        BY <3>2 DEF RequestStep, Authorize, Act, ReadLink, NoNameLeft, InsertLink, ReadBack, QueryFails
      <4>2. \E s \in {"done", "link", "act", "name", "read back"} : Goto(q, s)
        BY <3>2, Zenon DEF RequestStep, Authorize, Act, ReadLink, NoNameLeft, InsertLink, ReadBack, QueryFails
      <4> QED
        BY <4>1, <4>2 DEF Goto, TypeOK
    <3>3. ASSUME Start \/ SeedAdmin \/ Seeded \/ UNCHANGED vars PROVE UNCHANGED <<state, match>>
      BY <3>3 DEF Start, SeedAdmin, Seeded, vars
    <3>4. ~ Stop
      BY <1>4 DEF Stop, TypeOK
    <3>5. ASSUME NEW s \in Ids, (\E n \in Names : Rename(s, n)) \/ (\E u \in Users : LinkByHand(u, s))
          PROVE  UNCHANGED <<state, match>>
      BY <3>5 DEF Rename, LinkByHand
    <3>6. state[r] = "insert" /\ match'[r] = match[r]
      BY <1>4, <2>3, <3>1, <3>2, <3>3, <3>4, <3>5 DEF Next
    <3> QED
      BY <2>1, <3>6, UniqueKept DEF NamesInv
  <2> QED
    BY <2>2, <2>3
<1> QED
  BY <1>1, <1>3, <1>4 DEF NamesInv

\* A link that was not made by hand is to a player who was the only one of a
\* name the user has (resolveCuratorIdentity guesses no identity).
THEOREM LinkIsUnique == Spec => []LinkedByName
<1>1. NamesInv => LinkedByName
  BY DEF NamesInv
<1>2. Typed /\ NamesInv /\ [Next]_vars => NamesInv'
  BY NamesStep
<1> QED
  BY <1>1, <1>2, InitNames, InitTypes, TypeStep, PTL DEF Spec

-----------------------------------------------------------------------------
(* Who is an administrator.                                                *)

\* What bootstrapAdmins still has to write is of its list.
ListedInv ==
  /\ OnlyListed
  /\ \A i \in 1..Len(seeds) : Listed(seeds[i])

LEMMA InitListed == Init => ListedInv
  BY DEF Init, ListedInv, OnlyListed

\* A command is carried out for an administrator, and makes nobody one.
LEMMA CommandListed ==
  ASSUME Typed, OnlyListed, NEW r \in Requests, RequestStep(r)
  PROVE  OnlyListed'
<1> TypeOK
  BY DEF Typed
<1> USE DEF tables, process, request, history, bounds
<1>1. CASE Act(r)
  <2>1. \A u \in Users : roles'[u] = "admin" => roles[u] = "admin"
    BY <1>1 DEF Act, NewRole, TypeOK
  <2>2. \A q \in Requests : state'[q] = "act" => state[q] = "act"
    BY <1>1 DEF Act, Goto, TypeOK
  <2> QED
    BY <1>1, <2>1, <2>2 DEF Act, OnlyListed, Listed
<1>2. CASE Authorize(r)
  <2>1. UNCHANGED <<roles, from>> /\ from[r] \in Users
    BY <1>2 DEF Authorize, TypeOK
  <2>2. PICK role \in {roles[from[r]], "none"} :
          Goto(r, IF ~ Cleared(r, role) \/ ~ connected THEN "done"
                  ELSE IF command[r] = "ask" THEN "link" ELSE "act")
    BY <1>2 DEF Authorize
  <2>3. ASSUME state'[r] = "act" PROVE roles[from[r]] = "admin"
    <3>1. Cleared(r, role) /\ command[r] # "ask"
      BY <2>2, <2>3 DEF Goto, TypeOK
    <3> QED
      BY <3>1 DEF Cleared
  <2>4. \A q \in Requests \ {r} : state'[q] = state[q]
    BY <2>2 DEF Goto, TypeOK
  <2> QED
    BY <2>1, <2>3, <2>4 DEF OnlyListed, Listed
<1>3. CASE RequestStep(r) /\ ~ Act(r) /\ ~ Authorize(r)
  <2>1. UNCHANGED <<roles, from>>
    BY <1>3 DEF RequestStep, ReadLink, TryName, NoNameLeft, InsertLink, ReadBack, QueryFails
  <2>2. UNCHANGED state \/ \E s \in {"done", "name", "insert", "read back"} : Goto(r, s)
    BY <1>3, Zenon DEF RequestStep, ReadLink, TryName, NoNameLeft, InsertLink, ReadBack, QueryFails
  <2>3. \A q \in Requests : state'[q] = "act" => state[q] = "act"
    BY <2>2 DEF Goto, TypeOK
  <2> QED
    BY <2>1, <2>3 DEF OnlyListed, Listed
<1> QED
  BY <1>1, <1>2, <1>3

LEMMA ListedStep ==
  ASSUME Typed, ListedInv, [Next]_vars
  PROVE  ListedInv'
<1> TypeOK /\ OnlyListed
  BY DEF Typed, ListedInv
<1> USE DEF tables, process, request, history, bounds
<1>1. ASSUME NEW r \in Requests, RequestStep(r) PROVE ListedInv'
  <2>1. UNCHANGED seeds
    BY <1>1 DEF RequestStep, Authorize, Act, ReadLink, TryName, NoNameLeft, InsertLink, ReadBack, QueryFails
  <2> QED
    BY <1>1, <2>1, CommandListed DEF ListedInv, Listed
<1>2. CASE Start
  BY <1>2 DEF Start, ListedInv, OnlyListed, Listed
<1>3. CASE SeedAdmin
  <2>1. seeds \in Seq(Users) /\ seeds # <<>>
    BY <1>3 DEF SeedAdmin, TypeOK
  <2>2. 1 \in 1..Len(seeds) /\ Head(seeds) = seeds[1]
        /\ \A i \in 1..Len(Tail(seeds)) : i + 1 \in 1..Len(seeds) /\ Tail(seeds)[i] = seeds[i + 1]
    BY <2>1
  <2>3. \A u \in Users : roles'[u] = "admin" => roles[u] = "admin" \/ u = Head(seeds)
    BY <1>3 DEF SeedAdmin, TypeOK
  <2>4. UNCHANGED <<state, from>> /\ (seeds' = Tail(seeds) \/ seeds' = <<>>)
    BY <1>3 DEF SeedAdmin
  <2>5. Listed(Head(seeds)) /\ \A i \in 1..Len(seeds') : Listed(seeds'[i])
    <3>1. 1..Len(<<>>) = {}
      OBVIOUS
    <3> QED
      BY <2>2, <2>4, <3>1 DEF ListedInv
  <2> QED
    BY <2>3, <2>4, <2>5 DEF ListedInv, OnlyListed, Listed
<1>4. CASE Stop
  <2>1. UNCHANGED <<roles, from>> /\ seeds' = <<>>
        /\ \A r \in Requests : state'[r] = "act" => state[r] = "act"
    BY <1>4 DEF Stop
  <2>2. \A i \in 1..Len(seeds') : Listed(seeds'[i])
    BY <2>1
  <2> QED
    BY <2>1, <2>2 DEF ListedInv, OnlyListed, Listed
<1>5. CASE UNCHANGED <<roles, state, from, seeds>>
  BY <1>5 DEF ListedInv, OnlyListed, Listed
<1>6. CASE Seeded \/ UNCHANGED vars
  BY <1>5, <1>6 DEF Seeded, vars
<1>7. ASSUME NEW s \in Ids, (\E n \in Names : Rename(s, n)) \/ (\E u \in Users : LinkByHand(u, s))
      PROVE  ListedInv'
  BY <1>5, <1>7 DEF Rename, LinkByHand
<1> QED
  BY <1>1, <1>2, <1>3, <1>4, <1>6, <1>7 DEF Next

\* Only users of the bootstrap list are administrators or get past authorize to
\* block and unblock: no command makes an administrator, and neither does a
\* restart at any moment (bootstrapAdmins, handleBlockUser).
THEOREM AdminsAreListed == Spec => []OnlyListed
<1>1. ListedInv => OnlyListed
  BY DEF ListedInv
<1>2. Typed /\ ListedInv /\ [Next]_vars => ListedInv'
  BY ListedStep
<1> QED
  BY <1>1, <1>2, InitListed, InitTypes, TypeStep, PTL DEF Spec

=============================================================================
