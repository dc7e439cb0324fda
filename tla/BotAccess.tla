------------------------------ MODULE BotAccess ------------------------------
(***************************************************************************)
(* Who may do what with the Discord bot, and which player a Discord user   *)
(* is.  Roles and links are tables; each interaction is handled in a       *)
(* goroutine of its own, statement by statement.  The tables are not       *)
(* locked between two statements of a handler.                             *)
(*                                                                         *)
(* Three commands stand for all: a question to the Curator, which anybody  *)
(* may ask and which resolves the asker's identity, /block and /unblock.   *)
(* The players table is the exporter's; links an administrator inserts by  *)
(* hand are made outside the program.                                      *)
(*                                                                         *)
(* An operator A_B is a faulty variant of A, kept to show that the runs    *)
(* tell the two apart; no specification uses it.                           *)
(***************************************************************************)
EXTENDS Integers, Sequences, FiniteSets

CONSTANTS
  Users,        \* Discord users
  Ids,          \* SteamIDs
  Names,        \* names of players and of Discord users
  Nobody,       \* no SteamID, no name
  Candidates,   \* lists of nickname, display name and account name a user may have
  BootstrapIds, \* --bootstrap-admin-ids
  Requests,     \* interactions
  MaxFaults,    \* bound on failed statements, restarts and starts without a
                \* database
  MaxOutside    \* bound on renamed players and links made by hand

ASSUME AccessAssumption ==
  /\ IsFiniteSet(Ids) /\ Nobody \notin Ids \cup Names
  /\ Candidates \in [Users -> SUBSET Seq(Names \cup {Nobody})]
  /\ BootstrapIds \in Seq(Users)
  /\ MaxFaults \in Nat /\ MaxOutside \in Nat

VARIABLES
  roles,     \* discordbot_user_roles, "none" if there is no row
  links,     \* discordbot_player_links, Nobody if there is no row
  players,   \* players.last_username by SteamID, Nobody if there is no row
  phase,     \* of the process: "down", "bootstrap" or "up"
  connected, \* has it a pool of connections?
  seeds,     \* identifiers bootstrapAdmins still has to write
  state,     \* statement each interaction is at
  from,      \* its user
  command,   \* "ask", "block" or "unblock"
  target,    \* user to block or unblock
  names,     \* candidate names left
  match,     \* SteamID the last name has led to
  identity,  \* SteamID its user was resolved to, Nobody if to none
  demoted,   \* history: administrators whose role a command has taken away
  emptied,   \* history: has a command ever removed the last row of the roles?
  unique,    \* history: <<SteamID, name>>, found to be the only one of its name
  byHand,    \* history: users whose link was made by hand
  faults, outside

process == <<phase, connected, seeds>>
tables == <<roles, links, players>>
request == <<state, from, command, target, names, match, identity>>
history == <<demoted, emptied, unique, byHand>>
bounds == <<faults, outside>>
vars == <<tables, process, request, history, bounds>>

Roles == {"none", "admin", "moderator", "blocked"}
Lists == UNION {Candidates[u] : u \in Users}

TypeOK ==
  /\ roles \in [Users -> Roles] /\ links \in [Users -> Ids \cup {Nobody}]
  /\ players \in [Ids -> Names \cup {Nobody}]
  /\ phase \in {"down", "bootstrap", "up"} /\ connected \in BOOLEAN /\ seeds \in Seq(Users)
  /\ state \in [Requests -> {"new", "authorize", "act", "link", "name", "insert", "read back", "done"}]
  /\ from \in [Requests -> Users] /\ target \in [Requests -> Users]
  /\ command \in [Requests -> {"ask", "block", "unblock"}]
  /\ names \in [Requests -> Seq(Names \cup {Nobody})]
  /\ match \in [Requests -> Ids \cup {Nobody}] /\ identity \in [Requests -> Ids \cup {Nobody}]
  /\ demoted \subseteq Users /\ emptied \in BOOLEAN
  /\ unique \subseteq Ids \X Names /\ byHand \subseteq Users
  /\ faults \in 0..MaxFaults /\ outside \in 0..MaxOutside

Init ==
  /\ roles = [u \in Users |-> "none"] /\ links = [u \in Users |-> Nobody]
  /\ players \in [Ids -> Names]
  /\ phase = "down" /\ connected = FALSE /\ seeds = <<>>
  /\ state = [r \in Requests |-> "new"]
  /\ from \in [Requests -> Users] /\ target \in [Requests -> Users]
  /\ command \in [Requests -> {"ask", "block", "unblock"}]
  /\ names \in [Requests -> Lists] /\ \A r \in Requests : names[r] \in Candidates[from[r]]
  /\ match = [r \in Requests |-> Nobody] /\ identity = [r \in Requests |-> Nobody]
  /\ demoted = {} /\ emptied = FALSE /\ unique = {} /\ byHand = {}
  /\ faults = 0 /\ outside = 0

Fault == faults < MaxFaults /\ faults' = faults + 1
Goto(r, s) == state' = [state EXCEPT ![r] = s]

-----------------------------------------------------------------------------
(* The process.                                                            *)

Empty_Admins == \A u \in Users : roles[u] # "admin"
Empty == \A u \in Users : roles[u] = "none"

\* main and the first statement of bootstrapAdmins.  Without a connection the
\* bot runs all the same, and does not try again.
Start ==
  /\ phase = "down"
  /\ \/ /\ connected' = TRUE
        /\ IF Empty THEN phase' = "bootstrap" /\ seeds' = BootstrapIds
                    ELSE phase' = "up" /\ UNCHANGED seeds
        /\ UNCHANGED faults
     \/ Fault /\ connected' = FALSE /\ phase' = "up" /\ UNCHANGED seeds
  /\ UNCHANGED <<tables, request, history, outside>>

\* The rest of bootstrapAdmins; its first error ends it, and is only logged.
SeedAdmin ==
  /\ phase = "bootstrap" /\ seeds # <<>>
  /\ \/ /\ roles' = [roles EXCEPT ![Head(seeds)] = "admin"]
        /\ seeds' = Tail(seeds)
        /\ UNCHANGED <<phase, faults>>
     \/ Fault /\ seeds' = <<>> /\ phase' = "up" /\ UNCHANGED roles
  /\ UNCHANGED <<links, players, connected, request, history, outside>>

Seeded ==
  /\ phase = "bootstrap" /\ seeds = <<>>
  /\ phase' = "up"
  /\ UNCHANGED <<tables, connected, seeds, request, history, bounds>>

\* The process ends, and with it every interaction that had begun.
Stop ==
  /\ phase # "down" /\ Fault
  /\ phase' = "down" /\ connected' = FALSE /\ seeds' = <<>>
  /\ state' = [r \in Requests |-> IF state[r] = "new" THEN "new" ELSE "done"]
  /\ UNCHANGED <<tables, from, command, target, names, match, identity, history, outside>>

-----------------------------------------------------------------------------
(* An interaction.                                                         *)

\* authorize.  A lookup that fails counts as no role.
Cleared(r, role) ==
  /\ role # "blocked"
  /\ command[r] # "ask" => role = "admin"

Authorize(r) ==
  /\ phase = "up" /\ state[r] = "new"
  /\ \E role \in {roles[from[r]], "none"} :
       /\ IF connected /\ role = roles[from[r]] THEN UNCHANGED faults
          ELSE role = "none" /\ (IF connected THEN Fault ELSE UNCHANGED faults)
       /\ Goto(r, IF ~ Cleared(r, role) \/ ~ connected THEN "done"
                  ELSE IF command[r] = "ask" THEN "link" ELSE "act")
  /\ UNCHANGED <<tables, process, from, command, target, names, match, identity, history, outside>>

\* handleBlockUser: the role is set or its row deleted, whatever it was.
NewRole_Before(r) == IF command[r] = "block" THEN "blocked" ELSE "unblocked"
NewRole(r) == IF command[r] = "block" THEN "blocked" ELSE "none"

Act(r) ==
  /\ state[r] = "act"
  /\ \/ /\ roles' = [roles EXCEPT ![target[r]] = NewRole(r)]
        /\ demoted' = IF roles[target[r]] = "admin" THEN demoted \cup {target[r]} ELSE demoted
        /\ emptied' = (emptied \/ \A u \in Users : roles'[u] = "none")
        /\ UNCHANGED faults
     \/ Fault /\ UNCHANGED <<roles, demoted, emptied>>
  /\ Goto(r, "done")
  /\ UNCHANGED <<links, players, process, from, command, target, names, match, identity, unique, byHand, outside>>

\* resolveCuratorIdentity: an existing link wins.
ReadLink(r) ==
  /\ state[r] = "link"
  /\ identity' = [identity EXCEPT ![r] = links[from[r]]]
  /\ Goto(r, IF identity'[r] = Nobody THEN "name" ELSE "done")
  /\ UNCHANGED <<tables, process, from, command, target, names, match, history, bounds>>

\* A candidate leads to a player if it is the name of exactly one.
Matches_Any(n) == {s \in Ids : players[s] = n} # {}
Matches(n) == Cardinality({s \in Ids : players[s] = n}) = 1

TryName(r) ==
  /\ state[r] = "name" /\ names[r] # <<>>
  /\ LET n == Head(names[r]) IN
       IF n # Nobody /\ Matches(n)
       THEN \E s \in Ids :
              /\ players[s] = n
              /\ match' = [match EXCEPT ![r] = s]
              /\ unique' = IF \A t \in Ids \ {s} : players[t] # n THEN unique \cup {<<s, n>>} ELSE unique
              /\ Goto(r, "insert") /\ UNCHANGED names
       ELSE names' = [names EXCEPT ![r] = Tail(@)] /\ UNCHANGED <<match, unique, state>>
  /\ UNCHANGED <<tables, process, from, command, target, identity, demoted, emptied, byHand, bounds>>

NoNameLeft(r) ==
  /\ state[r] = "name" /\ names[r] = <<>>
  /\ Goto(r, "done")
  /\ UNCHANGED <<tables, process, from, command, target, names, match, identity, history, bounds>>

\* persistAutoLink: INSERT ... ON CONFLICT DO NOTHING, with a key on the user
\* and a unique index on the SteamID.
Free(u, s) == links[u] = Nobody /\ \A v \in Users : links[v] # s

InsertLink(r) ==
  /\ state[r] = "insert"
  /\ links' = IF Free(from[r], match[r]) THEN [links EXCEPT ![from[r]] = match[r]] ELSE links
  /\ Goto(r, "read back")
  /\ UNCHANGED <<roles, players, process, from, command, target, names, match, identity, history, bounds>>

\* ... and what it reads back: the user's link, whoever has made it.  There is
\* none if the SteamID belongs to another user; the next name is tried then.
Effective_Match(r) == match[r]
Effective(r) == links[from[r]]

ReadBack(r) ==
  /\ state[r] = "read back"
  /\ identity' = [identity EXCEPT ![r] = Effective(r)]
  /\ IF identity'[r] = Nobody THEN Goto(r, "name") /\ names' = [names EXCEPT ![r] = Tail(@)]
                              ELSE Goto(r, "done") /\ UNCHANGED names
  /\ UNCHANGED <<tables, process, from, command, target, match, history, bounds>>

\* Any query that fails ends the resolution without an identity.
QueryFails(r) ==
  /\ state[r] \in {"link", "name", "insert", "read back"} /\ Fault
  /\ Goto(r, "done")
  /\ UNCHANGED <<tables, process, from, command, target, names, match, identity, history, outside>>

RequestStep(r) ==
  \/ Authorize(r) \/ Act(r) \/ ReadLink(r) \/ TryName(r) \/ NoNameLeft(r)
  \/ InsertLink(r) \/ ReadBack(r) \/ QueryFails(r)

-----------------------------------------------------------------------------
(* Outside.                                                                *)

Outside == outside < MaxOutside /\ outside' = outside + 1

\* The exporter sees a player under another name.
Rename(s, n) ==
  /\ Outside /\ players[s] # n
  /\ players' = [players EXCEPT ![s] = n]
  /\ UNCHANGED <<roles, links, process, request, history, faults>>

LinkByHand(u, s) ==
  /\ Outside /\ Free(u, s)
  /\ links' = [links EXCEPT ![u] = s]
  /\ byHand' = byHand \cup {u}
  /\ UNCHANGED <<roles, players, process, request, demoted, emptied, unique, faults>>

Next ==
  \/ Start \/ SeedAdmin \/ Seeded \/ Stop
  \/ \E r \in Requests : RequestStep(r)
  \/ \E s \in Ids : \/ \E n \in Names : Rename(s, n)
                    \/ \E u \in Users : LinkByHand(u, s)

Spec == Init /\ [][Next]_vars

-----------------------------------------------------------------------------

\* Whom the bot has taken a user for is, then and ever after, the player in
\* the user's link, and no other user is linked to that player, however many
\* questions resolved their identity at the same time (persistAutoLink:
\* "never silently steal/overwrite an existing link").
IdentityIsLink ==
  /\ \A r \in Requests : identity[r] # Nobody => links[from[r]] = identity[r]
  /\ \A u, v \in Users : links[u] # Nobody /\ links[u] = links[v] => u = v

\* A link that was not made by hand is to a player who was the only one of a
\* name the user has (resolveCuratorIdentity: "no player identity is guessed").
LinkedByName ==
  \A u \in Users : links[u] # Nobody /\ u \notin byHand =>
    \E l \in Candidates[u] : \E k \in 1..Len(l) : <<links[u], l[k]>> \in unique

\* An administrator whose role a command has taken away does not get it back
\* by a restart, unless the table of roles had become empty
\* (bootstrapAdmins: not to "silently re-promote anyone later demoted").
DemotedStays ==
  \A u \in demoted : roles[u] = "admin" => emptied

Listed(u) == \E i \in 1..Len(BootstrapIds) : BootstrapIds[i] = u

\* Only users of the bootstrap list are administrators or get past authorize to
\* block and unblock, also when the list is applied half, again, or to a table
\* that commands have emptied: no command makes an administrator
\* (bootstrapAdmins, handleBlockUser).
OnlyListed ==
  /\ \A u \in Users : roles[u] = "admin" => Listed(u)
  /\ \A r \in Requests : state[r] = "act" => Listed(from[r])
=============================================================================
