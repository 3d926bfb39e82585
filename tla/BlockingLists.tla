---------------------------- MODULE BlockingLists ----------------------------
(***************************************************************************)
(* Commands that wait for a list (BLPOP, BLMOVE and their relatives): a    *)
(* session whose list is empty is parked, and serve_ready executes its     *)
(* command again after every command that changed the store, or when its   *)
(* deadline has come (src/server.cpp: BlockingListRegistry,                *)
(* dispatch_resp_command, process_buffered_commands; src/command.cpp: the  *)
(* list commands).                                                         *)
(*                                                                         *)
(* One thread executes everything.  The loops inside serve_ready and EXEC  *)
(* are one step per iteration; nothing else happens before they end, but   *)
(* time passes.                                                            *)
(***************************************************************************)
EXTENDS Naturals, Sequences, FiniteSets

CONSTANTS
  Clients, Keys,
  Sends,     \* Sends[c]: the commands client c may send
  MaxSent    \* bound: MaxSent[c], the commands client c sends

Ops == {"rpush", "set", "del", "lpop", "blpop", "blmove"}
\* keys: for blmove, the source and the destination.  n: elements that rpush pushes.
Simple ==
  {cmd \in [op : Ops, keys : Seq(Keys), n : Nat, timed : BOOLEAN] :
     cmd.keys # <<>> /\ (cmd.op = "blmove" => Len(cmd.keys) = 2)}
\* body: the commands of a transaction, which do not contain transactions.
Exec == [op : {"exec"}, body : Seq(Simple)]
Command == Simple \cup Exec

ASSUME ClientsAssumption == Clients # {}
ASSUME SendsAssumption == \A c \in Clients : Sends[c] \subseteq Command

VARIABLES
  pc,       \* idle; exec: inside EXEC; serve_ready: about to call it; scan: in its loop
  cur,      \* the client of EXEC
  rest,     \* the queued commands EXEC has still to execute
  index,    \* the position of serve_ready in waiters
  lists,    \* the list at each key; <<>> is no list
  strings,  \* the keys that hold a value of another type
  dirty,    \* dirty_
  waiters,  \* waiters_
  blocked,  \* blocked_list of each session
  inbox,    \* commands received and not yet dispatched
  sent,     \* commands each client has sent
  answered, \* history: the commands answered, by number, in order
  got,      \* history: the elements handed out
  dropped,  \* history: the elements deleted with their key
  pushed,   \* elements ever pushed
  parked,   \* history: how often a session was parked
  gone      \* clients that have disconnected

storeVars == <<lists, strings, dirty, got, dropped, pushed>>
vars == <<pc, cur, rest, index, storeVars, waiters, blocked, inbox, sent, answered, parked, gone>>
-----------------------------------------------------------------------------
NoRequest == [waits |-> FALSE]
\* reply_to: the number of the command; since: the number of the parking.
Request == [waits : {TRUE}, cmd : Simple, reply_to : Nat, since : Nat,
            deadline : {"none", "ahead", "due"}]
Given == [client : Clients, key : Keys, value : Nat, moved : BOOLEAN]

Blocked(c) == blocked[c].waits

\* The types; the scan is at a waiter or just behind the last.
TypeOK ==
  /\ pc \in {"idle", "exec", "serve_ready", "scan"}
  /\ cur \in Clients /\ rest \in Seq(Simple)
  /\ index \in Nat /\ (pc = "scan" => index \in 1..Len(waiters) + 1)
  /\ lists \in [Keys -> Seq(Nat)] /\ strings \subseteq Keys /\ dirty \in BOOLEAN
  /\ waiters \in Seq(Clients)
  /\ blocked \in [Clients -> {NoRequest} \cup Request]
  /\ inbox \in [Clients -> Seq(Command)]
  /\ sent \in [Clients -> Nat] /\ answered \in [Clients -> Seq(Nat)]
  /\ got \subseteq Given /\ dropped \subseteq Nat
  /\ pushed \in Nat /\ parked \in Nat /\ gone \subseteq Clients

Init ==
  /\ pc = "idle" /\ cur = CHOOSE c \in Clients : TRUE
  /\ rest = <<>> /\ index = 1
  /\ lists = [k \in Keys |-> <<>>] /\ strings = {} /\ dirty = FALSE
  /\ waiters = <<>> /\ blocked = [c \in Clients |-> NoRequest]
  /\ inbox = [c \in Clients |-> <<>>]
  /\ sent = [c \in Clients |-> 0] /\ answered = [c \in Clients |-> <<>>]
  /\ got = {} /\ dropped = {} /\ pushed = 0 /\ parked = 0 /\ gone = {}
-----------------------------------------------------------------------------
(* Commands on lists. *)

Pops(cmd) == cmd.op \in {"lpop", "blpop", "blmove"}
Blocking(cmd) == cmd.op \in {"blpop", "blmove"}
Elements(k) == {lists[k][i] : i \in DOMAIN lists[k]}
\* The keys a pop looks at, in order: of a move, only the source.
Sources(cmd) == IF cmd.op = "blmove" THEN {1} ELSE DOMAIN cmd.keys
Holds(k) == k \in strings \/ lists[k] # <<>>
\* The command has a reply other than null: an element, or an error for a wrong type.
Ready(cmd) == \E i \in Sources(cmd) : Holds(cmd.keys[i])
\* The key a pop stops at.
Source(cmd) ==
  cmd.keys[CHOOSE i \in Sources(cmd) :
             Holds(cmd.keys[i]) /\ \A j \in Sources(cmd) : Holds(cmd.keys[j]) => i <= j]
WrongType(cmd) ==
  Source(cmd) \in strings \/ (cmd.op = "blmove" /\ cmd.keys[2] \in strings)

\* (mutant of Moved) the destination is extended as it was before the pop.
MovedStale(from, to) ==
  [lists EXCEPT ![from] = Tail(@), ![to] = Append(lists[to], Head(lists[from]))]
\* Store::lmove
Moved(from, to) ==
  LET popped == [lists EXCEPT ![from] = Tail(@)]
  IN [popped EXCEPT ![to] = Append(@, Head(lists[from]))]

\* A pop that finds something, for client c.
Take(c, cmd) ==
  LET k == Source(cmd)
      moves == cmd.op = "blmove"
  IN /\ IF WrongType(cmd) THEN UNCHANGED <<lists, dirty, got>>
        ELSE /\ lists' = IF moves THEN Moved(k, cmd.keys[2]) ELSE [lists EXCEPT ![k] = Tail(@)]
             /\ dirty' = TRUE
             /\ got' = got \cup {[client |-> c, key |-> k, value |-> Head(lists[k]),
                                  moved |-> moves]}
     /\ UNCHANGED <<strings, dropped, pushed>>

rpush(cmd) ==
  LET k == cmd.keys[1]
  IN IF k \in strings THEN UNCHANGED storeVars
     ELSE /\ lists' = [lists EXCEPT ![k] = @ \o [i \in 1..cmd.n |-> pushed + i]]
          /\ pushed' = pushed + cmd.n /\ dirty' = TRUE
          /\ UNCHANGED <<strings, got, dropped>>

\* SET replaces whatever the key holds; DEL removes it.
Replace(k, others) ==
  /\ lists' = [lists EXCEPT ![k] = <<>>] /\ dropped' = dropped \cup Elements(k)
  /\ strings' = others /\ dirty' = TRUE
  /\ UNCHANGED <<got, pushed>>

execute_command_into(c, cmd) ==
  LET k == cmd.keys[1]
  IN \/ cmd.op = "rpush" /\ rpush(cmd)
     \/ cmd.op = "set" /\ Replace(k, strings \cup {k})
     \/ cmd.op = "del" /\ IF Holds(k) THEN Replace(k, strings \ {k}) ELSE UNCHANGED storeVars
     \/ Pops(cmd) /\ IF Ready(cmd) THEN Take(c, cmd) ELSE UNCHANGED storeVars
-----------------------------------------------------------------------------
(* Sessions. *)

Answer(c, number) == answered' = [answered EXCEPT ![c] = Append(@, number)]

\* The number of the command at the head of c's input.
Number(c) == sent[c] - Len(inbox[c]) + 1

\* (mutant of Parked) the newest waiter comes first.
ParkedFirst(c) == <<c>> \o waiters
Parked(c) == Append(waiters, c)

park(c, cmd) ==
  IF Blocked(c) THEN UNCHANGED <<waiters, blocked, parked>>
  ELSE /\ blocked' = [blocked EXCEPT ![c] =
            [waits |-> TRUE, cmd |-> cmd, reply_to |-> Number(c), since |-> parked,
             deadline |-> IF cmd.timed THEN "ahead" ELSE "none"]]
       /\ waiters' = Parked(c) /\ parked' = parked + 1

\* (mutant of Unblocked) the input of a parked session is dispatched all the same.
UnblockedAlways(c) == TRUE
\* (mutant of Unblocked) nobody's input is dispatched while anybody waits.
UnblockedNobody(c) == waiters = <<>>
Unblocked(c) == ~Blocked(c)

\* process_buffered_commands and dispatch_resp_command, one command.
dispatch_resp_command(c) ==
  /\ pc = "idle" /\ c \notin gone
  /\ inbox[c] # <<>> /\ Unblocked(c)
  /\ LET cmd == Head(inbox[c])
     IN IF cmd.op = "exec"
        THEN /\ pc' = "exec" /\ cur' = c /\ rest' = cmd.body
             /\ UNCHANGED <<storeVars, answered, blocked, waiters, parked>>
        ELSE /\ pc' = "serve_ready" /\ UNCHANGED <<cur, rest>>
             /\ execute_command_into(c, cmd)
             /\ IF Blocking(cmd) /\ ~Ready(cmd)
                THEN park(c, cmd) /\ UNCHANGED answered
                ELSE Answer(c, Number(c)) /\ UNCHANGED <<blocked, waiters, parked>>
  /\ inbox' = [inbox EXCEPT ![c] = Tail(@)]
  /\ UNCHANGED <<index, sent, gone>>

\* execute_queued_transaction: nothing parks, a pop of an empty list answers null.
execute_queued_transaction ==
  /\ pc = "exec"
  /\ IF rest # <<>>
     THEN /\ execute_command_into(cur, Head(rest)) /\ rest' = Tail(rest)
          /\ UNCHANGED <<pc, answered>>
     ELSE /\ Answer(cur, sent[cur] - Len(inbox[cur])) /\ pc' = "serve_ready"
          /\ UNCHANGED <<rest, storeVars>>
  /\ UNCHANGED <<cur, index, waiters, blocked, parked, inbox, sent, gone>>
\* waiters_.erase
Erased(i) == [j \in 1..Len(waiters) - 1 |-> waiters[IF j < i THEN j ELSE j + 1]]
-----------------------------------------------------------------------------
(* serve_ready. *)

\* (mutant of deadline_due) a deadline alone does not start a scan.
deadline_never == FALSE
deadline_due == \E c \in Clients : Blocked(c) /\ blocked[c].deadline = "due"

StartScan == pc' = "scan" /\ index' = 1 /\ dirty' = FALSE
serve_ready ==
  /\ pc = "serve_ready"
  /\ IF dirty \/ deadline_due THEN StartScan ELSE pc' = "idle" /\ UNCHANGED <<index, dirty>>
  /\ UNCHANGED <<cur, rest, lists, strings, got, dropped, pushed, waiters, blocked, parked,
                 inbox, sent, answered, gone>>

\* network_iteration calls it before it polls.
network_iteration ==
  /\ pc = "idle"
  /\ IF dirty \/ deadline_due
     THEN /\ StartScan
          /\ UNCHANGED <<cur, rest, lists, strings, got, dropped, pushed, waiters, blocked,
                         parked, inbox, sent, answered, gone>>
     ELSE UNCHANGED vars

\* (mutant of AfterServed) the scan goes on where it was.
AfterServedHere(i) == i
\* A move may have made an older waiter ready.
AfterServed(i) == 1
AfterTimeout(i) == i

\* The waiter at index leaves with a reply.
Release(c) ==
  /\ Answer(c, blocked[c].reply_to)
  /\ blocked' = [blocked EXCEPT ![c] = NoRequest]
  /\ waiters' = Erased(index)

\* One round of the loop.
scan ==
  /\ pc = "scan" /\ index <= Len(waiters)
  /\ LET c == waiters[index]
         request == blocked[c]
     IN IF Ready(request.cmd)
        THEN Take(c, request.cmd) /\ Release(c) /\ index' = AfterServed(index)
        ELSE /\ UNCHANGED storeVars
             /\ IF request.deadline = "due"
                THEN Release(c) /\ index' = AfterTimeout(index)
                ELSE index' = index + 1 /\ UNCHANGED <<waiters, blocked, answered>>
  /\ UNCHANGED <<pc, cur, rest, parked, inbox, sent, gone>>

scan_ends ==
  /\ pc = "scan" /\ index > Len(waiters)
  /\ pc' = "idle" /\ index' = 1 /\ dirty' = FALSE
  /\ UNCHANGED <<cur, rest, lists, strings, got, dropped, pushed, waiters, blocked,
                 parked, inbox, sent, answered, gone>>
-----------------------------------------------------------------------------
(* Clients and time. *)

\* The thread reads what a client has sent.
Send(c) ==
  /\ pc = "idle" /\ c \notin gone /\ sent[c] < MaxSent[c]
  /\ \E cmd \in Sends[c] : inbox' = [inbox EXCEPT ![c] = Append(@, cmd)]
  /\ sent' = [sent EXCEPT ![c] = @ + 1]
  /\ UNCHANGED <<pc, cur, rest, index, storeVars, waiters, blocked, parked, answered, gone>>

Tick(c) ==
  /\ Blocked(c) /\ blocked[c].deadline = "ahead"
  /\ blocked' = [blocked EXCEPT ![c].deadline = "due"]
  /\ UNCHANGED <<pc, cur, rest, index, storeVars, waiters, parked, inbox, sent, answered, gone>>

\* (mutant of remove) the session is destroyed and its pointer stays.
remove_nothing(c) == UNCHANGED waiters /\ blocked' = [blocked EXCEPT ![c] = NoRequest]
remove(c) ==
  /\ waiters' = IF \E i \in DOMAIN waiters : waiters[i] = c
                THEN Erased(CHOOSE i \in DOMAIN waiters : waiters[i] = c)
                ELSE waiters
  /\ blocked' = [blocked EXCEPT ![c] = NoRequest]

\* The client disconnects, and network_iteration destroys its session.
close_client(c) ==
  /\ pc = "idle" /\ c \notin gone
  /\ remove(c)
  /\ gone' = gone \cup {c} /\ inbox' = [inbox EXCEPT ![c] = <<>>]
  /\ sent' = [sent EXCEPT ![c] = 0] /\ answered' = [answered EXCEPT ![c] = <<>>]
  /\ UNCHANGED <<pc, cur, rest, index, storeVars, parked>>

\* The sweep of expired keys; network_iteration serves afterwards.
active_expire(k) ==
  /\ pc = "idle" /\ Holds(k)
  /\ Replace(k, strings \ {k})
  /\ UNCHANGED <<pc, cur, rest, index, waiters, blocked, parked, inbox, sent, answered, gone>>

Next ==
  \/ \E c \in Clients : dispatch_resp_command(c) \/ Send(c) \/ Tick(c) \/ close_client(c)
  \/ \E k \in Keys : active_expire(k)
  \/ execute_queued_transaction \/ serve_ready \/ scan \/ scan_ends \/ network_iteration

\* The thread does not stop, it visits every client, and time passes.
Fairness ==
  /\ WF_vars(execute_queued_transaction) /\ WF_vars(serve_ready)
  /\ WF_vars(scan) /\ WF_vars(scan_ends) /\ WF_vars(network_iteration)
  /\ \A c \in Clients : WF_vars(Tick(c)) /\ WF_vars(dispatch_resp_command(c))
Spec == Init /\ [][Next]_vars /\ Fairness
-----------------------------------------------------------------------------
(* Properties. *)

\* The registry and the sessions agree: a session is in waiters_ once when it has a request
\* and never otherwise, in particular not after it was destroyed (park, remove).
WaitersAgree ==
  /\ \A i, j \in DOMAIN waiters : waiters[i] = waiters[j] => i = j
  /\ \A c \in Clients : Blocked(c) <=> \E i \in DOMAIN waiters : waiters[i] = c
  /\ \A c \in gone : ~Blocked(c)

\* Whenever the thread is ready for the next command, no session waits for a list that has
\* elements: no push, move, transaction or deadline leaves one behind (serve_ready).
NoneForgotten == pc = "idle" => \A c \in Clients : Blocked(c) => ~Ready(blocked[c].cmd)

\* Every element ever pushed is in one place: in a list, popped by one client, or deleted
\* with its key (Store::lmove, serve_ready).
Conserved ==
  \A v \in 1..pushed :
      Cardinality({at \in UNION {{k} \X DOMAIN lists[k] : k \in Keys} : lists[at[1]][at[2]] = v})
    + Cardinality({g \in got : g.value = v /\ ~g.moved})
    + Cardinality({v} \cap dropped) = 1

\* An element goes to a client only when nobody who has waited longer waits for that list,
\* whether the client was parked or asks just now; only a transaction may take back what it
\* pushed itself (serve_ready, dispatch_resp_command).
NoOvertaking ==
  [][pc # "exec" =>
       \A g \in got' \ got :
         \A c \in Clients \ {g.client} :
           /\ Blocked(c)
           /\ \E i \in Sources(blocked[c].cmd) : blocked[c].cmd.keys[i] = g.key
           => Blocked(g.client) /\ blocked[g.client].since < blocked[c].since]_vars

\* A client gets one reply to each command, in the order it sent them, also when one of
\* them waits (process_buffered_commands stops at blocked_list).
RepliesInOrder == \A c \in Clients : answered[c] = [i \in 1..Len(answered[c]) |-> i]

\* A command with a timeout is answered (deadline_due, clamp_poll_timeout).
TimedAnswered ==
  \A c \in Clients : (Blocked(c) /\ blocked[c].deadline # "none") ~> ~Blocked(c)

\* What a client has sent is executed, unless a command without a timeout holds it up or the
\* client leaves: the input behind a command that waited is picked up without new bytes
\* (network_iteration).
InputRuns ==
  \A c \in Clients :
    inbox[c] # <<>> ~> inbox[c] = <<>> \/ (Blocked(c) /\ blocked[c].deadline = "none")
=============================================================================
