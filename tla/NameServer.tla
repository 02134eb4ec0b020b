----------------------------- MODULE NameServer -----------------------------
(***************************************************************************)
(* The name server of user/src/name_server.cpp and the tasks that call     *)
(* REGISTERAS and WHOIS.                                                   *)
(*                                                                         *)
(* Send, Receive and Reply are those of Rendezvous.  A client is held from *)
(* its Send until it is answered, so the inbox needs to hold only the      *)
(* senders, and each Receive and each REPLY is a step of its own.          *)
(***************************************************************************)
EXTENDS Integers, Sequences, FiniteSets

CONSTANTS
  Clients,            \* the tids of the tasks that call
  Names,              \* the names that they pass
  LongNames,          \* those of MAX_NAME_LENGTH or more characters
  MAX_NAME_ENTRIES,   \* places in names (64)
  TidOfServer         \* what MYTID answers to the server

ASSUME NameServerAssumption ==
  /\ Clients \subseteq Nat /\ IsFiniteSet(Clients)
  /\ Names # {} /\ LongNames \subseteq Names
  /\ MAX_NAME_ENTRIES \in Nat
  /\ TidOfServer \in Nat

Nobody     == -1
Failure    == -1
NotStarted == -3
NoAnswer   == -2

VARIABLES
  NAME_SERVER_TID,    \* -1 until the server has run
  names,              \* the first name_count entries of the table
  inbox,              \* callers whose message has not been received, oldest first
  sender_tid,         \* the caller whose message is being processed, or Nobody
  reply,              \* the tid in the reply that it will be sent
  command,            \* the call that each client is in: "R", "W" or "none"
  about,              \* the name that it passed
  result              \* what its last call returned, or NoAnswer while it is in one

vars == <<NAME_SERVER_TID, names, inbox, sender_tid, reply, command, about, result>>

clientVars == <<command, about, result>>

Init ==
  /\ NAME_SERVER_TID = -1
  /\ names = <<>>
  /\ inbox = <<>>
  /\ sender_tid = Nobody
  /\ reply = Failure
  /\ command = [c \in Clients |-> "none"]
  /\ about = [c \in Clients |-> CHOOSE n \in Names : TRUE]
  /\ result = [c \in Clients |-> NoAnswer]

-----------------------------------------------------------------------------
(* The clients.                                                            *)

\* REGISTERAS ("R") or WHOIS ("W") sends its message.
Ask(c, cmd, n) ==
  /\ NAME_SERVER_TID # -1
  /\ command[c] = "none"
  /\ command' = [command EXCEPT ![c] = cmd]
  /\ about' = [about EXCEPT ![c] = n]
  /\ result' = [result EXCEPT ![c] = NoAnswer]
  /\ inbox' = Append(inbox, c)
  /\ UNCHANGED <<NAME_SERVER_TID, names, sender_tid, reply>>

\* Either call, before the server is known.
AskTooEarly(c) ==
  /\ NAME_SERVER_TID = -1
  /\ command[c] = "none"
  /\ result' = [result EXCEPT ![c] = NotStarted]
  /\ UNCHANGED <<NAME_SERVER_TID, names, inbox, sender_tid, reply, command, about>>

-----------------------------------------------------------------------------
(* The server.                                                             *)

Start ==
  /\ NAME_SERVER_TID = -1
  /\ NAME_SERVER_TID' = TidOfServer
  /\ UNCHANGED <<names, inbox, sender_tid, reply, clientVars>>

\* The next message is received; it is from c.
Receives(c) ==
  /\ NAME_SERVER_TID # -1
  /\ sender_tid = Nobody
  /\ inbox # <<>> /\ c = Head(inbox)
  /\ inbox' = Tail(inbox)

\* The message is longer than it may be: the server goes on to the next, and
\* nobody answers.
Discard(c) ==
  /\ Receives(c)
  /\ about[c] \in LongNames
  /\ UNCHANGED <<NAME_SERVER_TID, names, sender_tid, reply, clientVars>>

Processes(c, cmd) ==
  /\ Receives(c)
  /\ about[c] \notin LongNames
  /\ command[c] = cmd
  /\ sender_tid' = c

Matches(n) == {i \in DOMAIN names : names[i].name = n}

\* The first entry that strcmp finds.
IndexOf(n) == CHOOSE i \in Matches(n) : \A j \in Matches(n) : i <= j

\* Mutant: a name that is known stays with its first task.
RegisterKnownKeeps(c) ==
  /\ Processes(c, "R")
  /\ Matches(about[c]) # {}
  /\ reply' = Failure
  /\ UNCHANGED <<NAME_SERVER_TID, names, clientVars>>

\* A name that is known gets another task.  The reply that says so is a local
\* variable of this case; what is sent is still the failure.
RegisterKnown(c) ==
  /\ Processes(c, "R")
  /\ Matches(about[c]) # {}
  /\ names' = [names EXCEPT ![IndexOf(about[c])].tid = c]
  /\ reply' = Failure
  /\ UNCHANGED <<NAME_SERVER_TID, clientVars>>

\* A new name is entered, as above; a full table is answered with a tid of -1.
RegisterNew(c) ==
  /\ Processes(c, "R")
  /\ Matches(about[c]) = {}
  /\ names' = IF Len(names) >= MAX_NAME_ENTRIES THEN names
              ELSE Append(names, [name |-> about[c], tid |-> c])
  /\ reply' = Failure
  /\ UNCHANGED <<NAME_SERVER_TID, clientVars>>

WhoIs(c) ==
  /\ Processes(c, "W")
  /\ reply' = IF Matches(about[c]) = {} THEN Failure ELSE names[IndexOf(about[c])].tid
  /\ UNCHANGED <<NAME_SERVER_TID, names, clientVars>>

\* REPLY, and the call that was waiting for it returns.
Reply(c) ==
  /\ sender_tid = c
  /\ sender_tid' = Nobody
  /\ result' = [result EXCEPT ![c] = reply]
  /\ command' = [command EXCEPT ![c] = "none"]
  /\ UNCHANGED <<NAME_SERVER_TID, names, inbox, reply, about>>

Serve(c) == Discard(c) \/ RegisterKnown(c) \/ RegisterNew(c) \/ WhoIs(c) \/ Reply(c)

Server == Start \/ \E c \in Clients : Serve(c)

Next ==
  \/ Server
  \/ \E c \in Clients :
       \/ \E cmd \in {"R", "W"}, n \in Names : Ask(c, cmd, n)
       \/ AskTooEarly(c)

Spec == Init /\ [][Next]_vars

\* The server has the second highest priority, and only the timer's notifier is
\* above it.
Fairness == WF_vars(Server)

-----------------------------------------------------------------------------
(* Properties.                                                             *)

TypeOK ==
  /\ NAME_SERVER_TID \in {-1, TidOfServer}
  /\ names \in Seq([name : Names, tid : Clients])
  /\ Len(names) <= MAX_NAME_ENTRIES
  /\ inbox \in Seq(Clients)
  /\ sender_tid \in Clients \cup {Nobody}
  /\ reply \in Clients \cup {Failure}
  /\ command \in [Clients -> {"R", "W", "none"}]
  /\ about \in [Clients -> Names]
  /\ result \in [Clients -> Clients \cup {NoAnswer, Failure, NotStarted}]

\* No name is in the table twice: a name that were would keep its first task
\* for ever, whoever registers it later.
NamesDistinct == \A i, j \in DOMAIN names : names[i].name = names[j].name => i = j

Waiting(c) == \E i \in DOMAIN inbox : inbox[i] = c

\* Whoever is in the inbox or being served is in a call, and nobody twice.
CallersWait ==
  /\ \A i \in DOMAIN inbox : command[inbox[i]] # "none" /\ result[inbox[i]] = NoAnswer
  /\ \A i, j \in DOMAIN inbox : inbox[i] = inbox[j] => i = j
  /\ sender_tid # Nobody =>
       /\ ~Waiting(sender_tid)
       /\ command[sender_tid] # "none" /\ result[sender_tid] = NoAnswer

\* The directory that the server implements: a call takes effect when it is
\* received.
Entries == {names[i] : i \in DOMAIN names}

Value == [c \in Clients |-> IF sender_tid = c THEN reply ELSE NoAnswer]

Promise == INSTANCE Directory WITH
  ROOM <- MAX_NAME_ENTRIES, entries <- Entries, value <- Value

\* Whatever the order of the messages, WHOIS answers with the task that
\* registered the name last, and a registration is never lost to another while
\* there is room.
ImplementsDirectory == Promise!Spec

\* A caller is answered, unless the name is too long.
EveryCallAnswered ==
  \A c \in Clients :
    command[c] # "none" /\ about[c] \notin LongNames ~> command[c] = "none"
=============================================================================
