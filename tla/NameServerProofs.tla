-------------------------- MODULE NameServerProofs --------------------------
(***************************************************************************)
(* The name server for any number of tasks, names and places: no name is   *)
(* entered twice, and the server implements the directory.  Then the two   *)
(* servers of the console's tasks side by side, as MCConsole runs them.    *)
(***************************************************************************)
EXTENDS MCConsole, SequenceTheorems, FiniteSetTheorems, TLAPS

\* The entries are counted by name_count, because no name is among them twice.
EntriesCounted == IsFiniteSet(Entries) /\ Cardinality(Entries) = Len(names)

ServerInv == TypeOK /\ NamesDistinct /\ CallersWait /\ EntriesCounted

-----------------------------------------------------------------------------
(* The table.                                                              *)

\* A name that is in the table is found where it is.
LEMMA IndexFound ==
  ASSUME TypeOK, NamesDistinct, NEW n \in Names, Matches(n) # {}
  PROVE  /\ IndexOf(n) \in 1 .. Len(names)
         /\ names[IndexOf(n)].name = n
         /\ \A i \in DOMAIN names : names[i].name = n => i = IndexOf(n)
<1>1. DOMAIN names = 1 .. Len(names)
  BY DEF TypeOK
<1>2. PICK i \in Matches(n) : TRUE
  OBVIOUS
<1>3. \A j \in Matches(n) : j = i
  BY <1>2 DEF Matches, NamesDistinct
<1>4. i \in 1 .. Len(names) /\ names[i].name = n
  BY <1>1, <1>2 DEF Matches
<1>5. \E k \in Matches(n) : \A j \in Matches(n) : k <= j
  BY <1>1, <1>2, <1>3, <1>4
<1>6. IndexOf(n) \in Matches(n)
  BY <1>5 DEF IndexOf
<1> QED
  BY <1>3, <1>4, <1>6 DEF Matches

\* What the promise calls registered is what the server finds.
LEMMA RegisteredIsFound ==
  ASSUME TypeOK, NamesDistinct, NEW n \in Names
  PROVE  /\ Matches(n) = {} => Promise!Registered(n) = {}
         /\ Matches(n) # {} => Promise!Registered(n) = {names[IndexOf(n)]}
<1>1. CASE Matches(n) = {}
  BY <1>1 DEF Matches, Promise!Registered, Entries
<1>2. CASE Matches(n) # {}
  <2>1. /\ IndexOf(n) \in DOMAIN names
        /\ names[IndexOf(n)].name = n
        /\ \A i \in DOMAIN names : names[i].name = n => i = IndexOf(n)
    BY <1>2, IndexFound DEF TypeOK
  <2> QED
    BY <1>2, <2>1 DEF Promise!Registered, Entries
<1> QED
  BY <1>1, <1>2

\* An entry that gets another task stays the only one for its name.
LEMMA EntryReplaced ==
  ASSUME TypeOK, NamesDistinct, NEW c \in Clients, NEW n \in Names, Matches(n) # {},
         names' = [names EXCEPT ![IndexOf(n)].tid = c]
  PROVE  /\ names' \in Seq([name : Names, tid : Clients]) /\ Len(names') = Len(names)
         /\ NamesDistinct'
         /\ Entries' = (Entries \ {names[IndexOf(n)]}) \cup {[name |-> n, tid |-> c]}
         /\ names[IndexOf(n)] \in Entries
         /\ [name |-> n, tid |-> c] \notin Entries \ {names[IndexOf(n)]}
<1> DEFINE k == IndexOf(n)
<1> DEFINE E == [name : Names, tid : Clients]
<1>1. names \in Seq(E) /\ DOMAIN names = 1 .. Len(names)
  BY DEF TypeOK
<1>2. /\ k \in 1 .. Len(names)
      /\ names[k].name = n
      /\ \A i \in DOMAIN names : names[i].name = n => i = k
  BY IndexFound
<1>3. [names[k] EXCEPT !.tid = c] = [name |-> n, tid |-> c]
  <2>1. names[k] \in E
    <3> HIDE DEF E
    <3> QED
      BY <1>1, <1>2, ElementOfSeq
  <2>2. names[k] = [name |-> names[k].name, tid |-> names[k].tid]
    BY <2>1
  <2> QED
    BY <1>2, <2>2
<1> HIDE DEF k
<1>4. names' = [names EXCEPT ![k] = [name |-> n, tid |-> c]]
  BY <1>3 DEF k
<1>5. names' \in Seq(E) /\ Len(names') = Len(names) /\ DOMAIN names' = DOMAIN names
  <2> DEFINE e == [name |-> n, tid |-> c]
  <2>1. e \in E
    OBVIOUS
  <2>2. names' = [names EXCEPT ![k] = e]
    BY <1>4
  <2> HIDE DEF E, e
  <2>3. [names EXCEPT ![k] = e] \in Seq(E) /\ Len([names EXCEPT ![k] = e]) = Len(names)
    BY <1>1, <1>2, <2>1, ExceptSeq
  <2>4. names' \in Seq(E) /\ Len(names') = Len(names)
    BY <2>2, <2>3
  <2>5. DOMAIN names' = DOMAIN names
    BY <2>2
  <2> QED
    BY <2>4, <2>5
<1>6. \A i \in DOMAIN names : names'[i] = IF i = k THEN [name |-> n, tid |-> c] ELSE names[i]
  BY <1>1, <1>2, <1>4
<1>7. \A i \in DOMAIN names : names'[i].name = names[i].name
  BY <1>2, <1>6
<1>8. NamesDistinct'
  BY <1>5, <1>7 DEF NamesDistinct
<1>9. \A i \in DOMAIN names : i # k => names[i] # names[k]
  BY <1>1, <1>2
<1>10. Entries' = (Entries \ {names[k]}) \cup {[name |-> n, tid |-> c]}
  BY <1>1, <1>2, <1>5, <1>6, <1>9 DEF Entries
<1>11. names[k] \in Entries
  BY <1>1, <1>2 DEF Entries
<1>12. [name |-> n, tid |-> c] \notin Entries \ {names[k]}
  BY <1>1, <1>2 DEF Entries
<1> QED
  BY <1>5, <1>8, <1>10, <1>11, <1>12 DEF k

\* A new entry comes at the end.
LEMMA EntryAdded ==
  ASSUME TypeOK, NamesDistinct, NEW c \in Clients, NEW n \in Names, Matches(n) = {},
         names' = Append(names, [name |-> n, tid |-> c])
  PROVE  /\ names' \in Seq([name : Names, tid : Clients]) /\ Len(names') = Len(names) + 1
         /\ NamesDistinct'
         /\ Entries' = Entries \cup {[name |-> n, tid |-> c]}
         /\ [name |-> n, tid |-> c] \notin Entries
<1> DEFINE e == [name |-> n, tid |-> c]
<1> DEFINE E == [name : Names, tid : Clients]
<1>1. names \in Seq(E) /\ DOMAIN names = 1 .. Len(names) /\ Len(names) \in Nat
  BY DEF TypeOK
<1>2. \A i \in DOMAIN names : names[i].name # n
  BY DEF Matches
<1>3. e \in E /\ e.name = n
  OBVIOUS
<1> HIDE DEF e
<1>4. /\ names' \in Seq(E) /\ Len(names') = Len(names) + 1
      /\ DOMAIN names' = 1 .. Len(names) + 1
      /\ \A i \in 1 .. Len(names) : names'[i] = names[i]
      /\ names'[Len(names) + 1] = e
  BY <1>1, <1>3 DEF e
<1>5. NamesDistinct'
  BY <1>1, <1>2, <1>3, <1>4 DEF NamesDistinct
<1>6. Entries' = Entries \cup {e}
  <2>1. \A i \in 1 .. Len(names) + 1 : i \in 1 .. Len(names) \/ i = Len(names) + 1
    BY <1>1
  <2>2. \A i \in 1 .. Len(names) : i \in 1 .. Len(names) + 1
    BY <1>1
  <2>3. Len(names) + 1 \in 1 .. Len(names) + 1
    BY <1>1
  <2> QED
    BY <1>1, <1>4, <2>1, <2>2, <2>3 DEF Entries
<1>7. e \notin Entries
  BY <1>2, <1>3 DEF Entries
<1> QED
  BY <1>4, <1>5, <1>6, <1>7 DEF e

-----------------------------------------------------------------------------
(* The inbox.                                                              *)

\* Whoever asks joins the inbox.
LEMMA InboxGrows ==
  ASSUME ServerInv, NEW c \in Clients, command[c] = "none",
         inbox' = Append(inbox, c), UNCHANGED sender_tid,
         NEW cmd \in {"R", "W"}, command' = [command EXCEPT ![c] = cmd],
         result' = [result EXCEPT ![c] = NoAnswer]
  PROVE  inbox' \in Seq(Clients) /\ CallersWait'
<1>1. inbox \in Seq(Clients) /\ DOMAIN inbox = 1 .. Len(inbox) /\ Len(inbox) \in Nat
  BY DEF ServerInv, TypeOK
<1>2. /\ inbox' \in Seq(Clients) /\ DOMAIN inbox' = 1 .. Len(inbox) + 1
      /\ \A i \in 1 .. Len(inbox) : inbox'[i] = inbox[i]
      /\ inbox'[Len(inbox) + 1] = c
  BY <1>1
<1>3. \A i \in 1 .. Len(inbox) : inbox[i] # c /\ inbox[i] \in Clients
  BY <1>1 DEF ServerInv, CallersWait
<1>4. sender_tid # c \/ sender_tid = Nobody
  BY DEF ServerInv, CallersWait
<1>5. /\ command'[c] = cmd /\ result'[c] = NoAnswer
      /\ \A d \in Clients : d # c => command'[d] = command[d] /\ result'[d] = result[d]
  BY DEF ServerInv, TypeOK
<1>6. \A i \in DOMAIN inbox' : i \in 1 .. Len(inbox) \/ inbox'[i] = c
  BY <1>1, <1>2
<1>7. \A i \in DOMAIN inbox' : command'[inbox'[i]] # "none" /\ result'[inbox'[i]] = NoAnswer
  BY <1>1, <1>2, <1>3, <1>5, <1>6 DEF ServerInv, CallersWait
<1>8. \A i, j \in DOMAIN inbox' : inbox'[i] = inbox'[j] => i = j
  BY <1>1, <1>2, <1>3 DEF ServerInv, CallersWait
<1>9. sender_tid # Nobody => sender_tid \in Clients /\ sender_tid # c
  <2>1. c # Nobody
    BY NameServerAssumption DEF Nobody
  <2> QED
    BY <1>4, <2>1 DEF ServerInv, TypeOK
<1>10. sender_tid # Nobody => ~Waiting(sender_tid)'
  BY <1>1, <1>2, <1>6, <1>9 DEF ServerInv, CallersWait, Waiting
<1> QED
  BY <1>2, <1>5, <1>7, <1>8, <1>9, <1>10 DEF ServerInv, CallersWait

\* Whoever is received leaves it, and is not in it any more.
LEMMA InboxShrinks ==
  ASSUME ServerInv, NEW c, Receives(c)
  PROVE  /\ c \in Clients /\ command[c] # "none" /\ result[c] = NoAnswer
         /\ inbox' \in Seq(Clients)
         /\ \A i \in DOMAIN inbox' : inbox'[i] # c /\ \E j \in DOMAIN inbox : inbox'[i] = inbox[j]
         /\ \A i, j \in DOMAIN inbox' : inbox'[i] = inbox'[j] => i = j
<1>1. /\ inbox \in Seq(Clients) /\ DOMAIN inbox = 1 .. Len(inbox) /\ Len(inbox) \in Nat
      /\ inbox # <<>> /\ c = Head(inbox) /\ inbox' = Tail(inbox)
  BY DEF ServerInv, TypeOK, Receives
<1>2. Len(inbox) > 0 /\ c = inbox[1] /\ 1 \in DOMAIN inbox
  BY <1>1
<1>3. /\ inbox' \in Seq(Clients) /\ DOMAIN inbox' = 1 .. Len(inbox) - 1
      /\ \A i \in 1 .. Len(inbox) - 1 : inbox'[i] = inbox[i + 1] /\ i + 1 \in DOMAIN inbox
  BY <1>1, <1>2
<1>4. \A i, j \in DOMAIN inbox : inbox[i] = inbox[j] => i = j
  BY DEF ServerInv, CallersWait
<1>5. c \in Clients /\ command[c] # "none" /\ result[c] = NoAnswer
  BY <1>1, <1>2 DEF ServerInv, CallersWait
<1>6. \A i \in DOMAIN inbox' : inbox'[i] # c /\ \E j \in DOMAIN inbox : inbox'[i] = inbox[j]
  BY <1>1, <1>2, <1>3, <1>4
<1>7. \A i, j \in DOMAIN inbox' : inbox'[i] = inbox'[j] => i = j
  BY <1>1, <1>3, <1>4
<1> QED
  BY <1>3, <1>5, <1>6, <1>7

\* Once it has been received it is served, or discarded.
LEMMA CallersStillWait ==
  ASSUME ServerInv, NEW c, Receives(c), sender_tid' \in {Nobody, c}, UNCHANGED clientVars
  PROVE  CallersWait'
<1>1. /\ c \in Clients /\ command[c] # "none" /\ result[c] = NoAnswer
      /\ \A i \in DOMAIN inbox' : inbox'[i] # c /\ \E j \in DOMAIN inbox : inbox'[i] = inbox[j]
      /\ \A i, j \in DOMAIN inbox' : inbox'[i] = inbox'[j] => i = j
  BY InboxShrinks
<1>2. \A i \in DOMAIN inbox : command[inbox[i]] # "none" /\ result[inbox[i]] = NoAnswer
  BY DEF ServerInv, CallersWait
<1>3. \A i \in DOMAIN inbox' : command'[inbox'[i]] # "none" /\ result'[inbox'[i]] = NoAnswer
  BY <1>1, <1>2 DEF clientVars
<1> QED
  BY <1>1, <1>3 DEF CallersWait, Waiting, clientVars

-----------------------------------------------------------------------------
(* The invariant.                                                          *)

LEMMA ServerInvInit == Init => ServerInv
<1> SUFFICES ASSUME Init PROVE ServerInv
  OBVIOUS
<1>1. \A c \in Clients : about[c] \in Names
  BY NameServerAssumption DEF Init
<1>2. TypeOK
  BY <1>1, NameServerAssumption DEF Init, TypeOK, Nobody, Failure, NoAnswer
<1>3. NamesDistinct /\ CallersWait
  BY DEF Init, NamesDistinct, CallersWait, Nobody
<1>4. Entries = {} /\ Len(names) = 0
  BY DEF Init, Entries
<1>5. EntriesCounted
  BY <1>4, FS_EmptySet DEF EntriesCounted
<1> QED
  BY <1>2, <1>3, <1>5 DEF ServerInv

\* Steps that leave the table as it is.
LEMMA TableKept ==
  ASSUME ServerInv, UNCHANGED names
  PROVE  NamesDistinct' /\ EntriesCounted'
BY DEF ServerInv, NamesDistinct, EntriesCounted, Entries

LEMMA AskPreserves ==
  ASSUME ServerInv, NEW c \in Clients, NEW cmd \in {"R", "W"}, NEW n \in Names, Ask(c, cmd, n)
  PROVE  ServerInv'
<1>1. inbox' \in Seq(Clients) /\ CallersWait'
  BY InboxGrows DEF Ask
<1>2. TypeOK'
  BY <1>1 DEF Ask, ServerInv, TypeOK
<1>3. NamesDistinct' /\ EntriesCounted'
  BY TableKept DEF Ask
<1> QED
  BY <1>1, <1>2, <1>3 DEF ServerInv

\* As long as there is no server there is nobody in the inbox whose call could
\* be spoilt: whoever calls too early is in no call.
LEMMA AskTooEarlyPreserves ==
  ASSUME ServerInv, NEW c \in Clients, AskTooEarly(c)
  PROVE  ServerInv'
<1>1. TypeOK'
  BY DEF AskTooEarly, ServerInv, TypeOK
<1>2. \A d \in Clients : d # c => result'[d] = result[d]
  BY DEF AskTooEarly, ServerInv, TypeOK
<1>3. CallersWait'
  <2>1. \A i \in DOMAIN inbox : inbox[i] # c /\ inbox[i] \in Clients
    BY DEF AskTooEarly, ServerInv, CallersWait, TypeOK
  <2>2. sender_tid # Nobody => sender_tid # c /\ sender_tid \in Clients
    BY DEF AskTooEarly, ServerInv, CallersWait, TypeOK
  <2> QED
    BY <1>2, <2>1, <2>2 DEF AskTooEarly, ServerInv, CallersWait, Waiting
<1>4. NamesDistinct' /\ EntriesCounted'
  BY TableKept DEF AskTooEarly
<1> QED
  BY <1>1, <1>3, <1>4 DEF ServerInv

LEMMA StartPreserves ==
  ASSUME ServerInv, Start
  PROVE  ServerInv'
BY DEF Start, clientVars, ServerInv, TypeOK, NamesDistinct, EntriesCounted, Entries,
       CallersWait, Waiting

LEMMA DiscardPreserves ==
  ASSUME ServerInv, NEW c, Discard(c)
  PROVE  ServerInv'
<1>1. inbox' \in Seq(Clients)
  BY InboxShrinks DEF Discard
<1>2. CallersWait'
  BY CallersStillWait DEF Discard, Receives
<1>3. TypeOK'
  BY <1>1 DEF Discard, clientVars, ServerInv, TypeOK
<1>4. NamesDistinct' /\ EntriesCounted'
  BY TableKept DEF Discard
<1> QED
  BY <1>2, <1>3, <1>4 DEF ServerInv

\* What the steps that process a call have in common.
LEMMA ProcessesKeeps ==
  ASSUME ServerInv, NEW c, NEW cmd \in {"R", "W"}, Processes(c, cmd), UNCHANGED clientVars
  PROVE  /\ inbox' \in Seq(Clients) /\ sender_tid' \in Clients
         /\ c \in Clients /\ about[c] \in Names /\ sender_tid = Nobody /\ sender_tid' = c
         /\ CallersWait'
<1>1. Receives(c) /\ sender_tid' = c /\ sender_tid = Nobody
  BY DEF Processes, Receives
<1>2. inbox' \in Seq(Clients) /\ c \in Clients
  BY <1>1, InboxShrinks
<1>3. CallersWait'
  BY <1>1, CallersStillWait
<1> QED
  BY <1>1, <1>2, <1>3 DEF ServerInv, TypeOK

LEMMA RegisterKnownPreserves ==
  ASSUME ServerInv, NEW c, RegisterKnown(c)
  PROVE  ServerInv'
<1>1. /\ inbox' \in Seq(Clients) /\ sender_tid' \in Clients
      /\ c \in Clients /\ about[c] \in Names /\ CallersWait'
  BY ProcessesKeeps DEF RegisterKnown
<1> DEFINE n == about[c]
           old == names[IndexOf(n)]
           new == [name |-> n, tid |-> c]
<1>2. /\ names' \in Seq([name : Names, tid : Clients]) /\ Len(names') = Len(names)
      /\ NamesDistinct'
      /\ Entries' = (Entries \ {old}) \cup {new}
      /\ old \in Entries
      /\ new \notin Entries \ {old}
  BY <1>1, EntryReplaced DEF RegisterKnown, ServerInv
<1>3. TypeOK'
  BY <1>1, <1>2 DEF RegisterKnown, clientVars, ServerInv, TypeOK
<1>4. EntriesCounted'
  <2> HIDE DEF old, new
  <2>1. IsFiniteSet(Entries) /\ Cardinality(Entries) = Len(names) /\ Len(names) \in Nat
    BY DEF ServerInv, EntriesCounted, TypeOK
  <2>2. IsFiniteSet(Entries \ {old}) /\ Cardinality(Entries \ {old}) = Len(names) - 1
    BY <1>2, <2>1, FS_RemoveElement
  <2>3. /\ IsFiniteSet((Entries \ {old}) \cup {new})
        /\ Cardinality((Entries \ {old}) \cup {new}) = Len(names) - 1 + 1
    BY <1>2, <2>2, FS_AddElement
  <2> QED
    BY <1>2, <2>1, <2>3 DEF EntriesCounted
<1> QED
  BY <1>1, <1>2, <1>3, <1>4 DEF ServerInv

LEMMA RegisterNewPreserves ==
  ASSUME ServerInv, NEW c, RegisterNew(c)
  PROVE  ServerInv'
<1>1. /\ inbox' \in Seq(Clients) /\ sender_tid' \in Clients
      /\ c \in Clients /\ about[c] \in Names /\ CallersWait'
  BY ProcessesKeeps DEF RegisterNew
<1>2. CASE Len(names) >= MAX_NAME_ENTRIES
  <2>1. names' = names
    BY <1>2 DEF RegisterNew
  <2>2. TypeOK'
    BY <1>1, <2>1 DEF RegisterNew, clientVars, ServerInv, TypeOK
  <2> QED
    BY <1>1, <2>1, <2>2, TableKept DEF ServerInv
<1>3. CASE ~(Len(names) >= MAX_NAME_ENTRIES)
  <2> DEFINE new == [name |-> about[c], tid |-> c]
  <2>1. names' = Append(names, new)
    BY <1>3 DEF RegisterNew
  <2>2. /\ names' \in Seq([name : Names, tid : Clients]) /\ Len(names') = Len(names) + 1
        /\ NamesDistinct'
        /\ Entries' = Entries \cup {new}
        /\ new \notin Entries
    BY <1>1, <2>1, EntryAdded DEF RegisterNew, ServerInv
  <2>3. Len(names) \in Nat
    BY DEF ServerInv, TypeOK
  <2>4. Len(names') <= MAX_NAME_ENTRIES
    BY <1>3, <2>2, <2>3, NameServerAssumption
  <2>5. TypeOK'
    BY <1>1, <2>2, <2>4 DEF RegisterNew, clientVars, ServerInv, TypeOK
  <2>6. EntriesCounted'
    <3> HIDE DEF new
    <3> QED
      BY <2>2, <2>3, FS_AddElement DEF ServerInv, EntriesCounted
  <2> QED
    BY <1>1, <2>2, <2>5, <2>6 DEF ServerInv
<1> QED
  BY <1>2, <1>3

LEMMA WhoIsPreserves ==
  ASSUME ServerInv, NEW c, WhoIs(c)
  PROVE  ServerInv'
<1>1. /\ inbox' \in Seq(Clients) /\ sender_tid' \in Clients
      /\ c \in Clients /\ about[c] \in Names /\ CallersWait'
  BY ProcessesKeeps DEF WhoIs
<1>2. reply' \in Clients \cup {Failure}
  <2>1. CASE Matches(about[c]) = {}
    BY <2>1 DEF WhoIs
  <2>2. CASE Matches(about[c]) # {}
    <3> DEFINE E == [name : Names, tid : Clients]
    <3>1. IndexOf(about[c]) \in 1 .. Len(names) /\ names \in Seq(E)
      BY <1>1, <2>2, IndexFound DEF ServerInv, TypeOK
    <3>2. names[IndexOf(about[c])] \in E
      <4> HIDE DEF E
      <4> QED
        BY <3>1, ElementOfSeq
    <3> QED
      BY <2>2, <3>2 DEF WhoIs
  <2> QED
    BY <2>1, <2>2
<1>3. TypeOK'
  BY <1>1, <1>2 DEF WhoIs, clientVars, ServerInv, TypeOK
<1>4. NamesDistinct' /\ EntriesCounted'
  BY TableKept DEF WhoIs
<1> QED
  BY <1>1, <1>3, <1>4 DEF ServerInv

LEMMA ReplyPreserves ==
  ASSUME ServerInv, NEW c \in Clients, Reply(c)
  PROVE  ServerInv'
<1>1. c # Nobody /\ sender_tid = c
  BY NameServerAssumption DEF Nobody, Reply
<1>2. ~Waiting(c)
  BY <1>1 DEF ServerInv, CallersWait
<1>3. TypeOK'
  BY DEF Reply, ServerInv, TypeOK
<1>4. \A d \in Clients : d # c => command'[d] = command[d] /\ result'[d] = result[d]
  BY DEF Reply, ServerInv, TypeOK
<1>5. CallersWait'
  <2>1. \A i \in DOMAIN inbox : inbox[i] # c /\ inbox[i] \in Clients
    BY <1>2 DEF Waiting, ServerInv, TypeOK
  <2> QED
    BY <1>4, <2>1 DEF Reply, ServerInv, CallersWait
<1>6. NamesDistinct' /\ EntriesCounted'
  BY TableKept DEF Reply
<1> QED
  BY <1>3, <1>5, <1>6 DEF ServerInv

LEMMA ServerInvStep == ServerInv /\ [Next]_vars => ServerInv'
<1> SUFFICES ASSUME ServerInv, [Next]_vars PROVE ServerInv'
  OBVIOUS
<1>1. ASSUME NEW c \in Clients, NEW cmd \in {"R", "W"}, NEW n \in Names, Ask(c, cmd, n)
      PROVE  ServerInv'
  BY <1>1, AskPreserves
<1>2. ASSUME NEW c \in Clients, AskTooEarly(c) PROVE ServerInv'
  BY <1>2, AskTooEarlyPreserves
<1>3. CASE Start
  BY <1>3, StartPreserves
<1>4. ASSUME NEW c \in Clients, Discard(c) PROVE ServerInv'
  BY <1>4, DiscardPreserves
<1>5. ASSUME NEW c \in Clients, RegisterKnown(c) PROVE ServerInv'
  BY <1>5, RegisterKnownPreserves
<1>6. ASSUME NEW c \in Clients, RegisterNew(c) PROVE ServerInv'
  BY <1>6, RegisterNewPreserves
<1>7. ASSUME NEW c \in Clients, WhoIs(c) PROVE ServerInv'
  BY <1>7, WhoIsPreserves
<1>8. ASSUME NEW c \in Clients, Reply(c) PROVE ServerInv'
  BY <1>8, ReplyPreserves
<1>9. CASE UNCHANGED vars
  BY <1>9 DEF vars, ServerInv, TypeOK, NamesDistinct, EntriesCounted, Entries, CallersWait, Waiting
<1> QED
  BY <1>1, <1>2, <1>3, <1>4, <1>5, <1>6, <1>7, <1>8, <1>9 DEF Next, Server, Serve

\* The server's data keeps its shape, no name is entered twice, and a caller
\* stands in one place at a time.
THEOREM ServerInvariant == Spec => []ServerInv
<1>1. Init => ServerInv
  BY ServerInvInit
<1>2. ServerInv /\ [Next]_vars => ServerInv'
  BY ServerInvStep
<1> QED
  BY <1>1, <1>2, PTL DEF Spec

-----------------------------------------------------------------------------
(* The server implements the directory.                                    *)

\* The table has room when the directory has.
LEMMA RoomForOneMore ==
  ASSUME ServerInv
  PROVE  Cardinality(Entries) < MAX_NAME_ENTRIES <=> ~(Len(names) >= MAX_NAME_ENTRIES)
BY NameServerAssumption DEF ServerInv, TypeOK, EntriesCounted

\* The directory counts as the server does.
LEMMA CountedAlike == Promise!Cardinality(Entries) = Cardinality(Entries)
BY Zenon DEF Promise!Cardinality, Cardinality

\* Who is not being served has no answer yet; who comes to be served gets one.
LEMMA ValueTaken ==
  ASSUME NEW c \in Clients, sender_tid = Nobody, sender_tid' = c
  PROVE  Value[c] = NoAnswer /\ Value' = [Value EXCEPT ![c] = reply']
<1>1. \A d \in Clients : d # Nobody
  BY NameServerAssumption DEF Nobody
<1> QED
  BY <1>1 DEF Value

LEMMA AskIsAsk ==
  ASSUME NEW c \in Clients, NEW cmd \in {"R", "W"}, NEW n \in Names, Ask(c, cmd, n)
  PROVE  Promise!Ask(c, cmd, n)
BY DEF Ask, Promise!Ask, Entries, Value, NoAnswer, Promise!NoAnswer

LEMMA AskTooEarlyIsTooEarly ==
  ASSUME NEW c \in Clients, AskTooEarly(c)
  PROVE  Promise!TooEarly(c)
BY DEF AskTooEarly, Promise!TooEarly, Entries, Value, NotStarted, Promise!NotRunning

LEMMA RegisterKnownIsRegister ==
  ASSUME ServerInv, NEW c, RegisterKnown(c)
  PROVE  c \in Clients /\ Promise!Register(c)
<1>1. /\ c \in Clients /\ about[c] \in Names
      /\ sender_tid = Nobody /\ sender_tid' = c /\ reply' = Failure
  BY ProcessesKeeps DEF RegisterKnown
<1>2. Value[c] = NoAnswer /\ Value' = [Value EXCEPT ![c] = Failure]
  BY <1>1, ValueTaken
<1>3. Entries' = (Entries \ {names[IndexOf(about[c])]}) \cup {[name |-> about[c], tid |-> c]}
  BY <1>1, EntryReplaced DEF RegisterKnown, ServerInv
<1>4. Promise!Registered(about[c]) = {names[IndexOf(about[c])]}
  BY <1>1, RegisteredIsFound DEF RegisterKnown, ServerInv
<1>5. command[c] = "R" /\ UNCHANGED clientVars
  BY DEF RegisterKnown, Processes
<1> HIDE DEF Entries, Value
<1> QED
  BY <1>1, <1>2, <1>3, <1>4, <1>5
  DEF Promise!Register, Promise!Entry, Promise!NoAnswer, Promise!Unknown, NoAnswer, Failure, clientVars

LEMMA RegisterNewIsRegister ==
  ASSUME ServerInv, NEW c, RegisterNew(c)
  PROVE  c \in Clients /\ Promise!Register(c)
<1>1. /\ c \in Clients /\ about[c] \in Names
      /\ sender_tid = Nobody /\ sender_tid' = c /\ reply' = Failure
  BY ProcessesKeeps DEF RegisterNew
<1>2. Value[c] = NoAnswer /\ Value' = [Value EXCEPT ![c] = Failure]
  BY <1>1, ValueTaken
<1>3. Promise!Registered(about[c]) = {}
  BY <1>1, RegisteredIsFound DEF RegisterNew, ServerInv
<1>4. command[c] = "R" /\ UNCHANGED clientVars
  BY DEF RegisterNew, Processes
<1>5. CASE Len(names) >= MAX_NAME_ENTRIES
  <2>1. Entries' = Entries /\ ~(Cardinality(Entries) < MAX_NAME_ENTRIES)
    BY <1>5, RoomForOneMore DEF RegisterNew, Entries
  <2>2. ~(Promise!Registered(about[c]) # {} \/ Cardinality(Entries) < MAX_NAME_ENTRIES)
    BY <1>3, <2>1
  <2> QED
    BY <1>1, <1>2, <1>4, <2>1, <2>2, CountedAlike
    DEF Promise!Register, Promise!NoAnswer, Promise!Unknown, NoAnswer, Failure, clientVars
<1>6. CASE ~(Len(names) >= MAX_NAME_ENTRIES)
  <2>1. Entries' = Entries \cup {[name |-> about[c], tid |-> c]}
    BY <1>1, <1>6, EntryAdded DEF RegisterNew, ServerInv
  <2>2. Cardinality(Entries) < MAX_NAME_ENTRIES
    BY <1>6, RoomForOneMore
  <2>3. Entries' = (Entries \ Promise!Registered(about[c])) \cup {Promise!Entry(about[c], c)}
    BY <1>3, <2>1 DEF Promise!Entry
  <2> QED
    BY <1>1, <1>2, <1>4, <2>2, <2>3, CountedAlike
    DEF Promise!Register, Promise!NoAnswer, Promise!Unknown, NoAnswer, Failure, clientVars
<1> QED
  BY <1>5, <1>6

LEMMA WhoIsIsLookUp ==
  ASSUME ServerInv, NEW c, WhoIs(c)
  PROVE  c \in Clients /\ Promise!LookUp(c)
<1>1. /\ c \in Clients /\ about[c] \in Names
      /\ sender_tid = Nobody /\ sender_tid' = c
  BY ProcessesKeeps DEF WhoIs
<1>2. Value[c] = NoAnswer /\ Value' = [Value EXCEPT ![c] = reply']
  BY <1>1, ValueTaken
<1>3. command[c] = "W" /\ UNCHANGED clientVars /\ Entries' = Entries
  BY DEF WhoIs, Processes, Entries
<1>4. /\ reply' \in Clients \cup {Failure}
      /\ IF Promise!Registered(about[c]) = {} THEN reply' = Failure
         ELSE Promise!Entry(about[c], reply') \in Entries
  <2>1. CASE Matches(about[c]) = {}
    BY <1>1, <2>1, RegisteredIsFound DEF WhoIs, ServerInv
  <2>2. CASE Matches(about[c]) # {}
    <3> DEFINE e == names[IndexOf(about[c])]
               E == [name : Names, tid : Clients]
    <3>1. /\ IndexOf(about[c]) \in 1 .. Len(names) /\ names \in Seq(E)
          /\ e.name = about[c]
      BY <1>1, <2>2, IndexFound DEF ServerInv, TypeOK
    <3>2. e \in E
      <4> HIDE DEF E
      <4> QED
        BY <3>1, ElementOfSeq
    <3>3. e \in Entries
      BY <3>1 DEF Entries
    <3>4. reply' = e.tid
      BY <2>2 DEF WhoIs
    <3>5. Promise!Registered(about[c]) = {e}
      BY <1>1, <2>2, RegisteredIsFound DEF ServerInv
    <3>6. Promise!Entry(about[c], reply') = e
      BY <3>1, <3>2, <3>4 DEF Promise!Entry
    <3> QED
      BY <3>2, <3>3, <3>4, <3>5, <3>6
  <2> QED
    BY <2>1, <2>2
<1> QED
  BY <1>1, <1>2, <1>3, <1>4
  DEF Promise!LookUp, Promise!NoAnswer, Promise!Unknown, NoAnswer, Failure, clientVars

LEMMA ReplyIsAnswer ==
  ASSUME ServerInv, NEW c \in Clients, Reply(c)
  PROVE  Promise!Answer(c)
<1>1. \A d \in Clients : d # Nobody /\ d # NoAnswer
  BY NameServerAssumption DEF Nobody, NoAnswer
<1>2. sender_tid = c /\ sender_tid' = Nobody
  BY DEF Reply
<1>3. command[c] # "none"
  BY <1>1, <1>2 DEF ServerInv, CallersWait
<1>4. reply # NoAnswer
  BY <1>1 DEF ServerInv, TypeOK, Failure, NoAnswer
<1>5. Value[c] = reply /\ Value' = [Value EXCEPT ![c] = NoAnswer]
  BY <1>1, <1>2 DEF Value
<1> QED
  BY <1>3, <1>4, <1>5 DEF Reply, Promise!Answer, Promise!NoAnswer, NoAnswer, Entries

\* Every step of the server and its clients is a step of the directory or none.
LEMMA StepRefines == ServerInv /\ [Next]_vars => [Promise!Next]_(Promise!vars)
<1> SUFFICES ASSUME ServerInv, [Next]_vars PROVE [Promise!Next]_(Promise!vars)
  OBVIOUS
<1>1. ASSUME NEW c \in Clients, NEW cmd \in {"R", "W"}, NEW n \in Names, Ask(c, cmd, n)
      PROVE  Promise!Next
  BY <1>1, AskIsAsk DEF Promise!Next
<1>2. ASSUME NEW c \in Clients, AskTooEarly(c) PROVE Promise!Next
  BY <1>2, AskTooEarlyIsTooEarly DEF Promise!Next
<1>3. CASE Start
  BY <1>3 DEF Start, clientVars, Promise!vars, Entries, Value
<1>4. ASSUME NEW c \in Clients, Discard(c) PROVE UNCHANGED Promise!vars
  BY <1>4 DEF Discard, clientVars, Promise!vars, Entries, Value
<1>5. ASSUME NEW c \in Clients, RegisterKnown(c) PROVE Promise!Next
  BY <1>5, RegisterKnownIsRegister DEF Promise!Next
<1>6. ASSUME NEW c \in Clients, RegisterNew(c) PROVE Promise!Next
  BY <1>6, RegisterNewIsRegister DEF Promise!Next
<1>7. ASSUME NEW c \in Clients, WhoIs(c) PROVE Promise!Next
  BY <1>7, WhoIsIsLookUp DEF Promise!Next
<1>8. ASSUME NEW c \in Clients, Reply(c) PROVE Promise!Next
  BY <1>8, ReplyIsAnswer DEF Promise!Next
<1>9. CASE UNCHANGED vars
  BY <1>9 DEF vars, Promise!vars, Entries, Value
<1> QED
  BY <1>1, <1>2, <1>3, <1>4, <1>5, <1>6, <1>7, <1>8, <1>9 DEF Next, Server, Serve

LEMMA InitRefines == Init => Promise!Init
<1>1. \A c \in Clients : c # Nobody
  BY NameServerAssumption DEF Nobody
<1> QED
  BY <1>1 DEF Init, Promise!Init, Entries, Value, NoAnswer, Promise!NoAnswer

\* WHOIS answers with the task that registered the name last, whatever the order
\* of the messages and however many clients, names and places there are; and a
\* registration is lost only when there is no room.
THEOREM DirectoryImplemented == Spec => ImplementsDirectory
<1>1. Init => Promise!Init
  BY InitRefines
<1>2. ServerInv /\ [Next]_vars => [Promise!Next]_(Promise!vars)
  BY StepRefines
<1> QED
  BY <1>1, <1>2, ServerInvariant, PTL DEF Spec, ImplementsDirectory, Promise!Spec

-----------------------------------------------------------------------------
(* The two servers in the settings of MCConsole: the theorems about the    *)
(* console server hold in each of them, and neither server disturbs the    *)
(* other.                                                                  *)

PrintingProofs == INSTANCE IOServerProofs WITH
  Writers <- {"ui", "clock"}, Readers <- {"prompt"}, Texts <- {<<1, 2, 3>>, <<4>>}, Keys <- {7},
  inbox <- requests, RxNotifier <- "rx", TxNotifier <- "tx", MAX_QUEUE_SIZE <- 3, RECEIVE_SIZE <- 1,
  WAITING_SIZE <- 1, FIFO_SIZE <- 1, MaxTexts <- 3, MaxKeys <- 1

ReadingProofs == INSTANCE IOServerProofs WITH
  Writers <- {"ui"}, Readers <- {"prompt", "game"}, Texts <- {<<1, 2>>}, Keys <- {7, 8},
  inbox <- requests, RxNotifier <- "rx", TxNotifier <- "tx", MAX_QUEUE_SIZE <- 2, RECEIVE_SIZE <- 2,
  WAITING_SIZE <- 2, FIFO_SIZE <- 2, MaxTexts <- 1, MaxKeys <- 3

CrowdedProofs == INSTANCE IOServerProofs WITH
  Writers <- {}, Readers <- {"prompt", "game", "test"}, Texts <- {}, Keys <- {7, 8},
  inbox <- requests, RxNotifier <- "rx", TxNotifier <- "tx", MAX_QUEUE_SIZE <- 2, RECEIVE_SIZE <- 1,
  WAITING_SIZE <- 2, FIFO_SIZE <- 2, MaxTexts <- 0, MaxKeys <- 3

\* The settings name the same specification as the theorems.
LEMMA PrintingSame ==
  /\ PrintingProofs!IOAssumption
  /\ Printing!Next => [PrintingProofs!Next]_PrintingProofs!vars
  /\ Printing!Init => PrintingProofs!Init
  /\ UNCHANGED io => UNCHANGED PrintingProofs!vars
<1>1. PrintingProofs!IOAssumption
  BY SettingsAreLegal DEF Printing!IOAssumption, PrintingProofs!IOAssumption, Printing!Nobody, PrintingProofs!Nobody
<1>2. Printing!Next => PrintingProofs!Next
  BY DEF Printing!Next, Printing!Puts, Printing!Getc, Printing!Type, Printing!Shift,
      Printing!notifier_tx, Printing!notifier_rxto, Printing!Serve, Printing!GETC_Now,
      Printing!GETC_Later, Printing!PUTS, Printing!TX_NOTIFIER, Printing!RTM_NOTIFIER_Waited,
      Printing!RTM_NOTIFIER_Kept, Printing!ReadsKey, Printing!Kept, Printing!Receive,
      Printing!Served, Printing!Push, Printing!Write, Printing!LetTxGo, Printing!Answer,
      Printing!Request, Printing!serverVars, Printing!clientVars, Printing!uart, Printing!history,
      Printing!Nobody, PrintingProofs!Next, PrintingProofs!Puts, PrintingProofs!Getc,
      PrintingProofs!Type, PrintingProofs!Shift, PrintingProofs!notifier_tx,
      PrintingProofs!notifier_rxto, PrintingProofs!Serve, PrintingProofs!GETC_Now,
      PrintingProofs!GETC_Later, PrintingProofs!PUTS, PrintingProofs!TX_NOTIFIER,
      PrintingProofs!RTM_NOTIFIER_Waited, PrintingProofs!RTM_NOTIFIER_Kept, PrintingProofs!ReadsKey,
      PrintingProofs!Kept, PrintingProofs!Receive, PrintingProofs!Served, PrintingProofs!Push,
      PrintingProofs!Write, PrintingProofs!LetTxGo, PrintingProofs!Answer, PrintingProofs!Request,
      PrintingProofs!serverVars, PrintingProofs!clientVars, PrintingProofs!uart,
      PrintingProofs!history, PrintingProofs!vars, PrintingProofs!Nobody
<1>3. Printing!Init => PrintingProofs!Init
  BY DEF Printing!Init, PrintingProofs!Init, Printing!Request, PrintingProofs!Request, Printing!Nobody, PrintingProofs!Nobody
<1>4. UNCHANGED io => UNCHANGED PrintingProofs!vars
  BY DEF io, PrintingProofs!vars, PrintingProofs!serverVars, PrintingProofs!clientVars, PrintingProofs!uart, PrintingProofs!history
<1> QED
  BY <1>1, <1>2, <1>3, <1>4

LEMMA ReadingSame ==
  /\ ReadingProofs!IOAssumption
  /\ Reading!Next => [ReadingProofs!Next]_ReadingProofs!vars
  /\ Printing!Init => ReadingProofs!Init
  /\ UNCHANGED io => UNCHANGED ReadingProofs!vars
<1>1. ReadingProofs!IOAssumption
  BY SettingsAreLegal DEF Reading!IOAssumption, ReadingProofs!IOAssumption, Reading!Nobody, ReadingProofs!Nobody
<1>2. Reading!Next => ReadingProofs!Next
  BY DEF Reading!Next, Reading!Puts, Reading!Getc, Reading!Type, Reading!Shift, Reading!notifier_tx,
      Reading!notifier_rxto, Reading!Serve, Reading!GETC_Now, Reading!GETC_Later, Reading!PUTS,
      Reading!TX_NOTIFIER, Reading!RTM_NOTIFIER_Waited, Reading!RTM_NOTIFIER_Kept, Reading!ReadsKey,
      Reading!Kept, Reading!Receive, Reading!Served, Reading!Push, Reading!Write, Reading!LetTxGo,
      Reading!Answer, Reading!Request, Reading!serverVars, Reading!clientVars, Reading!uart,
      Reading!history, Reading!Nobody, ReadingProofs!Next, ReadingProofs!Puts, ReadingProofs!Getc,
      ReadingProofs!Type, ReadingProofs!Shift, ReadingProofs!notifier_tx,
      ReadingProofs!notifier_rxto, ReadingProofs!Serve, ReadingProofs!GETC_Now,
      ReadingProofs!GETC_Later, ReadingProofs!PUTS, ReadingProofs!TX_NOTIFIER,
      ReadingProofs!RTM_NOTIFIER_Waited, ReadingProofs!RTM_NOTIFIER_Kept, ReadingProofs!ReadsKey,
      ReadingProofs!Kept, ReadingProofs!Receive, ReadingProofs!Served, ReadingProofs!Push,
      ReadingProofs!Write, ReadingProofs!LetTxGo, ReadingProofs!Answer, ReadingProofs!Request,
      ReadingProofs!serverVars, ReadingProofs!clientVars, ReadingProofs!uart, ReadingProofs!history,
      ReadingProofs!vars, ReadingProofs!Nobody
<1>3. Printing!Init => ReadingProofs!Init
  BY DEF Printing!Init, ReadingProofs!Init, Printing!Request, ReadingProofs!Request, Printing!Nobody, ReadingProofs!Nobody
<1>4. UNCHANGED io => UNCHANGED ReadingProofs!vars
  BY DEF io, ReadingProofs!vars, ReadingProofs!serverVars, ReadingProofs!clientVars, ReadingProofs!uart, ReadingProofs!history
<1> QED
  BY <1>1, <1>2, <1>3, <1>4

LEMMA CrowdedSame ==
  /\ CrowdedProofs!IOAssumption
  /\ Crowded!Next => [CrowdedProofs!Next]_CrowdedProofs!vars
  /\ Printing!Init => CrowdedProofs!Init
  /\ UNCHANGED io => UNCHANGED CrowdedProofs!vars
<1>1. CrowdedProofs!IOAssumption
  BY SettingsAreLegal DEF Crowded!IOAssumption, CrowdedProofs!IOAssumption, Crowded!Nobody, CrowdedProofs!Nobody
<1>2. Crowded!Next => CrowdedProofs!Next
  BY DEF Crowded!Next, Crowded!Puts, Crowded!Getc, Crowded!Type, Crowded!Shift, Crowded!notifier_tx,
      Crowded!notifier_rxto, Crowded!Serve, Crowded!GETC_Now, Crowded!GETC_Later, Crowded!PUTS,
      Crowded!TX_NOTIFIER, Crowded!RTM_NOTIFIER_Waited, Crowded!RTM_NOTIFIER_Kept, Crowded!ReadsKey,
      Crowded!Kept, Crowded!Receive, Crowded!Served, Crowded!Push, Crowded!Write, Crowded!LetTxGo,
      Crowded!Answer, Crowded!Request, Crowded!serverVars, Crowded!clientVars, Crowded!uart,
      Crowded!history, Crowded!Nobody, CrowdedProofs!Next, CrowdedProofs!Puts, CrowdedProofs!Getc,
      CrowdedProofs!Type, CrowdedProofs!Shift, CrowdedProofs!notifier_tx,
      CrowdedProofs!notifier_rxto, CrowdedProofs!Serve, CrowdedProofs!GETC_Now,
      CrowdedProofs!GETC_Later, CrowdedProofs!PUTS, CrowdedProofs!TX_NOTIFIER,
      CrowdedProofs!RTM_NOTIFIER_Waited, CrowdedProofs!RTM_NOTIFIER_Kept, CrowdedProofs!ReadsKey,
      CrowdedProofs!Kept, CrowdedProofs!Receive, CrowdedProofs!Served, CrowdedProofs!Push,
      CrowdedProofs!Write, CrowdedProofs!LetTxGo, CrowdedProofs!Answer, CrowdedProofs!Request,
      CrowdedProofs!serverVars, CrowdedProofs!clientVars, CrowdedProofs!uart, CrowdedProofs!history,
      CrowdedProofs!vars, CrowdedProofs!Nobody
<1>3. Printing!Init => CrowdedProofs!Init
  BY DEF Printing!Init, CrowdedProofs!Init, Printing!Request, CrowdedProofs!Request, Printing!Nobody, CrowdedProofs!Nobody
<1>4. UNCHANGED io => UNCHANGED CrowdedProofs!vars
  BY DEF io, CrowdedProofs!vars, CrowdedProofs!serverVars, CrowdedProofs!clientVars, CrowdedProofs!uart, CrowdedProofs!history
<1> QED
  BY <1>1, <1>2, <1>3, <1>4

ConsoleInv ==
  /\ setting \in {"names", "printing", "reading", "crowded"}
  /\ ServerInv
  /\ setting \in {"names", "printing"} => PrintingProofs!IOInv
  /\ setting = "reading" => ReadingProofs!IOInv
  /\ setting = "crowded" => CrowdedProofs!IOInv

LEMMA ConsoleInvInit == ConsoleInit => ConsoleInv
<1> SUFFICES ASSUME ConsoleInit PROVE ConsoleInv
  OBVIOUS
<1>1. ServerInv
  BY ServerInvInit DEF ConsoleInit
<1>2. PrintingProofs!IOInv
  BY PrintingSame, PrintingProofs!InvInit DEF ConsoleInit
<1>3. ReadingProofs!IOInv
  BY ReadingSame, ReadingProofs!InvInit DEF ConsoleInit
<1>4. CrowdedProofs!IOInv
  BY CrowdedSame, CrowdedProofs!InvInit DEF ConsoleInit
<1> QED
  BY <1>1, <1>2, <1>3, <1>4 DEF ConsoleInv, ConsoleInit

\* What a step of either server, or none, does to the invariant of the console server.
LEMMA ConsoleStepKeeps ==
  /\ PrintingProofs!IOInv /\ (Printing!Next \/ UNCHANGED io) => PrintingProofs!IOInv'
  /\ ReadingProofs!IOInv /\ (Reading!Next \/ UNCHANGED io) => ReadingProofs!IOInv'
  /\ CrowdedProofs!IOInv /\ (Crowded!Next \/ UNCHANGED io) => CrowdedProofs!IOInv'
<1>1. ASSUME PrintingProofs!IOInv, Printing!Next \/ UNCHANGED io PROVE PrintingProofs!IOInv'
  <2>1. PrintingProofs!IOAssumption /\ [PrintingProofs!Next]_PrintingProofs!vars
    BY <1>1, PrintingSame
  <2> QED BY <1>1, <2>1, PrintingProofs!StepKeeps
<1>2. ASSUME ReadingProofs!IOInv, Reading!Next \/ UNCHANGED io PROVE ReadingProofs!IOInv'
  <2>1. ReadingProofs!IOAssumption /\ [ReadingProofs!Next]_ReadingProofs!vars
    BY <1>2, ReadingSame
  <2> QED BY <1>2, <2>1, ReadingProofs!StepKeeps
<1>3. ASSUME CrowdedProofs!IOInv, Crowded!Next \/ UNCHANGED io PROVE CrowdedProofs!IOInv'
  <2>1. CrowdedProofs!IOAssumption /\ [CrowdedProofs!Next]_CrowdedProofs!vars
    BY <1>3, CrowdedSame
  <2> QED BY <1>3, <2>1, CrowdedProofs!StepKeeps
<1> QED
  BY <1>1, <1>2, <1>3

LEMMA ConsoleInvStep == ConsoleInv /\ [ConsoleNext]_consoleVars => ConsoleInv'
<1> SUFFICES ASSUME ConsoleInv, [ConsoleNext]_consoleVars PROVE ConsoleInv'
  OBVIOUS
<1>1. /\ setting' = setting /\ [Next]_vars
      /\ setting \in {"names", "printing"} => Printing!Next \/ UNCHANGED io
      /\ setting = "reading" => Reading!Next \/ UNCHANGED io
      /\ setting = "crowded" => Crowded!Next \/ UNCHANGED io
  BY DEF ConsoleNext, consoleVars
<1>2. ServerInv'
  BY <1>1, ServerInvStep DEF ConsoleInv
<1> QED
  BY <1>1, <1>2, ConsoleStepKeeps DEF ConsoleInv

\* In every setting texts and keys keep their order, no notifier strands the console
\* server and no name is in the table twice.
THEOREM ConsoleInOrder == ConsoleSpec => []TextsAndKeysInOrder
<1>1. PrintingProofs!IOInv =>
        Printing!TypeOK /\ Printing!TextsInOrder /\ Printing!KeysInOrder /\ Printing!NeverStranded
  BY DEF PrintingProofs!IOInv, PrintingProofs!TxWaits, Printing!NeverStranded,
         Printing!TypeOK, PrintingProofs!TypeOK, Printing!Nobody, PrintingProofs!Nobody,
         Printing!TextsInOrder, PrintingProofs!TextsInOrder,
         Printing!KeysInOrder, PrintingProofs!KeysInOrder
<1>2. ReadingProofs!IOInv =>
        Reading!TypeOK /\ Printing!TextsInOrder /\ Printing!KeysInOrder /\ Printing!NeverStranded
  BY DEF ReadingProofs!IOInv, ReadingProofs!TxWaits, Printing!NeverStranded,
         Reading!TypeOK, ReadingProofs!TypeOK, Reading!Nobody, ReadingProofs!Nobody,
         Printing!TextsInOrder, ReadingProofs!TextsInOrder,
         Printing!KeysInOrder, ReadingProofs!KeysInOrder
<1>3. CrowdedProofs!IOInv =>
        Crowded!TypeOK /\ Printing!TextsInOrder /\ Printing!KeysInOrder /\ Printing!NeverStranded
  BY DEF CrowdedProofs!IOInv, CrowdedProofs!TxWaits, Printing!NeverStranded,
         Crowded!TypeOK, CrowdedProofs!TypeOK, Crowded!Nobody, CrowdedProofs!Nobody,
         Printing!TextsInOrder, CrowdedProofs!TextsInOrder,
         Printing!KeysInOrder, CrowdedProofs!KeysInOrder
<1>4. ConsoleInv => TextsAndKeysInOrder
  BY <1>1, <1>2, <1>3 DEF ConsoleInv, ServerInv, TextsAndKeysInOrder
<1> QED
  BY <1>4, ConsoleInvInit, ConsoleInvStep, PTL DEF ConsoleSpec
=============================================================================
