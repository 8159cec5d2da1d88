--------------------------- MODULE AccountsProofs ---------------------------
(***************************************************************************)
(* Proofs about Accounts, for any number of clients, threads, mobiles and  *)
(* switches, and any number of calls.                                      *)
(***************************************************************************)
EXTENDS Accounts, SequenceTheorems, FiniteSetTheorems, TLAPS

-----------------------------------------------------------------------------
(* Lemmas about queues *)

LEMMA SeqGrows ==
  ASSUME NEW S, NEW T, S \subseteq T, NEW q \in Seq(S)
  PROVE  q \in Seq(T)
<1>1. Len(q) \in Nat /\ q = [i \in 1 .. Len(q) |-> q[i]] /\ \A i \in 1 .. Len(q) : q[i] \in T
  BY LenProperties, ElementOfSeq
<1>2. QED BY <1>1

LEMMA HeadTail ==
  ASSUME NEW S, NEW q \in Seq(S), q # << >>
  PROVE  Head(q) \in S /\ Tail(q) \in Seq(S)
OBVIOUS

LEMMA TailElements ==
  ASSUME NEW S, NEW q \in Seq(S), q # << >>
  PROVE  /\ Len(q) \in Nat \ {0} /\ Len(Tail(q)) = Len(q) - 1
         /\ \A i \in 1 .. Len(q) - 1 : Tail(q)[i] = q[i + 1]
OBVIOUS

\* The queues of threads other than w stay, its own gets the value q.
LEMMA QueueSet ==
  ASSUME NEW S, NEW T, S \subseteq T, NEW f \in [Threads -> Seq(S)],
         NEW w \in Threads, NEW q \in Seq(T)
  PROVE  [f EXCEPT ![w] = q] \in [Threads -> Seq(T)]
<1>1. \A v \in Threads : f[v] \in Seq(T) BY SeqGrows
<1>2. QED BY <1>1

-----------------------------------------------------------------------------
(* The parts of the invariant *)

Queues == commands \in [Threads -> Seq(Sound)] /\ replies \in [Threads -> Seq(SoundReplies)]

Owners ==
  /\ \A c \in Clients : held[c] # None => held[c].password = c
  /\ RegistrationsKept
  /\ \A e \in tokens : password[e.mobile] = e.token.password

\* The types of request and status.
SwitchFields(req, sta) ==
  req \in [Names -> Statuses \cup {None}] /\ sta \in [Switches -> Statuses \cup {None}]

LEMMA Parts == IInv <=> TypeOK /\ Queues /\ Owners
<1>1. ASSUME Queues, NEW w \in Threads
      PROVE  /\ \A i \in DOMAIN commands[w] : commands[w][i] \in Sound
             /\ \A i \in DOMAIN replies[w] : replies[w][i] \in SoundReplies
  BY <1>1 DEF Queues
<1>2. Queues => \A w \in Threads :
         /\ \A i \in DOMAIN commands[w] :
              commands[w][i].op \in {"HMSET", "HGETALL"} => password[commands[w][i].key] = commands[w][i].by
         /\ \A i \in DOMAIN replies[w] :
              replies[w][i].to.op = "HGETALL" => password[replies[w][i].to.key] = replies[w][i].to.by
  BY <1>1 DEF Sound, SoundReplies
<1>3. QED BY <1>2 DEF IInv, Queues, Owners, OwnDataOnly

\* A mobile that has a password keeps it.
Stays == \A m \in Mobiles : password[m] # None => password'[m] = password[m]

\* What the function that gets the reply, or the command, says of the command.
LEMMA FormedFacts ==
  ASSUME NEW k \in Formed
  PROVE  /\ k.op \in {"HSETNX", "HMSET", "HGETALL", "KEYS"} \/ k.fn \in {"Register", "Login"}
              => k.key \in Mobiles /\ k.by \in Clients
         /\ k.fn = "Register" => k.op = "HSETNX" /\ k.val = k.by
         /\ k.fn = "Login" => k.op = "HGET" /\ k.val = k.by
         /\ k.fn \in TokenMethods => k.op = "GET"
         /\ k.op = "GET" => k.by \in Clients /\ k.fn \in TokenMethods
         /\ k.fn \in {"HMSET", "HGETALL", "KEYS"} => k.op = k.fn
         /\ k.fn = "switch" => k.op = "HGET" /\ k.by \in Clients
         /\ k.fn = "report" => k.op = "EVAL" /\ k.key \in Switches
<1>1. k.op \in Ops BY DEF Formed
<1>2. k.op = "GET" => k.by \in Clients /\ k.fn \in TokenMethods BY DEF Formed, Tokens
<1>3. QED BY <1>1, <1>2 DEF Formed, Ops, TokenMethods

LEMMA SoundGrows ==
  ASSUME Stays
  PROVE  Sound \subseteq Sound' /\ SoundReplies \subseteq SoundReplies'
<1>1. None \notin Clients BY AccountsAssumption
<1>2. Sound \subseteq Sound'
  <2> SUFFICES ASSUME NEW k \in Sound PROVE k \in Sound'
    OBVIOUS
  <2>1. k.op \in {"HMSET", "HGETALL"} => password[k.key] = k.by /\ k.key \in Mobiles /\ k.by \in Clients
    BY DEF Sound, Formed
  <2>2. k.op = "SETEX" => /\ k.key \in Tokens /\ k.key.password \in Clients
                          /\ k.val \in Mobiles /\ password[k.val] = k.key.password
    BY DEF Sound, Formed, Tokens
  <2>3. k.op \in {"HMSET", "HGETALL"} => password'[k.key] = k.by
    BY <1>1, <2>1 DEF Stays
  <2>4. k.op = "SETEX" => password'[k.val] = k.key.password
    BY <1>1, <2>2 DEF Stays
  <2>5. QED BY <2>3, <2>4 DEF Sound
<1>3. ASSUME NEW r \in SoundReplies PROVE r \in SoundReplies'
  <2>1. /\ r \in [to : Sound', ret : Clients \cup Mobiles \cup {None, Done} \cup Statuses \cup Nat,
                  names : Seq(Switches)]
        /\ r.to \in Sound
    BY <1>2 DEF SoundReplies
  <2> r.to \in Formed BY <2>1 DEF Sound
  <2>2. r.to.op = "HSETNX" /\ r.ret = Done => password'[r.to.key] = r.to.by
    BY <1>1, FormedFacts DEF SoundReplies, Stays
  <2>3. r.to.fn = "Login" /\ r.ret = r.to.by => password'[r.to.key] = r.to.by
    BY <1>1, FormedFacts DEF SoundReplies, Stays
  <2>4. r.to.op = "GET" /\ r.ret # None => r.ret \in Mobiles /\ password'[r.ret] = r.to.by
    BY <1>1, FormedFacts DEF SoundReplies, Stays
  <2>5. r.to.op = "EVAL" /\ r.ret # None => r.ret \in Statuses BY DEF SoundReplies
  <2>6. QED BY <2>1, <2>2, <2>3, <2>4, <2>5 DEF SoundReplies
<1>4. QED BY <1>2, <1>3

LEMMA PartsNext == TypeOK' /\ Queues' /\ Owners' => IInv'
BY Parts, PTL

\* Nobody has been given anything, and no token is new.
LEMMA OwnersStay ==
  ASSUME IInv, Stays, held' = held, won' = won, tokens' \subseteq tokens
  PROVE  Owners'
<1>1. None \notin Clients BY AccountsAssumption
<1>2. \A c \in Clients : \A m \in won[c] : password'[m] = c
  BY <1>1 DEF IInv, TypeOK, RegistrationsKept, Stays
<1>3. \A e \in tokens : password'[e.mobile] = e.token.password
  BY <1>1 DEF IInv, TypeOK, Tokens, OwnDataOnly, Stays
<1>4. QED BY <1>2, <1>3 DEF IInv, Owners, RegistrationsKept

LEMMA Reached == IInv => Queues
BY DEF IInv, Queues

-----------------------------------------------------------------------------
(* The queues *)

\* A thread sends a command.
LEMMA Sent ==
  ASSUME Queues, Stays, NEW w \in Threads, NEW k \in Sound',
         commands' \in {commands, [commands EXCEPT ![w] = Append(@, k)]}, replies' = replies
  PROVE  Queues'
<1>1. Sound \subseteq Sound' /\ SoundReplies \subseteq SoundReplies' BY SoundGrows
<1>2. commands \in [Threads -> Seq(Sound')] /\ replies \in [Threads -> Seq(SoundReplies')]
  BY <1>1, SeqGrows DEF Queues
<1>3. Append(commands[w], k) \in Seq(Sound') BY <1>2, AppendProperties
<1>4. [commands EXCEPT ![w] = Append(@, k)] \in [Threads -> Seq(Sound')] BY <1>2, <1>3
<1>5. QED BY <1>2, <1>4 DEF Queues

\* Redis executes one.
LEMMA Executed ==
  ASSUME Queues, Stays, NEW w \in Threads, NEW r \in SoundReplies', commands[w] # << >>,
         commands' = [commands EXCEPT ![w] = Tail(@)],
         replies' = [replies EXCEPT ![w] = Append(@, r)]
  PROVE  Queues'
<1>1. Sound \subseteq Sound' /\ SoundReplies \subseteq SoundReplies' BY SoundGrows
<1>2. commands \in [Threads -> Seq(Sound')] /\ replies \in [Threads -> Seq(SoundReplies')]
  BY <1>1, SeqGrows DEF Queues
<1>3. Tail(commands[w]) \in Seq(Sound') BY <1>2, HeadTail
<1>4. Append(replies[w], r) \in Seq(SoundReplies') BY <1>2, AppendProperties
<1>5. QED BY <1>2, <1>3, <1>4 DEF Queues

\* A callback takes a reply and sends commands.
LEMMA Called ==
  ASSUME Queues, Stays, NEW w \in Threads, NEW cmds \in Seq(Sound'), replies[w] # << >>,
         commands' = [commands EXCEPT ![w] = @ \o cmds],
         replies' = [replies EXCEPT ![w] = Tail(@)]
  PROVE  Queues'
<1>1. Sound \subseteq Sound' /\ SoundReplies \subseteq SoundReplies' BY SoundGrows
<1>2. commands \in [Threads -> Seq(Sound')] /\ replies \in [Threads -> Seq(SoundReplies')]
  BY <1>1, SeqGrows DEF Queues
<1>3. Tail(replies[w]) \in Seq(SoundReplies') BY <1>2, HeadTail
<1>4. commands[w] \o cmds \in Seq(Sound') BY <1>2, ConcatProperties
<1>5. QED BY <1>2, <1>3, <1>4 DEF Queues

\* Arrangements(S) are sequences over S.
LEMMA ArrangementSeq ==
  ASSUME NEW S \in SUBSET Switches, NEW q \in Arrangements(S)
  PROVE  q \in Seq(Switches)
<1>1. IsFiniteSet(S) BY AccountsAssumption, FS_Subset
<1>2. Cardinality(S) \in Nat BY <1>1, FS_CardinalityType
<1>3. q \in [1 .. Cardinality(S) -> Switches] BY DEF Arrangements
<1>4. QED BY <1>2, <1>3

-----------------------------------------------------------------------------
(* Calls *)

LEMMA CallSends ==
  ASSUME IInv, NEW w \in Threads, NEW k \in Sound, UNCHANGED <<store, replies, issued, held, won, gateway>>,
         commands' \in {commands, [commands EXCEPT ![w] = Append(@, k)]}
  PROVE  IInv'
<1>1. Stays BY DEF Stays, store
<1>2. k \in Sound' BY <1>1, SoundGrows
<1>3. Queues' BY <1>1, <1>2, Reached, Sent
<1>4. Owners' BY <1>1, OwnersStay DEF store
<1>5. TypeOK' BY DEF IInv, TypeOK, store, gateway
<1>6. QED BY <1>3, <1>4, <1>5, PartsNext

LEMMA CallKeeps ==
  ASSUME IInv, NEW k \in Sound, NEW c \in Clients, NEW method, NEW refusal, Call(c, method, k, refusal)
  PROVE  IInv'
<1>1. /\ UNCHANGED <<store, replies, issued, held, won, gateway>>
      /\ \E w \in Threads : commands' \in {commands, [commands EXCEPT ![w] = Append(@, k)]}
  BY DEF Call
<1>2. QED BY <1>1, CallSends

\* The command that a call sends: of the client, for the function named as the method,
\* and GET with the token that the client holds.
Asks(c, k) ==
  /\ k.by = c
  /\ \/ k.op = "HSETNX" /\ k.fn = "Register"
     \/ k.op = "HGET" /\ k.fn = "Login"
     \/ k.op = "GET" /\ k.fn \in TokenMethods /\ held[c] # None /\ k.key = held[c]

LEMMA WithTokenSends ==
  ASSUME IInv, NEW c \in Clients, NEW method \in TokenMethods, NEW val \in {None} \cup (Names \X Statuses),
         method = "SetSwitchInfo" => val \in Names \X Statuses, CallWithToken(c, method, val)
  PROVE  \E k \in Sound : \E refusal : Asks(c, k) /\ Call(c, k.fn, k, refusal)
<1> DEFINE k == Command("GET", held[c], val, method, c)
<1>1. held[c] \in Tokens /\ held[c].password = c /\ held[c] # None BY DEF CallWithToken, IInv, TypeOK
<1>2. k \in Formed /\ k.op = "GET" BY <1>1 DEF Command, Formed, Ops, Functions, TokenMethods
<1>3. k.fn = method /\ k.by = c /\ k.key = held[c] BY DEF Command
<1>4. Call(c, method, k, Nothing) BY DEF CallWithToken
<1> HIDE DEF k
<1>5. k \in Sound BY <1>2 DEF Sound
<1>6. Asks(c, k) BY <1>1, <1>2, <1>3 DEF Asks
<1>7. QED BY <1>3, <1>4, <1>5, <1>6

LEMMA MethodSends ==
  ASSUME IInv, NEW c \in Clients, Method(c)
  PROVE  \E k \in Sound : \E refusal : Asks(c, k) /\ Call(c, k.fn, k, refusal)
<1>1. CASE \E m \in Mobiles : Register(c, m)
  <2>1. PICK m \in Mobiles : Register(c, m) BY <1>1
  <2> DEFINE k == Command("HSETNX", m, c, "Register", c)
  <2>2. k \in Formed /\ k.op = "HSETNX" /\ k.fn = "Register" /\ k.by = c
    <3>1. m \in Mobiles \cup Switches \cup Tokens /\ c \in Clients \cup {None}
      OBVIOUS
    <3>2. QED BY <3>1 DEF Command, Formed, Ops, Functions
  <2>3. Call(c, "Register", k, Say("SYSTEM_ERROR", None)) BY <2>1 DEF Register
  <2> HIDE DEF k
  <2>4. k \in Sound /\ Asks(c, k) BY <2>2 DEF Sound, Asks
  <2>5. QED BY <2>2, <2>3, <2>4
<1>2. CASE \E m \in Mobiles : Login(c, m)
  <2>1. PICK m \in Mobiles : Login(c, m) BY <1>2
  <2> DEFINE k == Command("HGET", m, c, "Login", c)
  <2>2. k \in Formed /\ k.op = "HGET" /\ k.fn = "Login" /\ k.by = c
    <3>1. m \in Mobiles \cup Switches \cup Tokens /\ c \in Clients \cup {None}
      OBVIOUS
    <3>2. QED BY <3>1 DEF Command, Formed, Ops, Functions
  <2>3. Call(c, "Login", k, Say("SYSTEM_ERROR", None)) BY <2>1 DEF Login
  <2> HIDE DEF k
  <2>4. k \in Sound /\ Asks(c, k) BY <2>2 DEF Sound, Asks
  <2>5. QED BY <2>2, <2>3, <2>4
<1>3. CASE LoginWithToken(c)
  BY <1>3, WithTokenSends DEF LoginWithToken, TokenMethods
<1>4. CASE UploadData(c)
  BY <1>4, WithTokenSends DEF UploadData, TokenMethods
<1>5. CASE GetBaseInfo(c)
  BY <1>5, WithTokenSends DEF GetBaseInfo, TokenMethods
<1>6. CASE ApplyForLoan(c)
  BY <1>6, WithTokenSends DEF ApplyForLoan, TokenMethods
<1>7. CASE GetSwitchInfo(c)
  BY <1>7, WithTokenSends DEF GetSwitchInfo, TokenMethods
<1>8. CASE SetSwitchInfo(c)
  <2>1. PICK s \in Names, v \in Statuses : CallWithToken(c, "SetSwitchInfo", <<s, v>>)
    BY <1>8 DEF SetSwitchInfo
  <2>2. QED BY <2>1, WithTokenSends DEF TokenMethods
<1>9. QED BY <1>1, <1>2, <1>3, <1>4, <1>5, <1>6, <1>7, <1>8 DEF Method

LEMMA MethodKeeps == ASSUME IInv, NEW c \in Clients, Method(c) PROVE IInv'
BY MethodSends, CallKeeps

-----------------------------------------------------------------------------
(* Redis *)

\* The command that is executed, and its reply.
LEMMA Executing ==
  ASSUME IInv, NEW w \in Threads, NEW op, Executes(w, op)
  PROVE  commands[w] # << >> /\ Head(commands[w]) \in Sound /\ Head(commands[w]).op = op
BY HeadTail DEF IInv, Executes

\* A reply other than those to HSETNX, HGET and GET tells nothing of an account.
LEMMA SoundReply ==
  ASSUME Stays, NEW k \in Sound, NEW names \in Seq(Switches),
         NEW ret \in Clients \cup Mobiles \cup {None, Done} \cup Statuses \cup Nat,
         k.op = "HSETNX" /\ ret = Done => password'[k.key] = k.by,
         k.fn = "Login" /\ ret = k.by => password'[k.key] = k.by,
         k.op = "GET" /\ ret # None => ret \in Mobiles /\ password'[ret] = k.by,
         k.op = "EVAL" /\ ret # None => ret \in Statuses
  PROVE  [to |-> k, ret |-> ret, names |-> names] \in SoundReplies'
<1>1. k \in Sound' BY SoundGrows
<1>2. QED BY <1>1 DEF SoundReplies

\* What is left to show of a command that leaves the tokens alone.
LEMMA ReplyKeeps ==
  ASSUME IInv, Stays, TypeOK', tokens' \subseteq tokens, UNCHANGED <<held, won>>, NEW w \in Threads,
         commands[w] # << >>, NEW r \in SoundReplies',
         commands' = [commands EXCEPT ![w] = Tail(@)],
         replies' = [replies EXCEPT ![w] = Append(@, r)]
  PROVE  IInv'
<1>1. Queues' BY Reached, Executed
<1>2. Owners' BY OwnersStay
<1>3. QED BY <1>1, <1>2, PartsNext

LEMMA HSETNXKeeps == ASSUME IInv, NEW w \in Threads, HSETNX(w) PROVE IInv'
<1> DEFINE k == Head(commands[w])
           ret == IF password[k.key] = None THEN Done ELSE None
           r == [to |-> k, ret |-> ret, names |-> << >>]
<1>1. commands[w] # << >> /\ k \in Sound /\ k.op = "HSETNX" BY Executing DEF HSETNX
<1>2. k \in Formed BY <1>1 DEF Sound
<1>3. k.key \in Mobiles /\ k.by \in Clients BY <1>1, <1>2, FormedFacts
<1>4. k.val = k.by /\ k.fn = "Register" BY <1>1, <1>2 DEF Formed
<1>5. password' = [password EXCEPT ![k.key] = IF @ = None THEN k.val ELSE @] BY DEF HSETNX
<1>6. password \in [Mobiles -> Clients \cup {None}] BY DEF IInv, TypeOK
<1>7. Stays BY <1>5, <1>6 DEF Stays
<1>8. ret = Done => password'[k.key] = k.by BY <1>3, <1>4, <1>5, <1>6, AccountsAssumption
<1>9. ret \in Clients \cup Mobiles \cup {None, Done} \cup Statuses \cup Nat OBVIOUS
<1>10. << >> \in Seq(Switches) OBVIOUS
<1>11. TypeOK'
  BY <1>3, <1>4, <1>5, <1>6 DEF IInv, TypeOK, HSETNX, Reply, ReplyArray, clients, gateway
<1>12. /\ tokens' = tokens /\ UNCHANGED <<held, won>>
       /\ commands' = [commands EXCEPT ![w] = Tail(@)] /\ replies' = [replies EXCEPT ![w] = Append(@, r)]
  BY DEF HSETNX, Reply, ReplyArray, clients
<1> HIDE DEF k, ret
<1>13. r \in SoundReplies' BY <1>1, <1>4, <1>7, <1>8, <1>9, <1>10, SoundReply
<1> HIDE DEF r
<1>14. QED BY <1>1, <1>7, <1>11, <1>12, <1>13, ReplyKeeps

\* The commands whose replies tell nothing of an account.
LEMMA PlainKeeps ==
  ASSUME IInv, NEW w \in Threads, NEW op \in {"HMSET", "HGETALL", "HSET", "KEYS", "EVAL"}, Executes(w, op),
         NEW ret \in Clients \cup Mobiles \cup {None, Done} \cup Statuses \cup Nat,
         NEW names \in Seq(Switches), ReplyArray(w, ret, names), op = "EVAL" /\ ret # None => ret \in Statuses,
         password' = password, tokens' = tokens, data' \in [Mobiles -> Nat],
         SwitchFields(request', status')
  PROVE  IInv'
<1> DEFINE k == Head(commands[w])
           r == [to |-> k, ret |-> ret, names |-> names]
<1>1. commands[w] # << >> /\ k \in Sound /\ k.op = op BY Executing
<1>2. k.fn # "Login" BY <1>1, FormedFacts DEF Sound
<1>3. Stays BY DEF Stays
<1>4. TypeOK' BY DEF IInv, TypeOK, SwitchFields, ReplyArray, clients, gateway
<1>5. /\ UNCHANGED <<held, won>>
      /\ commands' = [commands EXCEPT ![w] = Tail(@)] /\ replies' = [replies EXCEPT ![w] = Append(@, r)]
  BY DEF ReplyArray, clients
<1> HIDE DEF k
<1>6. r \in SoundReplies' BY <1>1, <1>2, <1>3, SoundReply
<1> HIDE DEF r
<1>7. QED BY <1>1, <1>3, <1>4, <1>5, <1>6, ReplyKeeps

LEMMA EmptyNames == << >> \in Seq(Switches)
OBVIOUS

LEMMA HMSETKeeps == ASSUME IInv, NEW w \in Threads, HMSET(w) PROVE IInv'
<1>1. commands[w] # << >> /\ Head(commands[w]) \in Sound /\ Head(commands[w]).op = "HMSET"
  BY Executing DEF HMSET
<1>2. Head(commands[w]).key \in Mobiles BY <1>1, FormedFacts DEF Sound
<1>3. /\ Executes(w, "HMSET") /\ ReplyArray(w, Done, << >>)
      /\ password' = password /\ tokens' = tokens /\ UNCHANGED <<request, status>>
      /\ data' = [data EXCEPT ![Head(commands[w]).key] = @ + 1]
  BY DEF HMSET, Reply
<1>4. data' \in [Mobiles -> Nat] BY <1>2, <1>3 DEF IInv, TypeOK
<1>5. SwitchFields(request', status') BY <1>3 DEF IInv, TypeOK, SwitchFields
<1>6. QED BY <1>3, <1>4, <1>5, EmptyNames, PlainKeeps

LEMMA HGETALLKeeps == ASSUME IInv, NEW w \in Threads, HGETALL(w) PROVE IInv'
<1>1. commands[w] # << >> /\ Head(commands[w]) \in Sound /\ Head(commands[w]).op = "HGETALL"
  BY Executing DEF HGETALL
<1>2. Head(commands[w]).key \in Mobiles BY <1>1, FormedFacts DEF Sound
<1>3. data[Head(commands[w]).key] \in Nat BY <1>2 DEF IInv, TypeOK
<1>4. /\ Executes(w, "HGETALL") /\ ReplyArray(w, data[Head(commands[w]).key], << >>)
      /\ password' = password /\ tokens' = tokens /\ UNCHANGED <<data, request, status>>
  BY DEF HGETALL, Reply, store
<1>5. data' \in [Mobiles -> Nat] /\ SwitchFields(request', status')
  BY <1>4 DEF IInv, TypeOK, SwitchFields
<1>6. QED BY <1>3, <1>4, <1>5, EmptyNames, PlainKeeps

LEMMA HSETKeeps == ASSUME IInv, NEW w \in Threads, HSET(w) PROVE IInv'
<1>1. commands[w] # << >> /\ Head(commands[w]) \in Sound /\ Head(commands[w]).op = "HSET"
  BY Executing DEF HSET
<1>2. Head(commands[w]).key \in Names /\ Head(commands[w]).val \in Statuses BY <1>1 DEF Sound, Formed
<1>3. /\ Executes(w, "HSET") /\ ReplyArray(w, Done, << >>)
      /\ password' = password /\ tokens' = tokens /\ UNCHANGED <<data, status>>
      /\ request' = [request EXCEPT ![Head(commands[w]).key] = Head(commands[w]).val]
  BY DEF HSET, Reply
<1>4. data' \in [Mobiles -> Nat] /\ SwitchFields(request', status')
  BY <1>2, <1>3 DEF IInv, TypeOK, SwitchFields
<1>5. QED BY <1>3, <1>4, EmptyNames, PlainKeeps

LEMMA KEYSKeeps == ASSUME IInv, NEW w \in Threads, KEYS(w) PROVE IInv'
<1> DEFINE found == {s \in Switches : request[s] # None \/ status[s] # None}
           S == IF Head(commands[w]).key = Default THEN found ELSE {}
<1>1. PICK names \in Arrangements(S) : ReplyArray(w, Done, names) BY DEF KEYS
<1>2. names \in Seq(Switches) BY ArrangementSeq
<1>3. /\ Executes(w, "KEYS") /\ password' = password /\ tokens' = tokens
      /\ UNCHANGED <<data, request, status>>
  BY DEF KEYS, store
<1>4. data' \in [Mobiles -> Nat] /\ SwitchFields(request', status')
  BY <1>3 DEF IInv, TypeOK, SwitchFields
<1>5. QED BY <1>1, <1>2, <1>3, <1>4, PlainKeeps

LEMMA EVALKeeps == ASSUME IInv, NEW w \in Threads, EVAL(w) PROVE IInv'
<1> DEFINE k == Head(commands[w])
           ret == IF request[k.key] \in {None, k.val} THEN None ELSE request[k.key]
<1>1. commands[w] # << >> /\ k \in Sound /\ k.op = "EVAL" BY Executing DEF EVAL
<1>2. k.key \in Switches /\ k.val \in Statuses BY <1>1 DEF Sound, Formed
<1>3. /\ Executes(w, "EVAL") /\ ReplyArray(w, ret, << >>)
      /\ password' = password /\ tokens' = tokens /\ UNCHANGED <<data, request>>
      /\ status' = [status EXCEPT ![k.key] = k.val]
  BY DEF EVAL, Reply
<1>4. data' \in [Mobiles -> Nat] /\ SwitchFields(request', status')
  BY <1>2, <1>3 DEF IInv, TypeOK, SwitchFields
<1>5. ret \in {None} \cup Statuses BY <1>2 DEF IInv, TypeOK, Names
<1> HIDE DEF k, ret
<1>6. QED BY <1>3, <1>4, <1>5, EmptyNames, PlainKeeps

LEMMA HGETKeeps == ASSUME IInv, NEW w \in Threads, HGET(w) PROVE IInv'
<1> DEFINE k == Head(commands[w])
           ret == IF k.fn = "Login" THEN password[k.key] ELSE status[k.key]
           r == [to |-> k, ret |-> ret, names |-> << >>]
<1>1. commands[w] # << >> /\ k \in Sound /\ k.op = "HGET" BY Executing DEF HGET
<1>2. \/ k.fn = "Login" /\ k.key \in Mobiles
      \/ k.fn = "switch" /\ k.key \in Switches
  BY <1>1 DEF Sound, Formed
<1>3. ret \in Clients \cup Mobiles \cup {None, Done} \cup Statuses \cup Nat BY <1>2 DEF IInv, TypeOK
<1>4. /\ password' = password /\ tokens' = tokens /\ UNCHANGED <<data, request, status, held, won>>
      /\ commands' = [commands EXCEPT ![w] = Tail(@)] /\ replies' = [replies EXCEPT ![w] = Append(@, r)]
  BY DEF HGET, Reply, ReplyArray, store, clients
<1>5. Stays BY <1>4 DEF Stays
<1>6. TypeOK' BY <1>4 DEF IInv, TypeOK, HGET, Reply, ReplyArray, gateway
<1>7. k.fn = "Login" /\ ret = k.by => password'[k.key] = k.by BY <1>4
<1> HIDE DEF k, ret
<1>8. r \in SoundReplies' BY <1>1, <1>3, <1>5, <1>7, EmptyNames, SoundReply
<1> HIDE DEF r
<1>9. QED BY <1>1, <1>4, <1>5, <1>6, <1>8, ReplyKeeps

LEMMA GETKeeps == ASSUME IInv, NEW w \in Threads, GET(w) PROVE IInv'
<1> DEFINE k == Head(commands[w])
<1>1. commands[w] # << >> /\ k \in Sound /\ k.op = "GET" BY Executing DEF GET
<1>2. k.key.password = k.by /\ k.fn # "Login" BY <1>1, FormedFacts DEF Sound, Formed
<1>3. PICK ret \in {None} \cup Mobiles :
        /\ ret # None => password[ret] = k.by
        /\ ReplyArray(w, ret, << >>)
  BY <1>2 DEF GET, Reply, IInv, TypeOK, OwnDataOnly
<1> DEFINE r == [to |-> k, ret |-> ret, names |-> << >>]
<1>4. /\ password' = password /\ tokens' = tokens /\ UNCHANGED <<data, request, status, held, won>>
      /\ commands' = [commands EXCEPT ![w] = Tail(@)] /\ replies' = [replies EXCEPT ![w] = Append(@, r)]
  BY <1>3 DEF GET, ReplyArray, store, clients
<1>5. Stays BY <1>4 DEF Stays
<1>6. TypeOK' BY <1>3, <1>4 DEF IInv, TypeOK, ReplyArray, gateway
<1> HIDE DEF k
<1>7. r \in SoundReplies' BY <1>1, <1>2, <1>3, <1>4, <1>5, EmptyNames, SoundReply
<1> HIDE DEF r
<1>8. QED BY <1>1, <1>4, <1>5, <1>6, <1>7, ReplyKeeps

LEMMA SETEXKeeps == ASSUME IInv, NEW w \in Threads, SETEX(w) PROVE IInv'
<1> DEFINE k == Head(commands[w])
           r == [to |-> k, ret |-> Done, names |-> << >>]
           e == [token |-> k.key, mobile |-> k.val]
<1>1. commands[w] # << >> /\ k \in Sound /\ k.op = "SETEX" BY Executing DEF SETEX
<1>2. k.fn = "ignore" /\ k.key \in Tokens /\ k.val \in Mobiles /\ password[k.val] = k.key.password
  BY <1>1 DEF Sound, Formed
<1>3. /\ password' = password /\ tokens' = tokens \cup {e} /\ UNCHANGED <<data, request, status, held, won>>
      /\ commands' = [commands EXCEPT ![w] = Tail(@)] /\ replies' = [replies EXCEPT ![w] = Append(@, r)]
  BY DEF SETEX, Reply, ReplyArray, clients
<1>4. Stays BY <1>3 DEF Stays
<1>5. TypeOK' BY <1>2, <1>3 DEF IInv, TypeOK, SETEX, Reply, ReplyArray, clients, gateway
<1>6. Owners' BY <1>2, <1>3 DEF IInv, Owners, RegistrationsKept, OwnDataOnly
<1> HIDE DEF k, e
<1>7. r \in SoundReplies' BY <1>1, <1>2, <1>4, EmptyNames, SoundReply
<1> HIDE DEF r
<1>8. Queues' BY <1>1, <1>3, <1>4, <1>7, Reached, Executed
<1>9. QED BY <1>5, <1>6, <1>8, PartsNext

LEMMA RedisKeeps == ASSUME IInv, NEW w \in Threads, Redis(w) PROVE IInv'
BY HSETNXKeeps, HGETKeeps, SETEXKeeps, GETKeeps, HMSETKeeps, HGETALLKeeps, HSETKeeps, KEYSKeeps, EVALKeeps
   DEF Redis

-----------------------------------------------------------------------------
(* Callbacks *)

\* The reply that a function gets.
LEMMA Running ==
  ASSUME IInv, NEW w \in Threads, NEW fn, Runs(w, fn)
  PROVE  /\ replies[w] # << >> /\ Head(replies[w]) \in SoundReplies
         /\ Head(replies[w]).to \in Sound /\ Head(replies[w]).to \in Formed
         /\ Head(replies[w]).to.fn = fn
<1>1. replies[w] # << >> /\ Head(replies[w]) \in SoundReplies /\ Head(replies[w]).to.fn = fn
  BY HeadTail DEF IInv, Runs
<1>2. QED BY <1>1 DEF SoundReplies, Sound

LEMMA CallbackQueues ==
  ASSUME IInv, NEW w \in Threads, replies[w] # << >>, NEW cmds \in Seq(Sound), NEW say, Callback(w, cmds, say)
  PROVE  Queues' /\ Stays
<1>1. /\ replies' = [replies EXCEPT ![w] = Tail(@)] /\ commands' = [commands EXCEPT ![w] = @ \o cmds]
      /\ password' = password
  BY DEF Callback, store
<1>2. Stays BY <1>1 DEF Stays
<1>3. cmds \in Seq(Sound') BY <1>2, SoundGrows, SeqGrows
<1>4. QED BY <1>1, <1>2, <1>3, Reached, Called

\* A callback that gives its client no token.
LEMMA QuietKeeps ==
  ASSUME IInv, NEW w \in Threads, replies[w] # << >>, NEW cmds \in Seq(Sound), NEW say, Callback(w, cmds, say),
         UNCHANGED <<issued, held, won>>
  PROVE  IInv'
<1>1. Queues' /\ Stays BY CallbackQueues
<1>2. UNCHANGED <<store, gateway>> BY DEF Callback
<1>3. Owners' BY <1>1, <1>2, OwnersStay DEF store
<1>4. TypeOK' BY <1>2 DEF IInv, TypeOK, store, gateway
<1>5. QED BY <1>1, <1>3, <1>4, PartsNext

\* With no further command, and with one.
LEMMA EndKeeps ==
  ASSUME IInv, NEW w \in Threads, replies[w] # << >>, NEW say, Callback(w, << >>, say),
         UNCHANGED <<issued, held, won>>
  PROVE  IInv'
<1>1. << >> \in Seq(Sound) OBVIOUS
<1>2. QED BY <1>1, QuietKeeps

LEMMA NextKeeps ==
  ASSUME IInv, NEW w \in Threads, replies[w] # << >>, NEW k \in Sound, NEW say, Callback(w, <<k>>, say),
         UNCHANGED <<issued, held, won>>
  PROVE  IInv'
<1>1. <<k>> \in Seq(Sound) OBVIOUS
<1>2. QED BY <1>1, QuietKeeps

\* A method that welcomes its client has been called by the owner of the account.
MayWelcome(w) ==
  LET k == Head(replies[w]).to IN
  /\ replies[w] # << >>
  /\ k.key \in Mobiles /\ k.by \in Clients /\ k.val = k.by /\ password[k.key] = k.by

LEMMA WelcomeSends ==
  ASSUME IInv, NEW w \in Threads, MayWelcome(w), Welcome(w)
  PROVE  \E t \in Tokens, new \in Sound :
           LET k == Head(replies[w]).to IN
           /\ t.at = issued + 1 /\ t.password = k.by /\ t.mobile = k.key
           /\ new.op = "SETEX" /\ new.key = t /\ new.val = k.key /\ new.by = None
           /\ issued' = issued + 1 /\ held' = [held EXCEPT ![k.by] = t]
           /\ Callback(w, <<new>>, Say("OK", None))
<1> DEFINE k == Head(replies[w]).to
           t == Token(k.key, k.val, issued + 1)
           new == Command("SETEX", t, k.key, "ignore", None)
<1>0. k.key \in Mobiles /\ k.by \in Clients /\ k.val = k.by /\ password[k.key] = k.by
  BY DEF MayWelcome
<1>1. issued + 1 \in Nat BY DEF IInv, TypeOK
<1>2. t \in Tokens /\ t.password = k.by /\ t.at = issued + 1 /\ t.mobile = k.key
  BY <1>0, <1>1 DEF Token, Tokens
<1>3. issued' = issued + 1 /\ held' = [held EXCEPT ![k.by] = t] /\ Callback(w, <<new>>, Say("OK", None))
  BY DEF Welcome
<1> HIDE DEF t, k
<1>5. new \in Formed /\ new.op = "SETEX" /\ new.val = k.key /\ new.key = t /\ new.by = None
  BY <1>0, <1>2 DEF Command, Formed, Ops, Functions
<1> HIDE DEF new
<1>6. new \in Sound BY <1>0, <1>2, <1>5 DEF Sound
<1>7. QED BY <1>2, <1>3, <1>5, <1>6 DEF k

LEMMA WelcomeKeeps ==
  ASSUME IInv, NEW w \in Threads, MayWelcome(w), Welcome(w),
         won' \in {won, [won EXCEPT ![Head(replies[w]).to.by] = @ \cup {Head(replies[w]).to.key}]}
  PROVE  IInv'
<1> DEFINE k == Head(replies[w]).to
<1>0. /\ replies[w] # << >> /\ k.key \in Mobiles /\ k.by \in Clients /\ k.val = k.by
      /\ password[k.key] = k.by
  BY DEF MayWelcome
<1>1. issued + 1 \in Nat BY DEF IInv, TypeOK
<1>2. PICK t \in Tokens, new \in Sound :
        /\ t.password = k.by
        /\ issued' = issued + 1 /\ held' = [held EXCEPT ![k.by] = t]
        /\ Callback(w, <<new>>, Say("OK", None))
  BY WelcomeSends
<1>3. issued' = issued + 1 /\ held' = [held EXCEPT ![k.by] = t] /\ Callback(w, <<new>>, Say("OK", None))
  BY <1>2
<1>4. UNCHANGED <<store, gateway>> BY <1>3 DEF Callback
<1>7. <<new>> \in Seq(Sound) OBVIOUS
<1>8. Queues' BY <1>0, <1>3, <1>7, CallbackQueues
<1>9. TypeOK'
  <2>1. held' \in [Clients -> Tokens \cup {None}]
    <3>1. held \in [Clients -> Tokens \cup {None}] BY DEF IInv, TypeOK
    <3> HIDE DEF k
    <3>2. QED BY <1>0, <1>2, <1>3, <3>1
  <2>2. won' \in [Clients -> SUBSET Mobiles]
    <3>1. won \in [Clients -> SUBSET Mobiles] BY DEF IInv, TypeOK
    <3>2. won' \in {won, [won EXCEPT ![k.by] = @ \cup {k.key}]} /\ k.key \in Mobiles BY <1>0
    <3> HIDE DEF k
    <3>3. QED BY <3>1, <3>2
  <2>3. QED BY <1>1, <1>3, <1>4, <2>1, <2>2 DEF IInv, TypeOK, store, gateway
<1>10. \A c \in Clients : held'[c] # None => held'[c].password = c
  BY <1>2, <1>3 DEF IInv, TypeOK
<1>11. RegistrationsKept'
  <2>1. password' = password /\ won \in [Clients -> SUBSET Mobiles] BY <1>4 DEF IInv, TypeOK, store
  <2>2. \A c \in Clients : \A m \in won[c] : password[m] = c BY DEF IInv, RegistrationsKept
  <2>3. won' \in {won, [won EXCEPT ![k.by] = @ \cup {k.key}]} OBVIOUS
  <2>4. password[k.key] = k.by BY <1>0
  <2> HIDE DEF k
  <2>5. ASSUME NEW c \in Clients, NEW m \in won'[c] PROVE m \in won[c] \/ (c = k.by /\ m = k.key)
    BY <2>1, <2>3
  <2>6. QED BY <2>1, <2>2, <2>4, <2>5 DEF RegistrationsKept
<1>12. \A e \in tokens' : password'[e.mobile] = e.token.password BY <1>4 DEF IInv, OwnDataOnly, store
<1>13. Owners' BY <1>10, <1>11, <1>12 DEF Owners
<1>14. QED BY <1>8, <1>9, <1>13, PartsNext

LEMMA RegisterOutcome ==
  ASSUME IInv, NEW w \in Threads, RegisterReply(w)
  PROVE  \/ /\ MayWelcome(w) /\ Welcome(w)
            /\ won' = [won EXCEPT ![Head(replies[w]).to.by] = @ \cup {Head(replies[w]).to.key}]
         \/ /\ replies[w] # << >> /\ Callback(w, << >>, Say("REGISTERED", None))
            /\ UNCHANGED <<issued, held, won>>
<1> DEFINE r == Head(replies[w])
<1>1. replies[w] # << >> /\ r \in SoundReplies /\ r.to \in Formed /\ r.to.fn = "Register"
  BY Running DEF RegisterReply
<1>2. r.to.key \in Mobiles /\ r.to.by \in Clients /\ r.to.op = "HSETNX" /\ r.to.val = r.to.by
  BY <1>1, FormedFacts
<1>3. r.ret = Done => password[r.to.key] = r.to.by BY <1>1, <1>2 DEF SoundReplies
<1>4. r.ret = Done => MayWelcome(w) BY <1>1, <1>2, <1>3 DEF MayWelcome
<1>5. QED BY <1>1, <1>4 DEF RegisterReply

LEMMA RegisterReplyKeeps == ASSUME IInv, NEW w \in Threads, RegisterReply(w) PROVE IInv'
BY RegisterOutcome, WelcomeKeeps, EndKeeps

LEMMA LoginOutcome ==
  ASSUME IInv, NEW w \in Threads, LoginReply(w)
  PROVE  /\ UNCHANGED won
         /\ \/ MayWelcome(w) /\ Welcome(w)
            \/ /\ replies[w] # << >> /\ Callback(w, << >>, Say("LOGIN_ERR", None))
               /\ UNCHANGED <<issued, held>>
<1> DEFINE r == Head(replies[w])
<1>1. replies[w] # << >> /\ r \in SoundReplies /\ r.to \in Formed /\ r.to.fn = "Login"
  BY Running DEF LoginReply
<1>2. r.to.key \in Mobiles /\ r.to.by \in Clients /\ r.to.val = r.to.by BY <1>1, FormedFacts
<1>3. r.ret = r.to.val => password[r.to.key] = r.to.by BY <1>1, <1>2 DEF SoundReplies
<1>4. r.ret = r.to.val => MayWelcome(w) BY <1>1, <1>2, <1>3 DEF MayWelcome
<1>5. QED BY <1>1, <1>4 DEF LoginReply

LEMMA LoginReplyKeeps == ASSUME IInv, NEW w \in Threads, LoginReply(w) PROVE IInv'
BY LoginOutcome, WelcomeKeeps, EndKeeps

\* What a method learns that has looked up its token.
LEMMA TokenFound ==
  ASSUME IInv, NEW w \in Threads, NEW method \in TokenMethods, TokenReply(w, method)
  PROVE  /\ replies[w] # << >> /\ UNCHANGED <<issued, held, won>>
         /\ Mobile(w) \in Mobiles /\ Caller(w) \in Clients /\ password[Mobile(w)] = Caller(w)
         /\ Head(replies[w]).to \in Formed /\ Head(replies[w]).to.op = "GET"
         /\ Head(replies[w]).to.fn = method
<1> DEFINE r == Head(replies[w])
<1>1. /\ replies[w] # << >> /\ r \in SoundReplies /\ r.to \in Formed /\ r.to.fn = method /\ r.ret # None
      /\ UNCHANGED <<issued, held, won>>
  BY Running DEF TokenReply
<1>2. r.to.op = "GET" /\ r.to.by \in Clients BY <1>1, FormedFacts
<1>3. QED BY <1>1, <1>2 DEF SoundReplies, Mobile, Caller

\* The command that follows it.
LEMMA SecondSound ==
  ASSUME IInv, NEW w \in Threads, NEW method \in TokenMethods, TokenReply(w, method),
         NEW op \in {"HMSET", "HGETALL", "KEYS"}
  PROVE  Command(op, Mobile(w), None, op, Caller(w)) \in Sound
<1> DEFINE k == Command(op, Mobile(w), None, op, Caller(w))
<1>1. Mobile(w) \in Mobiles /\ Caller(w) \in Clients /\ password[Mobile(w)] = Caller(w)
  BY TokenFound
<1>2. k \in Formed /\ k.op = op /\ k.key = Mobile(w) /\ k.by = Caller(w)
  BY <1>1 DEF Command, Formed, Ops, Functions
<1> HIDE DEF k
<1>3. k \in Sound BY <1>1, <1>2 DEF Sound
<1>4. QED BY <1>3 DEF k

LEMMA SecondKeeps ==
  ASSUME IInv, NEW w \in Threads, NEW method \in TokenMethods, TokenReply(w, method),
         NEW op \in {"HMSET", "HGETALL", "KEYS"},
         Callback(w, <<Command(op, Mobile(w), None, op, Caller(w))>>, Nothing)
  PROVE  IInv'
<1>1. PICK k : k = Command(op, Mobile(w), None, op, Caller(w)) OBVIOUS
<1>2. replies[w] # << >> /\ UNCHANGED <<issued, held, won>> BY TokenFound
<1>3. k \in Sound BY <1>1, SecondSound
<1>4. Callback(w, <<k>>, Nothing) BY <1>1
<1>5. QED BY <1>2, <1>3, <1>4, NextKeeps

LEMMA SetSwitchInfoReplySends ==
  ASSUME IInv, NEW w \in Threads, SetSwitchInfoReply(w)
  PROVE  \E k \in Sound : k.op = "HSET" /\ k.by = None /\ Callback(w, <<k>>, Say("OK", None))
<1> DEFINE change == Head(replies[w]).to.val
           k == Command("HSET", change[1], change[2], "ignore", None)
<1>1. /\ Head(replies[w]).to \in Formed /\ Head(replies[w]).to.op = "GET"
      /\ Head(replies[w]).to.fn = "SetSwitchInfo"
  BY TokenFound DEF SetSwitchInfoReply, TokenMethods
<1>2. change \in Names \X Statuses BY <1>1 DEF Formed
<1>3. change[1] \in Names /\ change[2] \in Statuses BY <1>2
<1>4. Callback(w, <<k>>, Say("OK", None)) BY DEF SetSwitchInfoReply
<1> HIDE DEF change
<1>5. k \in Formed /\ k.op = "HSET" /\ k.by = None BY <1>3 DEF Command, Formed, Ops, Functions, Names
<1> HIDE DEF k
<1>6. k \in Sound BY <1>5 DEF Sound
<1>7. QED BY <1>4, <1>5, <1>6

LEMMA SetSwitchInfoReplyKeeps == ASSUME IInv, NEW w \in Threads, SetSwitchInfoReply(w) PROVE IInv'
<1>1. replies[w] # << >> /\ UNCHANGED <<issued, held, won>>
  BY TokenFound DEF SetSwitchInfoReply, TokenMethods
<1>2. PICK k \in Sound : Callback(w, <<k>>, Say("OK", None)) BY SetSwitchInfoReplySends
<1>3. QED BY <1>1, <1>2, NextKeeps

\* The commands that ask for the switches.
LEMMA KEYSReplySends ==
  ASSUME IInv, NEW w \in Threads, KEYSReply(w)
  PROVE  \E names \in Seq(Switches), cmds \in Seq(Sound) :
           /\ names = Head(replies[w]).names /\ Len(cmds) = Len(names)
           /\ \A i \in 1 .. Len(cmds) : cmds[i] = Command("HGET", names[i], None, "switch", Caller(w))
           /\ Callback(w, cmds, IF names = << >> THEN Say("OK", {}) ELSE Nothing)
<1> DEFINE names == Head(replies[w]).names
           cmds == [i \in DOMAIN names |-> Command("HGET", names[i], None, "switch", Caller(w))]
<1>1. /\ Head(replies[w]) \in SoundReplies
      /\ Head(replies[w]).to \in Formed /\ Head(replies[w]).to.fn = "KEYS"
  BY Running DEF KEYSReply
<1>2. Caller(w) \in Clients BY <1>1, FormedFacts DEF Caller
<1>3. names \in Seq(Switches) BY <1>1 DEF SoundReplies
<1>4. Callback(w, cmds, IF names = << >> THEN Say("OK", {}) ELSE Nothing) BY DEF KEYSReply
<1> HIDE DEF names
<1>5. ASSUME NEW i \in DOMAIN names PROVE Command("HGET", names[i], None, "switch", Caller(w)) \in Sound
  <2> DEFINE k == Command("HGET", names[i], None, "switch", Caller(w))
  <2>1. names[i] \in Switches BY <1>3
  <2>2. k \in Formed /\ k.op = "HGET" BY <1>2, <2>1 DEF Command, Formed, Ops, Functions
  <2> HIDE DEF k
  <2>3. k \in Sound BY <2>2 DEF Sound
  <2>4. QED BY <2>3 DEF k
<1>6. Len(names) \in Nat /\ DOMAIN names = 1 .. Len(names) BY <1>3
<1>7. cmds \in Seq(Sound) /\ Len(cmds) = Len(names) BY <1>5, <1>6
<1>8. \A i \in 1 .. Len(cmds) : cmds[i] = Command("HGET", names[i], None, "switch", Caller(w))
  BY <1>6, <1>7
<1> HIDE DEF cmds
<1>9. QED BY <1>3, <1>4, <1>7, <1>8 DEF names

LEMMA KEYSReplyKeeps == ASSUME IInv, NEW w \in Threads, KEYSReply(w) PROVE IInv'
<1>1. replies[w] # << >> /\ UNCHANGED <<issued, held, won>> BY DEF KEYSReply, Runs
<1>2. PICK cmds \in Seq(Sound) : \E say : Callback(w, cmds, say)
  BY KEYSReplySends
<1>3. QED BY <1>1, <1>2, QuietKeeps

\* A reply that no client waits for.
LEMMA DropKeeps ==
  ASSUME IInv, NEW w \in Threads, replies[w] # << >>, replies' = [replies EXCEPT ![w] = Tail(@)],
         UNCHANGED <<store, commands, held, won, issued, actual>>, orders' \in Seq(Switches \X Statuses)
  PROVE  IInv'
<1>1. Stays BY DEF Stays, store
<1>2. << >> \in Seq(Sound') OBVIOUS
<1>3. commands[w] \in Seq(Sound) BY DEF IInv
<1>4. commands[w] \o << >> = commands[w] BY <1>3
<1>5. commands' = [commands EXCEPT ![w] = @ \o << >>] BY <1>4 DEF IInv
<1>6. Queues' BY <1>1, <1>2, <1>5, Reached, Called
<1>7. Owners' BY <1>1, OwnersStay DEF store
<1>8. TypeOK' BY DEF IInv, TypeOK, store
<1>9. QED BY <1>6, <1>7, <1>8, PartsNext

LEMMA ThreadKeeps == ASSUME IInv, NEW w \in Threads, Thread(w) PROVE IInv'
<1>1. CASE RegisterReply(w) BY <1>1, RegisterReplyKeeps
<1>2. CASE LoginReply(w) BY <1>2, LoginReplyKeeps
<1>3. CASE TokenWrong(w)
  <2>1. replies[w] # << >> BY <1>3 DEF TokenWrong, Runs
  <2>2. Callback(w, << >>, Say("LOGIN_ERR", None)) /\ UNCHANGED <<issued, held, won>> BY <1>3 DEF TokenWrong
  <2>3. QED BY <2>1, <2>2, EndKeeps
<1>4. CASE LoginWithTokenReply(w)
  <2>1. replies[w] # << >> /\ UNCHANGED <<issued, held, won>>
    BY <1>4, TokenFound DEF LoginWithTokenReply, TokenMethods
  <2>2. QED BY <1>4, <2>1, EndKeeps DEF LoginWithTokenReply
<1>5. CASE UploadDataReply(w) BY <1>5, SecondKeeps DEF UploadDataReply, TokenMethods
<1>6. CASE HMSETReply(w)
  <2>1. replies[w] # << >> BY <1>6 DEF HMSETReply, Runs
  <2>2. Callback(w, << >>, Say("OK", None)) /\ UNCHANGED <<issued, held, won>> BY <1>6 DEF HMSETReply
  <2>3. QED BY <2>1, <2>2, EndKeeps
<1>7. CASE GetBaseInfoReply(w) BY <1>7, SecondKeeps DEF GetBaseInfoReply, TokenMethods
<1>8. CASE HGETALLReply(w)
  <2>1. replies[w] # << >> BY <1>8 DEF HGETALLReply, Runs
  <2>2. Callback(w, << >>, Say("OK", Head(replies[w]).ret)) /\ UNCHANGED <<issued, held, won>>
    BY <1>8 DEF HGETALLReply
  <2>3. QED BY <2>1, <2>2, EndKeeps
<1>9. CASE ApplyForLoanReply(w)
  <2>1. replies[w] # << >> /\ UNCHANGED <<issued, held, won>>
    BY <1>9, TokenFound DEF ApplyForLoanReply, TokenMethods
  <2>2. QED BY <1>9, <2>1, EndKeeps DEF ApplyForLoanReply
<1>10. CASE SetSwitchInfoReply(w) BY <1>10, SetSwitchInfoReplyKeeps
<1>11. CASE GetSwitchInfoReply(w) BY <1>11, SecondKeeps DEF GetSwitchInfoReply, TokenMethods
<1>12. CASE KEYSReply(w) BY <1>12, KEYSReplyKeeps
<1>13. CASE SwitchReply(w)
  <2>1. replies[w] # << >> BY <1>13 DEF SwitchReply, Runs
  <2>2. \E say : Callback(w, << >>, say) BY <1>13 DEF SwitchReply
  <2>3. UNCHANGED <<issued, held, won>> BY <1>13 DEF SwitchReply
  <2>4. QED BY <2>1, <2>2, <2>3, EndKeeps
<1>14. CASE IgnoredReply(w)
  <2>1. orders' = orders /\ orders \in Seq(Switches \X Statuses) BY <1>14 DEF IgnoredReply, gateway, IInv, TypeOK
  <2>2. /\ replies[w] # << >> /\ replies' = [replies EXCEPT ![w] = Tail(@)]
        /\ UNCHANGED <<store, commands, held, won, issued, actual>>
    BY <1>14 DEF IgnoredReply, Runs, clients, gateway
  <2>3. QED BY <2>1, <2>2, DropKeeps
<1>15. CASE ReportReply(w)
  <2> DEFINE r == Head(replies[w])
  <2>1. replies[w] # << >> /\ r \in SoundReplies /\ r.to \in Formed /\ r.to.fn = "report"
    BY <1>15, Running DEF ReportReply
  <2>2. r.to.key \in Switches /\ (r.ret # None => r.ret \in Statuses) BY <2>1, FormedFacts DEF SoundReplies
  <2>3. orders' = IF r.ret = None THEN orders ELSE Append(orders, <<r.to.key, r.ret>>)
    BY <1>15 DEF ReportReply
  <2>4. /\ replies' = [replies EXCEPT ![w] = Tail(@)]
        /\ UNCHANGED <<store, commands, held, won, issued, actual>>
    BY <1>15 DEF ReportReply, clients
  <2> HIDE DEF r
  <2>5. orders' \in Seq(Switches \X Statuses) BY <2>2, <2>3 DEF IInv, TypeOK
  <2>6. QED BY <2>1, <2>4, <2>5, DropKeeps
<1>16. QED BY <1>1, <1>2, <1>3, <1>4, <1>5, <1>6, <1>7, <1>8, <1>9, <1>10, <1>11, <1>12, <1>13, <1>14, <1>15
            DEF Thread

-----------------------------------------------------------------------------
(* The gateway, and the rest *)

LEMMA ReportSends ==
  ASSUME IInv, Report
  PROVE  /\ Gateway \in Threads /\ UNCHANGED <<store, replies, issued, clients, gateway>>
         /\ \E cmds \in Seq(Sound) :
              /\ \A i \in 1 .. Len(cmds) : cmds[i].op = "EVAL" /\ cmds[i].by = None /\ cmds[i].fn = "report"
              /\ commands' = [commands EXCEPT ![Gateway] = @ \o cmds]
<1>1. Gateway \in Threads BY AccountsAssumption DEF Report
<1>2. UNCHANGED <<store, replies, issued, clients, gateway>> BY DEF Report
<1>3. PICK names \in Arrangements(Switches) :
        commands' = [commands EXCEPT ![Gateway] = @ \o
          [i \in DOMAIN names |-> Command("EVAL", names[i], actual[names[i]], "report", None)]]
  BY DEF Report
<1> DEFINE cmds == [i \in DOMAIN names |-> Command("EVAL", names[i], actual[names[i]], "report", None)]
<1>4. names \in Seq(Switches) BY ArrangementSeq
<1>5. ASSUME NEW i \in DOMAIN names
      PROVE  /\ Command("EVAL", names[i], actual[names[i]], "report", None) \in Sound
             /\ Command("EVAL", names[i], actual[names[i]], "report", None).op = "EVAL"
             /\ Command("EVAL", names[i], actual[names[i]], "report", None).by = None
             /\ Command("EVAL", names[i], actual[names[i]], "report", None).fn = "report"
  <2> DEFINE k == Command("EVAL", names[i], actual[names[i]], "report", None)
  <2>1. names[i] \in Switches BY <1>4
  <2>2. actual[names[i]] \in Statuses BY <2>1 DEF IInv, TypeOK
  <2>3. k \in Formed /\ k.op = "EVAL" /\ k.by = None /\ k.fn = "report"
    BY <2>1, <2>2 DEF Command, Formed, Ops, Functions
  <2> HIDE DEF k
  <2>4. k \in Sound BY <2>3 DEF Sound
  <2>5. QED BY <2>3, <2>4 DEF k
<1>6. Len(names) \in Nat /\ DOMAIN names = 1 .. Len(names) BY <1>4
<1>7. /\ cmds \in Seq(Sound)
      /\ \A i \in 1 .. Len(cmds) : cmds[i].op = "EVAL" /\ cmds[i].by = None /\ cmds[i].fn = "report"
  BY <1>5, <1>6
<1>8. commands' = [commands EXCEPT ![Gateway] = @ \o cmds] BY <1>3
<1> HIDE DEF cmds
<1>9. QED BY <1>1, <1>2, <1>7, <1>8

LEMMA ReportKeeps == ASSUME IInv, Report PROVE IInv'
<1>1. Gateway \in Threads /\ UNCHANGED <<store, replies, issued, clients, gateway>> BY ReportSends
<1>2. PICK cmds \in Seq(Sound) : commands' = [commands EXCEPT ![Gateway] = @ \o cmds] BY ReportSends
<1>3. commands[Gateway] \o cmds \in Seq(Sound) BY <1>1, ConcatProperties DEF IInv
<1>4. commands' \in [Threads -> Seq(Sound)] BY <1>2, <1>3 DEF IInv
<1>5. Stays BY <1>1 DEF Stays, store
<1>6. Sound \subseteq Sound' /\ SoundReplies \subseteq SoundReplies' BY <1>5, SoundGrows
<1>7. commands' \in [Threads -> Seq(Sound')] BY <1>4, <1>6, SeqGrows
<1>8. replies' \in [Threads -> Seq(SoundReplies')] BY <1>1, <1>6, SeqGrows DEF IInv
<1>9. Queues' BY <1>7, <1>8 DEF Queues
<1>10. Owners' BY <1>1, <1>5, OwnersStay DEF store, clients
<1>11. TypeOK' BY <1>1 DEF IInv, TypeOK, store, clients, gateway
<1>12. QED BY <1>9, <1>10, <1>11, PartsNext

\* A step that sends nothing and executes nothing.
LEMMA AsideKeeps ==
  ASSUME IInv, TypeOK', password' = password, tokens' \subseteq tokens, UNCHANGED <<commands, replies, held, won>>
  PROVE  IInv'
<1>1. Stays BY DEF Stays
<1>2. Sound \subseteq Sound' /\ SoundReplies \subseteq SoundReplies' BY <1>1, SoundGrows
<1>3. Queues' BY <1>2, SeqGrows DEF IInv, Queues
<1>4. Owners' BY <1>1, OwnersStay
<1>5. QED BY <1>3, <1>4, PartsNext

LEMMA ExpireKeeps == ASSUME IInv, Expire PROVE IInv'
<1>1. TypeOK' BY DEF IInv, TypeOK, Expire, threads, clients, gateway
<1>2. QED BY <1>1, AsideKeeps DEF Expire, threads, clients, gateway

LEMMA PressKeeps == ASSUME IInv, Press PROVE IInv'
<1>1. TypeOK' BY DEF IInv, TypeOK, Press, store, threads
<1>2. QED BY <1>1, AsideKeeps DEF Press, store, threads

LEMMA ObeyKeeps == ASSUME IInv, Obey PROVE IInv'
<1>1. orders \in Seq(Switches \X Statuses) /\ orders # << >> BY DEF IInv, TypeOK, Obey
<1>2. Head(orders) \in Switches \X Statuses /\ Tail(orders) \in Seq(Switches \X Statuses) BY <1>1, HeadTail
<1>3. Head(orders)[2] \in Statuses BY <1>2
<1>4. TypeOK' BY <1>2, <1>3 DEF IInv, TypeOK, Obey, store, threads, clients
<1>5. QED BY <1>4, AsideKeeps DEF Obey, store, threads, clients

LEMMA StutterKeeps == ASSUME IInv, UNCHANGED vars PROVE IInv'
<1>1. TypeOK' BY DEF IInv, TypeOK, vars, store, threads, clients, gateway
<1>2. QED BY <1>1, AsideKeeps DEF vars, store, threads, clients

LEMMA InitHolds == Init => IInv
<1> SUFFICES ASSUME Init PROVE IInv
  OBVIOUS
<1>1. None \notin Clients BY AccountsAssumption
<1>2. << >> \in Seq(Sound) /\ << >> \in Seq(SoundReplies) /\ << >> \in Seq(Switches \X Statuses) OBVIOUS
<1>3. Queues BY <1>2 DEF Init, Queues
<1>4. Owners BY <1>1 DEF Init, Owners, RegistrationsKept
<1>5. actual \in [Switches -> Statuses]
  <2>1. (CHOOSE v \in Statuses : TRUE) \in Statuses BY AccountsAssumption
  <2>2. QED BY <2>1 DEF Init
<1>6. TypeOK BY <1>2, <1>5 DEF Init, TypeOK
<1>7. QED BY <1>3, <1>4, <1>6, Parts

-----------------------------------------------------------------------------
(* Tokens on their way *)

\* A callback sends commands, none of which asks for a token, or welcomes its client.
LEMMA ThreadSends ==
  ASSUME IInv, NEW w \in Threads, Thread(w)
  PROVE  \/ MayWelcome(w) /\ Welcome(w)
         \/ /\ UNCHANGED <<store, issued, held>>
            /\ \E q \in Seq(Sound) : /\ \A i \in 1 .. Len(q) : q[i].op # "GET"
                                     /\ commands' = [commands EXCEPT ![w] = @ \o q]
<1> DEFINE Quiet == /\ UNCHANGED <<store, issued, held>>
                    /\ \E q \in Seq(Sound) : /\ \A i \in 1 .. Len(q) : q[i].op # "GET"
                                             /\ commands' = [commands EXCEPT ![w] = @ \o q]
<1>1. ASSUME NEW q \in Seq(Sound), \A i \in 1 .. Len(q) : q[i].op # "GET", NEW say, Callback(w, q, say),
             UNCHANGED <<issued, held>>
      PROVE  Quiet
  BY <1>1 DEF Callback
<1>2. ASSUME NEW say, Callback(w, << >>, say), UNCHANGED <<issued, held>> PROVE Quiet
  <2>1. << >> \in Seq(Sound) /\ \A i \in 1 .. Len(<< >>) : << >>[i].op # "GET" OBVIOUS
  <2>2. QED BY <1>1, <1>2, <2>1
<1>3. ASSUME NEW k \in Sound, k.op # "GET", NEW say, Callback(w, <<k>>, say), UNCHANGED <<issued, held>>
      PROVE  Quiet
  <2>1. <<k>> \in Seq(Sound) /\ \A i \in 1 .. Len(<<k>>) : <<k>>[i].op # "GET" BY <1>3
  <2>2. QED BY <1>1, <1>3, <2>1
<1>4. ASSUME NEW method \in TokenMethods, NEW op \in {"HMSET", "HGETALL", "KEYS"}, TokenReply(w, method),
             Callback(w, <<Command(op, Mobile(w), None, op, Caller(w))>>, Nothing)
      PROVE  Quiet
  <2>1. PICK k : k = Command(op, Mobile(w), None, op, Caller(w)) OBVIOUS
  <2>2. k \in Sound BY <1>4, <2>1, SecondSound
  <2>3. k.op # "GET" BY <2>1 DEF Command
  <2>4. UNCHANGED <<issued, held>> BY <1>4 DEF TokenReply
  <2>5. Callback(w, <<k>>, Nothing) BY <1>4, <2>1
  <2> HIDE DEF Quiet
  <2>6. QED BY <1>3, <2>2, <2>3, <2>4, <2>5
<1>5. ASSUME commands' = commands, UNCHANGED <<store, issued, held>> PROVE Quiet
  <2>1. << >> \in Seq(Sound) /\ \A i \in 1 .. Len(<< >>) : << >>[i].op # "GET" OBVIOUS
  <2>2. commands[w] \in Seq(Sound) /\ commands \in [Threads -> Seq(Sound)] BY DEF IInv
  <2>3. commands' = [commands EXCEPT ![w] = @ \o << >>] BY <1>5, <2>2
  <2>4. QED BY <1>5, <2>1, <2>3
<1> HIDE DEF Quiet
<1>6. CASE RegisterReply(w) BY <1>2, <1>6, RegisterOutcome DEF Quiet
<1>7. CASE LoginReply(w) BY <1>2, <1>7, LoginOutcome DEF Quiet
<1>8. CASE TokenWrong(w) BY <1>2, <1>8 DEF TokenWrong, Quiet
<1>9. CASE LoginWithTokenReply(w) BY <1>2, <1>9 DEF LoginWithTokenReply, TokenReply, Quiet
<1>10. CASE UploadDataReply(w) BY <1>4, <1>10 DEF UploadDataReply, TokenMethods, Quiet
<1>11. CASE HMSETReply(w) BY <1>2, <1>11 DEF HMSETReply, Quiet
<1>12. CASE GetBaseInfoReply(w) BY <1>4, <1>12 DEF GetBaseInfoReply, TokenMethods, Quiet
<1>13. CASE HGETALLReply(w) BY <1>2, <1>13 DEF HGETALLReply, Quiet
<1>14. CASE ApplyForLoanReply(w) BY <1>2, <1>14 DEF ApplyForLoanReply, TokenReply, Quiet
<1>15. CASE SetSwitchInfoReply(w)
  <2>1. PICK k \in Sound : k.op = "HSET" /\ Callback(w, <<k>>, Say("OK", None))
    BY <1>15, SetSwitchInfoReplySends
  <2>2. UNCHANGED <<issued, held>> BY <1>15 DEF SetSwitchInfoReply, TokenReply
  <2>3. QED BY <1>3, <2>1, <2>2 DEF Quiet
<1>16. CASE GetSwitchInfoReply(w) BY <1>4, <1>16 DEF GetSwitchInfoReply, TokenMethods, Quiet
<1>17. CASE KEYSReply(w)
  <2>1. PICK names \in Seq(Switches), q \in Seq(Sound) :
          /\ \A i \in 1 .. Len(q) : q[i] = Command("HGET", names[i], None, "switch", Caller(w))
          /\ \E say : Callback(w, q, say)
    BY <1>17, KEYSReplySends
  <2>2. ASSUME NEW i \in 1 .. Len(q) PROVE q[i].op # "GET"
    <3>1. q[i] = Command("HGET", names[i], None, "switch", Caller(w)) BY <2>1
    <3>2. Command("HGET", names[i], None, "switch", Caller(w)).op = "HGET" BY DEF Command
    <3>3. QED BY <3>1, <3>2
  <2>3. UNCHANGED <<issued, held>> BY <1>17 DEF KEYSReply
  <2>4. QED BY <1>1, <2>1, <2>2, <2>3 DEF Quiet
<1>18. CASE SwitchReply(w) BY <1>2, <1>18 DEF SwitchReply, Quiet
<1>19. CASE IgnoredReply(w) BY <1>5, <1>19 DEF IgnoredReply, clients, Quiet
<1>20. CASE ReportReply(w) BY <1>5, <1>20 DEF ReportReply, clients, Quiet
<1>21. QED
  BY <1>6, <1>7, <1>8, <1>9, <1>10, <1>11, <1>12, <1>13, <1>14, <1>15, <1>16, <1>17, <1>18, <1>19, <1>20
     DEF Thread, Quiet

Kept(t) == t \in expired \/ \E e \in tokens : e.token = t

\* The SETEX of token t among the first n commands of queue q.
Sets(q, t, n) == \E i \in 1 .. n : q[i].op = "SETEX" /\ q[i].key = t
Gets(q, t, i) == q[i].op = "GET" /\ q[i].key = t

\* Token t with the queues f, kept or not.
Arrives(f, kept, t) ==
  /\ kept \/ \E w \in Threads : Sets(f[w], t, Len(f[w]))
  /\ \A w \in Threads : \A i \in 1 .. Len(f[w]) : Gets(f[w], t, i) =>
       kept \/ Sets(f[w], t, i - 1) \/ \E v \in Threads \ {w} : Sets(f[v], t, Len(f[v]))

\* Queues g are queues f with commands added, or with one fewer.
Added(f, g, w, q) == g = [f EXCEPT ![w] = @ \o q]
Taken(f, g, w)    == f[w] # << >> /\ g = [f EXCEPT ![w] = Tail(@)]

\* Commands are added, whichever they are.
LEMMA ArrivesAdded ==
  ASSUME NEW S, NEW f \in [Threads -> Seq(S)], NEW g, NEW w \in Threads, NEW q \in Seq(S), Added(f, g, w, q),
         NEW kept \in BOOLEAN, NEW still \in BOOLEAN, kept => still, NEW t, Arrives(f, kept, t)
  PROVE  Arrives(g, still, t)
<1>1. /\ \A v \in Threads : Len(f[v]) \in Nat
      /\ \A v \in Threads \ {w} : g[v] = f[v]
      /\ g[w] = f[w] \o q /\ Len(q) \in Nat
  BY DEF Added
<1>2. Len(g[w]) = Len(f[w]) + Len(q) /\ \A i \in 1 .. Len(f[w]) : g[w][i] = f[w][i]
  BY <1>1
<1>3. \A v \in Threads : /\ Len(g[v]) \in Nat /\ Len(f[v]) <= Len(g[v])
                         /\ \A i \in 1 .. Len(f[v]) : g[v][i] = f[v][i]
                         /\ v # w => Len(g[v]) = Len(f[v])
  BY <1>1, <1>2
<1>4. ASSUME NEW v \in Threads, NEW n \in 0 .. Len(f[v]), NEW m \in Nat, n <= m, Sets(f[v], t, n)
      PROVE  Sets(g[v], t, m)
  <2>1. PICK i \in 1 .. n : f[v][i].op = "SETEX" /\ f[v][i].key = t BY <1>4 DEF Sets
  <2>2. i \in 1 .. m /\ i \in 1 .. Len(f[v]) BY <1>1, <1>4
  <2>3. g[v][i] = f[v][i] BY <1>3, <2>2
  <2>4. QED BY <2>1, <2>2, <2>3 DEF Sets
<1>5. \A v \in Threads : Sets(f[v], t, Len(f[v])) => Sets(g[v], t, Len(g[v]))
  <2>1. \A v \in Threads : Len(f[v]) \in 0 .. Len(f[v]) BY <1>1
  <2>2. QED BY <1>3, <1>4, <2>1
<1>6. still \/ \E v \in Threads : Sets(g[v], t, Len(g[v])) BY <1>5 DEF Arrives
<1>7. ASSUME NEW u \in Threads, NEW i \in 1 .. Len(g[u]), Gets(g[u], t, i)
      PROVE  still \/ Sets(g[u], t, i - 1) \/ \E v \in Threads \ {u} : Sets(g[v], t, Len(g[v]))
  <2>1. CASE i \in 1 .. Len(f[u])
    <3>1. Gets(f[u], t, i) BY <1>3, <1>7, <2>1 DEF Gets
    <3>2. kept \/ Sets(f[u], t, i - 1) \/ \E v \in Threads \ {u} : Sets(f[v], t, Len(f[v]))
      BY <2>1, <3>1 DEF Arrives
    <3>3. i - 1 \in 0 .. Len(f[u]) /\ i - 1 \in Nat BY <1>1, <2>1
    <3>4. Sets(f[u], t, i - 1) => Sets(g[u], t, i - 1) BY <1>4, <3>3
    <3>5. QED BY <1>5, <3>2, <3>4
  <2>2. CASE ~ (i \in 1 .. Len(f[u]))
    <3>1. Len(f[u]) \in 0 .. Len(f[u]) /\ i - 1 \in Nat /\ Len(f[u]) <= i - 1 BY <1>1, <1>3, <2>2
    <3>2. Sets(f[u], t, Len(f[u])) => Sets(g[u], t, i - 1) BY <1>4, <3>1
    <3>3. QED BY <1>5, <3>2 DEF Arrives
  <2>3. QED BY <2>1, <2>2
<1>8. QED BY <1>6, <1>7 DEF Arrives

\* The first command of a queue is executed.
LEMMA ArrivesExecuted ==
  ASSUME NEW S, NEW f \in [Threads -> Seq(S)], NEW g, NEW w \in Threads, Taken(f, g, w),
         NEW kept \in BOOLEAN, NEW still \in BOOLEAN, kept => still, NEW t, Arrives(f, kept, t),
         Head(f[w]).op = "SETEX" /\ Head(f[w]).key = t => still
  PROVE  Arrives(g, still, t)
<1>1. /\ \A v \in Threads : Len(f[v]) \in Nat
      /\ \A v \in Threads \ {w} : g[v] = f[v]
      /\ g[w] = Tail(f[w]) /\ Len(f[w]) \in Nat \ {0} /\ Head(f[w]) = f[w][1]
  BY DEF Taken
<1>2. Len(g[w]) = Len(f[w]) - 1 /\ \A i \in 1 .. Len(f[w]) - 1 : g[w][i] = f[w][i + 1]
  BY <1>1
<1>3. ASSUME still PROVE Arrives(g, still, t) BY <1>3 DEF Arrives
<1>4. ASSUME ~ still PROVE Arrives(g, still, t)
  <2>1. ~ kept /\ ~ (f[w][1].op = "SETEX" /\ f[w][1].key = t) BY <1>1, <1>4
  <2>2. ASSUME NEW n \in 1 .. Len(f[w]), Sets(f[w], t, n) PROVE Sets(g[w], t, n - 1)
    <3>1. PICK i \in 1 .. n : f[w][i].op = "SETEX" /\ f[w][i].key = t BY <2>2 DEF Sets
    <3>2. i # 1 BY <2>1, <3>1
    <3>3. PICK j \in Int : j = i - 1 OBVIOUS
    <3>4. j \in 1 .. n - 1 /\ j \in 1 .. Len(f[w]) - 1 /\ j + 1 = i BY <1>1, <3>2, <3>3
    <3>5. g[w][j] = f[w][i] BY <1>2, <3>4
    <3>6. QED BY <3>1, <3>4, <3>5 DEF Sets
  <2>3. \A v \in Threads : Sets(f[v], t, Len(f[v])) => Sets(g[v], t, Len(g[v]))
    <3>1. Len(f[w]) \in 1 .. Len(f[w]) BY <1>1
    <3>2. Sets(f[w], t, Len(f[w])) => Sets(g[w], t, Len(g[w])) BY <1>2, <2>2, <3>1
    <3>3. QED BY <1>1, <3>2
  <2>4. \E v \in Threads : Sets(g[v], t, Len(g[v])) BY <2>1, <2>3 DEF Arrives
  <2>5. ASSUME NEW u \in Threads, NEW i \in 1 .. Len(g[u]), Gets(g[u], t, i)
        PROVE  Sets(g[u], t, i - 1) \/ \E v \in Threads \ {u} : Sets(g[v], t, Len(g[v]))
    <3>1. CASE u # w
      <4>1. Gets(f[u], t, i) /\ i \in 1 .. Len(f[u]) /\ g[u] = f[u] BY <1>1, <2>5, <3>1
      <4>2. Sets(f[u], t, i - 1) \/ \E v \in Threads \ {u} : Sets(f[v], t, Len(f[v]))
        BY <2>1, <4>1 DEF Arrives
      <4>3. QED BY <2>3, <4>1, <4>2
    <3>2. CASE u = w
      <4>1. PICK k \in Int : k = i + 1 OBVIOUS
      <4>2. k \in 1 .. Len(f[w]) /\ i \in 1 .. Len(f[w]) /\ k - 1 = i /\ g[w][i] = f[w][k]
        BY <1>1, <1>2, <3>2, <4>1
      <4>3. Gets(f[w], t, k) BY <2>5, <3>2, <4>2 DEF Gets
      <4>4. Sets(f[w], t, k - 1) \/ \E v \in Threads \ {w} : Sets(f[v], t, Len(f[v]))
        BY <2>1, <4>2, <4>3 DEF Arrives
      <4>5. Sets(f[w], t, i) => Sets(g[w], t, i - 1) BY <2>2, <4>2
      <4>6. QED BY <2>3, <3>2, <4>2, <4>4, <4>5
    <3>3. QED BY <3>1, <3>2
  <2>6. QED BY <2>4, <2>5 DEF Arrives
<1>5. QED BY <1>3, <1>4

\* A new token, and its SETEX.
LEMMA ArrivesNew ==
  ASSUME NEW S, NEW f \in [Threads -> Seq(S)], NEW g, NEW w \in Threads, NEW k \in S, Added(f, g, w, <<k>>),
         NEW kept \in BOOLEAN, NEW t, k.op = "SETEX", k.key = t,
         \A v \in Threads : \A i \in 1 .. Len(f[v]) : ~ Gets(f[v], t, i)
  PROVE  Arrives(g, kept, t)
<1>1. /\ Len(f[w]) \in Nat /\ \A v \in Threads \ {w} : g[v] = f[v]
      /\ g[w] = f[w] \o <<k>> /\ <<k>> \in Seq(S) /\ Len(<<k>>) = 1 /\ <<k>>[1] = k
  BY DEF Added
<1>2. /\ Len(g[w]) = Len(f[w]) + 1 /\ g[w][Len(f[w]) + 1] = k
      /\ \A i \in 1 .. Len(f[w]) : g[w][i] = f[w][i]
  BY <1>1
<1>3. Sets(g[w], t, Len(g[w]))
  <2>1. Len(f[w]) + 1 \in 1 .. Len(g[w]) BY <1>1, <1>2
  <2>2. QED BY <1>2, <2>1 DEF Sets
<1>4. ASSUME NEW v \in Threads, NEW i \in 1 .. Len(g[v]) PROVE ~ Gets(g[v], t, i)
  <2>1. CASE v # w BY <1>1, <2>1
  <2>2. CASE v = w /\ i \in 1 .. Len(f[w])
    <3>1. g[w][i] = f[w][i] /\ ~ Gets(f[w], t, i) BY <1>2, <2>2
    <3>2. QED BY <2>2, <3>1 DEF Gets
  <2>3. CASE v = w /\ i = Len(f[w]) + 1
    <3>1. g[v][i] = k BY <1>2, <2>3
    <3>2. QED BY <3>1 DEF Gets
  <2>4. QED BY <1>1, <1>2, <2>1, <2>2, <2>3
<1>5. QED BY <1>3, <1>4 DEF Arrives

\* What a client may rely on: no token is asked for that has not been generated, and
\* the one it holds arrives.
TokensKnown ==
  /\ \A c \in Clients : held[c] # None => held[c].at <= issued
  /\ \A w \in Threads : \A i \in 1 .. Len(commands[w]) :
       commands[w][i].op = "GET" => commands[w][i].key.at <= issued

Awaited(c) == held[c] # None => Arrives(commands, Kept(held[c]), held[c])

TokensAwaited == TokensKnown /\ \A c \in Clients : Awaited(c)

\* No token that is stored is lost before its time.
Lasting == expired \subseteq expired' /\ \A e \in tokens : e \in tokens' \/ e.token \in expired'

LEMMA KeptLasts ==
  ASSUME Lasting
  PROVE  \A t : Kept(t) \in BOOLEAN /\ Kept(t)' \in BOOLEAN /\ (Kept(t) => Kept(t)')
BY DEF Lasting, Kept

\* A thread sends commands that ask for tokens that have been generated.
LEMMA SentAwaited ==
  ASSUME IInv, TokensAwaited, Lasting, UNCHANGED <<issued, held>>, NEW w \in Threads, NEW q \in Seq(Sound),
         \A i \in 1 .. Len(q) : q[i].op = "GET" => q[i].key.at <= issued,
         commands' = [commands EXCEPT ![w] = @ \o q]
  PROVE  TokensAwaited'
<1>1. commands \in [Threads -> Seq(Sound)] BY DEF IInv
<1>2. ASSUME NEW c \in Clients PROVE Awaited(c)'
  <2>1. CASE held[c] = None BY <2>1 DEF Awaited
  <2>2. CASE held[c] # None
    <3>1. PICK t : t = held[c] OBVIOUS
    <3>2. PICK kept \in BOOLEAN : kept = Kept(t) BY KeptLasts
    <3>3. PICK still \in BOOLEAN : still = Kept(t)' BY KeptLasts
    <3>4. (kept => still) /\ Arrives(commands, kept, t) BY <2>2, <3>1, <3>2, <3>3, KeptLasts DEF TokensAwaited, Awaited
    <3>5. Added(commands, commands', w, q) BY DEF Added
    <3>6. Arrives(commands', still, t) BY <1>1, <3>4, <3>5, ArrivesAdded
    <3>7. QED BY <3>1, <3>3, <3>6 DEF Awaited
  <2>3. QED BY <2>1, <2>2
<1>3. \A v \in Threads : \A i \in 1 .. Len(commands'[v]) :
        commands'[v][i].op = "GET" => commands'[v][i].key.at <= issued
  <2>1. \A v \in Threads \ {w} : commands'[v] = commands[v] BY <1>1
  <2>2. commands'[w] = commands[w] \o q /\ commands[w] \in Seq(Sound) BY <1>1
  <2>3. /\ Len(commands'[w]) = Len(commands[w]) + Len(q) /\ Len(commands[w]) \in Nat /\ Len(q) \in Nat
        /\ \A i \in 1 .. Len(commands[w]) + Len(q) : commands'[w][i] =
             IF i <= Len(commands[w]) THEN commands[w][i] ELSE q[i - Len(commands[w])]
    <3>1. PICK a \in Seq(Sound) : a = commands[w] BY <2>2
    <3>2. /\ Len(a \o q) = Len(a) + Len(q) /\ Len(a) \in Nat /\ Len(q) \in Nat
          /\ \A i \in 1 .. Len(a) + Len(q) :
               (a \o q)[i] = IF i <= Len(a) THEN a[i] ELSE q[i - Len(a)]
      BY ConcatProperties, LenProperties
    <3>3. QED BY <2>2, <3>1, <3>2
  <2>4. ASSUME NEW i \in 1 .. Len(commands'[w]), commands'[w][i].op = "GET"
        PROVE  commands'[w][i].key.at <= issued
    <3>1. CASE i <= Len(commands[w])
      <4>1. i \in 1 .. Len(commands[w]) /\ commands'[w][i] = commands[w][i] BY <2>3, <3>1
      <4>2. QED BY <2>4, <4>1 DEF TokensAwaited, TokensKnown
    <3>2. CASE ~ (i <= Len(commands[w]))
      <4>1. PICK j : j = i - Len(commands[w]) OBVIOUS
      <4>2. j \in 1 .. Len(q) /\ commands'[w][i] = q[j] BY <2>3, <3>2, <4>1
      <4>3. QED BY <2>4, <4>2
    <3>3. QED BY <3>1, <3>2
  <2>5. QED BY <2>1, <2>4 DEF TokensAwaited, TokensKnown
<1>4. TokensKnown' BY <1>3 DEF TokensAwaited, TokensKnown
<1>5. QED BY <1>2, <1>4 DEF TokensAwaited

\* The commands stay.
LEMMA AsideAwaited ==
  ASSUME IInv, TokensAwaited, Lasting, UNCHANGED <<issued, held, commands>>
  PROVE  TokensAwaited'
<1>1. TokensKnown' BY DEF TokensAwaited, TokensKnown
<1>2. ASSUME NEW c \in Clients PROVE Awaited(c)'
  <2>1. Kept(held[c]) => Kept(held[c])' BY KeptLasts
  <2>2. QED BY <2>1 DEF TokensAwaited, Awaited, Arrives
<1>3. QED BY <1>1, <1>2 DEF TokensAwaited

\* Redis executes a command; a token that is set is kept.
LEMMA ExecutedAwaited ==
  ASSUME IInv, TokensAwaited, Lasting, UNCHANGED <<issued, held>>, NEW w \in Threads, commands[w] # << >>,
         NEW k, k = Head(commands[w]), k.op = "SETEX" => Kept(k.key)',
         commands' = [commands EXCEPT ![w] = Tail(@)]
  PROVE  TokensAwaited'
<1>1. commands \in [Threads -> Seq(Sound)] BY DEF IInv
<1>2. ASSUME NEW c \in Clients PROVE Awaited(c)'
  <2>1. CASE held[c] = None BY <2>1 DEF Awaited
  <2>2. CASE held[c] # None
    <3>1. PICK t : t = held[c] OBVIOUS
    <3>2. PICK kept \in BOOLEAN : kept = Kept(t) BY KeptLasts
    <3>3. PICK still \in BOOLEAN : still = Kept(t)' BY KeptLasts
    <3>4. (kept => still) /\ Arrives(commands, kept, t) BY <2>2, <3>1, <3>2, <3>3, KeptLasts DEF TokensAwaited, Awaited
    <3>5. Head(commands[w]).op = "SETEX" /\ Head(commands[w]).key = t => still BY <3>3
    <3>6. Taken(commands, commands', w) BY DEF Taken
    <3>7. Arrives(commands', still, t) BY <1>1, <3>4, <3>5, <3>6, ArrivesExecuted
    <3>8. QED BY <3>1, <3>3, <3>7 DEF Awaited
  <2>3. QED BY <2>1, <2>2
<1>3. \A v \in Threads : \A i \in 1 .. Len(commands'[v]) :
        commands'[v][i].op = "GET" => commands'[v][i].key.at <= issued
  <2>1. \A v \in Threads \ {w} : commands'[v] = commands[v] BY <1>1
  <2>2. commands'[w] = Tail(commands[w]) /\ commands[w] \in Seq(Sound) BY <1>1
  <2>3. /\ Len(commands'[w]) = Len(commands[w]) - 1 /\ Len(commands[w]) \in Nat \ {0}
        /\ \A i \in 1 .. Len(commands[w]) - 1 : commands'[w][i] = commands[w][i + 1]
    BY <2>2, TailElements
  <2>4. ASSUME NEW i \in 1 .. Len(commands'[w]), commands'[w][i].op = "GET"
        PROVE  commands'[w][i].key.at <= issued
    <3>1. PICK j : j = i + 1 OBVIOUS
    <3>2. j \in 1 .. Len(commands[w]) /\ commands'[w][i] = commands[w][j] BY <2>3, <3>1
    <3>3. QED BY <2>4, <3>2 DEF TokensAwaited, TokensKnown
  <2>5. QED BY <2>1, <2>4 DEF TokensAwaited, TokensKnown
<1>4. TokensKnown' BY <1>3 DEF TokensAwaited, TokensKnown
<1>5. QED BY <1>2, <1>4 DEF TokensAwaited

LEMMA RedisAwaited == ASSUME IInv, TokensAwaited, NEW w \in Threads, Redis(w) PROVE TokensAwaited'
<1>1. /\ commands[w] # << >> /\ commands' = [commands EXCEPT ![w] = Tail(@)]
      /\ expired' = expired /\ UNCHANGED <<issued, held>>
  BY DEF Redis, HSETNX, HGET, SETEX, GET, HMSET, HGETALL, HSET, KEYS, EVAL, Executes, Reply, ReplyArray,
         store, clients
<1>2. CASE SETEX(w)
  <2>1. tokens' = tokens \cup {[token |-> Head(commands[w]).key, mobile |-> Head(commands[w]).val]}
    BY <1>2 DEF SETEX
  <2>2. Lasting BY <1>1, <2>1 DEF Lasting
  <2>3. PICK k : k = Head(commands[w]) OBVIOUS
  <2>4. PICK e : e = [token |-> Head(commands[w]).key, mobile |-> Head(commands[w]).val] OBVIOUS
  <2>5. e \in tokens' /\ e.token = k.key BY <2>1, <2>3, <2>4
  <2>6. Kept(k.key)' BY <2>5 DEF Kept
  <2>7. QED BY <1>1, <2>2, <2>3, <2>6, ExecutedAwaited
<1>3. CASE ~ SETEX(w)
  <2>1. tokens' = tokens /\ Head(commands[w]).op # "SETEX"
    BY <1>3 DEF Redis, HSETNX, HGET, GET, HMSET, HGETALL, HSET, KEYS, EVAL, Executes, store
  <2>2. Lasting BY <1>1, <2>1 DEF Lasting
  <2>3. QED BY <1>1, <2>1, <2>2, ExecutedAwaited
<1>4. QED BY <1>2, <1>3

\* A client asks for the token it holds.
LEMMA MethodAwaited == ASSUME IInv, TokensAwaited, NEW c \in Clients, Method(c) PROVE TokensAwaited'
<1>0. PICK k \in Sound : \E refusal : Asks(c, k) /\ Call(c, k.fn, k, refusal) BY MethodSends
<1>1. PICK refusal : Asks(c, k) /\ Call(c, k.fn, k, refusal) BY <1>0
<1>2. UNCHANGED <<store, issued, held>> BY <1>1 DEF Call
<1>3. Lasting BY <1>2 DEF Lasting, store
<1>4. PICK w \in Threads : commands' = commands \/ commands' = [commands EXCEPT ![w] = Append(@, k)]
  BY <1>1 DEF Call
<1>5. CASE commands' = commands BY <1>2, <1>3, <1>5, AsideAwaited
<1>6. CASE commands' = [commands EXCEPT ![w] = Append(@, k)]
  <2>1. commands[w] \in Seq(Sound) BY DEF IInv
  <2>2. Append(commands[w], k) = commands[w] \o <<k>> BY <2>1
  <2>3. commands' = [commands EXCEPT ![w] = @ \o <<k>>] BY <1>6, <2>2
  <2>4. k.op = "GET" => k.key.at <= issued BY <1>1 DEF Asks, TokensAwaited, TokensKnown
  <2>5. <<k>> \in Seq(Sound) /\ \A i \in 1 .. Len(<<k>>) : <<k>>[i] = k OBVIOUS
  <2>6. PICK q : q = <<k>> OBVIOUS
  <2>7. q \in Seq(Sound) /\ \A i \in 1 .. Len(q) : q[i].op = "GET" => q[i].key.at <= issued
    BY <2>4, <2>5, <2>6
  <2>8. commands' = [commands EXCEPT ![w] = @ \o q] BY <2>3, <2>6
  <2>9. QED BY <1>2, <1>3, <2>7, <2>8, SentAwaited
<1>7. QED BY <1>4, <1>5, <1>6

\* A client gets a token that nobody has asked for, and its SETEX is on its way.
LEMMA WelcomeAwaited ==
  ASSUME IInv, TokensAwaited, NEW w \in Threads, MayWelcome(w), Welcome(w)
  PROVE  TokensAwaited'
<1> DEFINE by == Head(replies[w]).to.by
<1>1. PICK t \in Tokens, new \in Sound :
        /\ t.at = issued + 1 /\ new.op = "SETEX" /\ new.key = t
        /\ issued' = issued + 1 /\ held' = [held EXCEPT ![by] = t]
        /\ Callback(w, <<new>>, Say("OK", None))
  BY WelcomeSends
<1>2. /\ commands \in [Threads -> Seq(Sound)] /\ issued \in Nat /\ held \in [Clients -> Tokens \cup {None}]
      /\ by \in Clients
  BY DEF IInv, TypeOK, MayWelcome
<1> HIDE DEF by
<1>3. UNCHANGED store /\ commands' = [commands EXCEPT ![w] = @ \o <<new>>] BY <1>1 DEF Callback
<1>4. Lasting BY <1>3 DEF Lasting, store
<1>5. ASSUME NEW v \in Threads, NEW i \in 1 .. Len(commands[v])
      PROVE  /\ commands[v][i].op = "GET" => /\ commands[v][i].key.at <= issued
                                             /\ commands[v][i].key.at \in Nat
             /\ ~ Gets(commands[v], t, i)
  <2>1. commands[v][i].op = "GET" => commands[v][i].key.at <= issued BY DEF TokensAwaited, TokensKnown
  <2>2. commands[v][i] \in Sound BY <1>2
  <2>3. commands[v][i].op = "GET" => commands[v][i].key.at \in Nat BY <2>2 DEF Sound, Formed, Tokens
  <2>4. QED BY <1>1, <1>2, <2>1, <2>3 DEF Gets
<1>6. ASSUME NEW c \in Clients PROVE Awaited(c)'
  <2>1. CASE c = by
    <3>1. held'[c] = t BY <1>1, <1>2, <2>1
    <3>2. PICK still \in BOOLEAN : still = Kept(t)' BY <1>4, KeptLasts
    <3>3. Added(commands, commands', w, <<new>>) BY <1>3 DEF Added
    <3>4. \A u \in Threads : \A i \in 1 .. Len(commands[u]) : ~ Gets(commands[u], t, i) BY <1>5
    <3>5. Arrives(commands', still, t) BY <1>1, <1>2, <3>3, <3>4, ArrivesNew
    <3>6. QED BY <3>1, <3>2, <3>5 DEF Awaited
  <2>2. CASE c # by
    <3>1. held'[c] = held[c] BY <1>1, <1>2, <2>2
    <3>2. CASE held[c] = None BY <3>1, <3>2 DEF Awaited
    <3>3. CASE held[c] # None
      <4>1. PICK x : x = held[c] OBVIOUS
      <4>2. PICK kept \in BOOLEAN : kept = Kept(x) BY <1>4, KeptLasts
      <4>3. PICK still \in BOOLEAN : still = Kept(x)' BY <1>4, KeptLasts
      <4>4. (kept => still) /\ Arrives(commands, kept, x)
        BY <1>4, <3>3, <4>1, <4>2, <4>3, KeptLasts DEF TokensAwaited, Awaited
      <4>5. <<new>> \in Seq(Sound) BY <1>1
      <4>6. PICK q : q = <<new>> OBVIOUS
      <4>7. q \in Seq(Sound) /\ Added(commands, commands', w, q) BY <1>3, <4>5, <4>6 DEF Added
      <4>8. Arrives(commands', still, x) BY <1>2, <4>4, <4>7, ArrivesAdded
      <4>9. QED BY <3>1, <4>1, <4>3, <4>8 DEF Awaited
    <3>4. QED BY <3>2, <3>3
  <2>3. QED BY <2>1, <2>2
<1>7. TokensKnown'
  <2>1. ASSUME NEW c \in Clients, held'[c] # None PROVE held'[c].at <= issued'
    <3>1. CASE c = by
      <4>1. held'[c] = t BY <1>1, <1>2, <3>1
      <4>2. QED BY <1>1, <1>2, <4>1
    <3>2. CASE c # by
      <4>1. held'[c] = held[c] /\ held[c] \in Tokens BY <1>1, <1>2, <2>1, <3>2
      <4>2. held[c].at <= issued /\ held[c].at \in Nat BY <2>1, <4>1 DEF TokensAwaited, TokensKnown, Tokens
      <4>3. QED BY <1>1, <1>2, <4>1, <4>2
    <3>3. QED BY <3>1, <3>2
  <2>2. ASSUME NEW v \in Threads, NEW i \in 1 .. Len(commands'[v]), commands'[v][i].op = "GET"
        PROVE  commands'[v][i].key.at <= issued'
    <3>1. i \in 1 .. Len(commands[v]) /\ commands'[v][i] = commands[v][i]
      <4>1. CASE v # w
        <5>1. commands'[v] = commands[v] BY <1>2, <1>3, <4>1
        <5>2. QED BY <2>2, <5>1
      <4>2. CASE v = w
        <5>1. commands'[w] = commands[w] \o <<new>> /\ commands[w] \in Seq(Sound) BY <1>2, <1>3
        <5>2. /\ Len(commands'[w]) = Len(commands[w]) + 1 /\ Len(commands[w]) \in Nat
              /\ commands'[w][Len(commands[w]) + 1] = new
              /\ \A j \in 1 .. Len(commands[w]) : commands'[w][j] = commands[w][j]
          BY <5>1
        <5>3. new.op # "GET" BY <1>1
        <5>4. i # Len(commands[w]) + 1 BY <2>2, <4>2, <5>2, <5>3
        <5>5. i \in 1 .. Len(commands[w]) BY <4>2, <5>2, <5>4
        <5>6. QED BY <4>2, <5>2, <5>5
      <4>3. QED BY <4>1, <4>2
    <3>2. commands[v][i].key.at <= issued /\ commands[v][i].key.at \in Nat BY <1>5, <2>2, <3>1
    <3>3. QED BY <1>1, <1>2, <3>1, <3>2
  <2>3. QED BY <2>1, <2>2 DEF TokensKnown
<1>8. QED BY <1>6, <1>7 DEF TokensAwaited

LEMMA ThreadAwaited == ASSUME IInv, TokensAwaited, NEW w \in Threads, Thread(w) PROVE TokensAwaited'
<1>1. CASE MayWelcome(w) /\ Welcome(w) BY <1>1, WelcomeAwaited
<1>2. CASE /\ UNCHANGED <<store, issued, held>>
           /\ \E q \in Seq(Sound) : /\ \A i \in 1 .. Len(q) : q[i].op # "GET"
                                    /\ commands' = [commands EXCEPT ![w] = @ \o q]
  <2>1. Lasting BY <1>2 DEF Lasting, store
  <2>2. QED BY <1>2, <2>1, SentAwaited
<1>3. QED BY <1>1, <1>2, ThreadSends

LEMMA NextAwaited == ASSUME IInv, TokensAwaited, [Next]_vars PROVE TokensAwaited'
<1>1. CASE \E c \in Clients : Method(c) BY <1>1, MethodAwaited
<1>2. CASE \E w \in Threads : Redis(w) \/ Thread(w) BY <1>2, RedisAwaited, ThreadAwaited
<1>3. CASE Expire
  <2>1. Lasting BY <1>3 DEF Expire, Lasting
  <2>2. UNCHANGED <<issued, held, commands>> BY <1>3 DEF Expire, threads, clients
  <2>3. QED BY <2>1, <2>2, AsideAwaited
<1>4. CASE Report
  <2>1. Gateway \in Threads /\ UNCHANGED <<store, replies, issued, clients, gateway>> BY <1>4, ReportSends
  <2>2. PICK q \in Seq(Sound) :
          /\ \A i \in 1 .. Len(q) : q[i].op = "EVAL"
          /\ commands' = [commands EXCEPT ![Gateway] = @ \o q]
    BY <1>4, ReportSends
  <2>3. Lasting /\ UNCHANGED <<issued, held>> BY <2>1 DEF Lasting, store, clients
  <2>4. \A i \in 1 .. Len(q) : q[i].op = "GET" => q[i].key.at <= issued BY <2>2
  <2>5. QED BY <2>1, <2>2, <2>3, <2>4, SentAwaited
<1>5. CASE Obey \/ Press \/ UNCHANGED vars
  <2>1. UNCHANGED <<store, issued, held, commands>> BY <1>5 DEF Obey, Press, vars, threads, clients
  <2>2. Lasting BY <2>1 DEF Lasting, store
  <2>3. QED BY <2>1, <2>2, AsideAwaited
<1>6. QED BY <1>1, <1>2, <1>3, <1>4, <1>5 DEF Next

LEMMA InitAwaited == Init => TokensAwaited
<1> SUFFICES ASSUME Init PROVE TokensAwaited
  OBVIOUS
<1>1. (\A c \in Clients : held[c] = None) /\ \A w \in Threads : commands[w] = << >> BY DEF Init
<1>2. QED BY <1>1 DEF TokensAwaited, TokensKnown, Awaited

-----------------------------------------------------------------------------
(* Answers that are up to date. What becomes of a request is on the line of some thread: *)
(* the commands that replies answer, and those still to be executed.                      *)

Length(r, k) == Len(r) + Len(k)
Place(r, k, i) == IF i <= Len(r) THEN r[i].to ELSE k[i - Len(r)]

Size(w) == Length(replies[w], commands[w])
On(w, i) == Place(replies[w], commands[w], i)

\* A client has one command on all lines, or several that ask for switches, on one line.
Apart(c) ==
  \A v, w \in Threads : \A i \in 1 .. Size(v) : \A j \in 1 .. Size(w) :
    On(v, i).by = c /\ On(w, j).by = c =>
      v = w /\ (i = j \/ (On(v, i).fn = "switch" /\ On(w, j).fn = "switch"))

\* The command belongs to what the client has asked.
Suits(c, k) ==
  /\ asked[c] # None /\ k.fn \notin {"ignore", "report"}
  /\ k.fn \in TokenMethods \cup {"Register", "Login"} => asked[c].method = k.fn
  /\ k.fn \in TokenMethods => k.key = held[c]
  /\ k.fn = "HMSET" => asked[c].method = "UploadData"
  /\ k.fn = "HGETALL" => asked[c].method = "GetBaseInfo" /\ k.key = held[c].mobile
  /\ k.fn = "KEYS" => asked[c].method = "GetSwitchInfo" /\ k.key = held[c].mobile
  /\ k.fn = "switch" => asked[c].method = "GetSwitchInfo"

Fits(c) == \A w \in Threads : \A i \in 1 .. Size(w) : On(w, i).by = c => Suits(c, On(w, i))

\* What the client knew when it asked is in Redis.
Learned(c) == asked[c] # None =>
  /\ asked[c].method = "GetBaseInfo" =>
       \A m \in Mobiles : asked[c].known[m] \in Nat /\ asked[c].known[m] <= data[m]
  /\ asked[c].method = "GetSwitchInfo" => \A s \in asked[c].known : s \in Switches /\ status[s] # None

\* A switch the client knew is still asked for, or in its answer.
Seeks(c, k) == k.by = c /\ k.fn = "switch"
Sought(c, s) == \E w \in Threads : \E i \in 1 .. Size(w) : Seeks(c, On(w, i)) /\ On(w, i).key = s
Seeking(c) == \E w \in Threads : \E i \in 1 .. Size(w) : Seeks(c, On(w, i))
Listing(c) == Seeking(c) /\ held[c].mobile = Default =>
  \A s \in asked[c].known : Sought(c, s) \/ (answer[c].code = "OK" /\ s \in answer[c].about)

Standing(c) == Apart(c) /\ Fits(c) /\ Learned(c) /\ Listing(c)

\* The reply tells what the client knew.
Right(c, r) ==
  /\ r.to.fn \in TokenMethods /\ r.ret # None => r.ret = r.to.key.mobile
  /\ r.to.fn = "HGETALL" => r.ret \in Nat /\ asked[c].known[r.to.key] <= r.ret
  /\ r.to.fn = "KEYS" /\ r.to.key = Default => \A s \in asked[c].known : \E i \in 1 .. Len(r.names) : r.names[i] = s
  /\ r.to.fn = "switch" /\ r.to.key \in asked[c].known => r.ret # None

Told(c) == \A w \in Threads : \A i \in 1 .. Len(replies[w]) : replies[w][i].to.by = c => Right(c, replies[w][i])

\* Tokens lead to the mobile they are made from.
Named ==
  /\ \A e \in tokens : e.mobile = e.token.mobile
  /\ \A w \in Threads : \A i \in 1 .. Size(w) : On(w, i).op = "SETEX" => On(w, i).val = On(w, i).key.mobile

\* Clients that have not been told yet that their data are stored.
Waits(c, m, r) == r.to.by = c /\ r.to.fn = "HMSET" /\ r.to.key = m
Waiting(m) == {c \in Clients : \E w \in Threads : \E i \in 1 .. Len(replies[w]) : Waits(c, m, replies[w][i])}
Counted == \A m \in Mobiles : /\ IsFiniteSet(Waiting(m)) /\ acked[m] \in Nat
                              /\ acked[m] + Cardinality(Waiting(m)) <= data[m]

\* The shape of the clients' variables.
Shape ==
  /\ asked = [c \in Clients |-> asked[c]] /\ answer = [c \in Clients |-> answer[c]]
  /\ acked = [m \in Mobiles |-> acked[m]]

Answering == Shape /\ Named /\ Counted /\ \A c \in Clients : Standing(c) /\ Told(c)

-----------------------------------------------------------------------------
(* Lines *)

\* The line of w loses its first n commands and gets those of q; the others stay.
Lines(w, n, q) ==
  /\ \A v \in Threads \ {w} : Size(v)' = Size(v) /\ \A i \in 1 .. Size(v) : On(v, i)' = On(v, i)
  /\ Size(w)' = Size(w) - n + Len(q)
  /\ \A i \in 1 .. Size(w) - n : On(w, i)' = On(w, i + n)
  /\ \A j \in 1 .. Len(q) : \A i : i = Size(w) - n + j => On(w, i)' = q[j]

LEMMA PlaceType ==
  ASSUME NEW S, NEW T, NEW r \in Seq(S), NEW k \in Seq(T), \A x \in S : x.to \in T
  PROVE  /\ Length(r, k) \in Nat /\ Len(r) \in Nat /\ Len(r) <= Length(r, k)
         /\ \A i \in 1 .. Length(r, k) : Place(r, k, i) \in T
         /\ \A i \in 1 .. Len(r) : r[i] \in S /\ Place(r, k, i) = r[i].to
<1>1. /\ Len(r) \in Nat /\ Len(k) \in Nat
      /\ \A i \in 1 .. Len(r) : r[i] \in S
      /\ \A i \in 1 .. Len(k) : k[i] \in T
  OBVIOUS
<1>2. ASSUME NEW i \in 1 .. Length(r, k) PROVE Place(r, k, i) \in T
  <2>1. CASE i <= Len(r) BY <1>1, <2>1 DEF Place, Length
  <2>2. CASE ~ (i <= Len(r))
    <3>1. PICK j : j = i - Len(r) OBVIOUS
    <3>2. j \in 1 .. Len(k) BY <1>1, <2>2, <3>1 DEF Length
    <3>3. QED BY <1>1, <2>2, <3>1, <3>2 DEF Place
  <2>3. QED BY <2>1, <2>2
<1>3. QED BY <1>1, <1>2 DEF Place, Length

\* A command is executed: its reply is behind the others.
LEMMA PlaceExecuted ==
  ASSUME NEW S, NEW T, NEW r \in Seq(S), NEW k \in Seq(T), k # << >>, NEW x, x.to = Head(k)
  PROVE  /\ Length(Append(r, x), Tail(k)) = Length(r, k)
         /\ \A i \in 1 .. Length(r, k) : Place(Append(r, x), Tail(k), i) = Place(r, k, i)
<1>1. /\ Len(k) \in Nat \ {0} /\ Len(Tail(k)) = Len(k) - 1
      /\ \A i \in 1 .. Len(k) - 1 : Tail(k)[i] = k[i + 1]
      /\ x.to = k[1]
  BY TailElements
<1>2. /\ Len(r) \in Nat /\ Len(Append(r, x)) = Len(r) + 1
      /\ Append(r, x)[Len(r) + 1] = x
      /\ \A i \in 1 .. Len(r) : Append(r, x)[i] = r[i]
  OBVIOUS
<1>3. ASSUME NEW i \in 1 .. Length(r, k) PROVE Place(Append(r, x), Tail(k), i) = Place(r, k, i)
  <2>1. CASE i <= Len(r)
    <3>1. i \in 1 .. Len(r) /\ i <= Len(Append(r, x)) BY <1>2, <2>1 DEF Length
    <3>2. QED BY <1>2, <2>1, <3>1 DEF Place
  <2>2. CASE i = Len(r) + 1
    <3>1. i <= Len(Append(r, x)) /\ ~ (i <= Len(r)) /\ i - Len(r) = 1 BY <1>2, <2>2
    <3>2. QED BY <1>1, <1>2, <2>2, <3>1 DEF Place
  <2>3. CASE i > Len(r) + 1
    <3>1. ~ (i <= Len(Append(r, x))) /\ ~ (i <= Len(r)) BY <1>2, <2>3
    <3>2. PICK j : j = i - Len(Append(r, x)) OBVIOUS
    <3>3. j \in 1 .. Len(k) - 1 /\ j + 1 = i - Len(r) BY <1>1, <1>2, <2>3, <3>2 DEF Length
    <3>4. QED BY <1>1, <3>1, <3>2, <3>3 DEF Place
  <2>4. QED BY <1>2, <2>1, <2>2, <2>3 DEF Length
<1>4. QED BY <1>1, <1>2, <1>3 DEF Length

\* Commands are sent.
LEMMA PlaceSent ==
  ASSUME NEW S, NEW T, NEW r \in Seq(S), NEW k \in Seq(T), NEW q \in Seq(T)
  PROVE  /\ Length(r, k \o q) = Length(r, k) + Len(q)
         /\ \A i \in 1 .. Length(r, k) : Place(r, k \o q, i) = Place(r, k, i)
         /\ \A j \in 1 .. Len(q) : Place(r, k \o q, Length(r, k) + j) = q[j]
<1>1. /\ Len(r) \in Nat /\ Len(k) \in Nat /\ Len(q) \in Nat /\ Len(k \o q) = Len(k) + Len(q)
      /\ \A i \in 1 .. Len(k) : (k \o q)[i] = k[i]
      /\ \A j \in 1 .. Len(q) : (k \o q)[Len(k) + j] = q[j]
  OBVIOUS
<1>2. ASSUME NEW i \in 1 .. Length(r, k) PROVE Place(r, k \o q, i) = Place(r, k, i)
  <2>1. CASE i <= Len(r) BY <2>1 DEF Place
  <2>2. CASE ~ (i <= Len(r))
    <3>1. PICK j : j = i - Len(r) OBVIOUS
    <3>2. j \in 1 .. Len(k) BY <1>1, <2>2, <3>1 DEF Length
    <3>3. QED BY <1>1, <2>2, <3>1, <3>2 DEF Place
  <2>3. QED BY <2>1, <2>2
<1>3. ASSUME NEW j \in 1 .. Len(q) PROVE Place(r, k \o q, Length(r, k) + j) = q[j]
  <2>1. PICK n : n = Length(r, k) + j OBVIOUS
  <2>2. ~ (n <= Len(r)) /\ n - Len(r) = Len(k) + j BY <1>1, <2>1 DEF Length
  <2>3. Place(r, k \o q, n) = (k \o q)[n - Len(r)] BY <2>2, Zenon DEF Place
  <2>4. QED BY <1>1, <2>1, <2>2, <2>3
<1>4. QED BY <1>1, <1>2, <1>3 DEF Length

\* The first reply is taken.
LEMMA PlaceTaken ==
  ASSUME NEW S, NEW T, NEW r \in Seq(S), NEW k \in Seq(T), r # << >>
  PROVE  /\ Length(Tail(r), k) = Length(r, k) - 1
         /\ \A i \in 1 .. Length(r, k) - 1 : Place(Tail(r), k, i) = Place(r, k, i + 1)
<1>1. /\ Len(r) \in Nat \ {0} /\ Len(Tail(r)) = Len(r) - 1 /\ Len(k) \in Nat
      /\ \A i \in 1 .. Len(r) - 1 : Tail(r)[i] = r[i + 1]
  BY TailElements
<1>2. ASSUME NEW i \in 1 .. Length(r, k) - 1 PROVE Place(Tail(r), k, i) = Place(r, k, i + 1)
  <2>1. CASE i <= Len(r) - 1
    <3>1. i \in 1 .. Len(r) - 1 /\ i + 1 <= Len(r) BY <1>1, <2>1 DEF Length
    <3>2. QED BY <1>1, <2>1, <3>1 DEF Place
  <2>2. CASE ~ (i <= Len(r) - 1)
    <3>1. i - (Len(r) - 1) = i + 1 - Len(r) /\ ~ (i + 1 <= Len(r)) BY <1>1, <2>2 DEF Length
    <3>2. QED BY <1>1, <2>2, <3>1 DEF Place
  <2>3. QED BY <2>1, <2>2
<1>3. QED BY <1>1, <1>2 DEF Length

LEMMA OnType ==
  ASSUME IInv, NEW w \in Threads
  PROVE  /\ Size(w) \in Nat /\ Len(replies[w]) \in Nat /\ Len(replies[w]) <= Size(w)
         /\ \A i \in 1 .. Size(w) : On(w, i) \in Sound
         /\ \A i \in 1 .. Len(replies[w]) : replies[w][i] \in SoundReplies /\ On(w, i) = replies[w][i].to
<1>1. replies[w] \in Seq(SoundReplies) /\ commands[w] \in Seq(Sound) BY DEF IInv
<1>2. \A x \in SoundReplies : x.to \in Sound BY DEF SoundReplies
<1>3. PICK r, k : r = replies[w] /\ k = commands[w] OBVIOUS
<1>4. /\ Length(r, k) \in Nat /\ Len(r) \in Nat /\ Len(r) <= Length(r, k)
      /\ \A i \in 1 .. Length(r, k) : Place(r, k, i) \in Sound
      /\ \A i \in 1 .. Len(r) : r[i] \in SoundReplies /\ Place(r, k, i) = r[i].to
  BY <1>1, <1>2, <1>3, PlaceType
<1>5. QED BY <1>3, <1>4 DEF Size, On

\* A queue whose command is executed keeps its line.
LEMMA LineExecuted ==
  ASSUME IInv, NEW w \in Threads, commands[w] # << >>, NEW r, r.to = Head(commands[w]),
         commands' = [commands EXCEPT ![w] = Tail(@)],
         replies' = [replies EXCEPT ![w] = Append(@, r)]
  PROVE  \A v \in Threads : Size(v)' = Size(v) /\ \A i \in 1 .. Size(v) : On(v, i)' = On(v, i)
<1>1. commands \in [Threads -> Seq(Sound)] /\ replies \in [Threads -> Seq(SoundReplies)] BY DEF IInv
<1>2. \A v \in Threads \ {w} : commands'[v] = commands[v] /\ replies'[v] = replies[v] BY <1>1
<1>3. commands'[w] = Tail(commands[w]) /\ replies'[w] = Append(replies[w], r) BY <1>1
<1>4. PICK x, k : x = replies[w] /\ k = commands[w] OBVIOUS
<1>5. /\ Length(Append(x, r), Tail(k)) = Length(x, k)
      /\ \A i \in 1 .. Length(x, k) : Place(Append(x, r), Tail(k), i) = Place(x, k, i)
  BY <1>1, <1>4, PlaceExecuted
<1>6. Size(w)' = Size(w) /\ \A i \in 1 .. Size(w) : On(w, i)' = On(w, i) BY <1>3, <1>4, <1>5, Zenon DEF Size, On
<1>7. QED BY <1>2, <1>6, Zenon DEF Size, On

\* Commands are sent, after the first reply has been taken or not.
LEMMA LineSent ==
  ASSUME IInv, NEW w \in Threads, NEW q \in Seq(Sound),
         commands' = [commands EXCEPT ![w] = @ \o q], replies' = replies
  PROVE  Lines(w, 0, q)
<1>1. commands \in [Threads -> Seq(Sound)] /\ replies \in [Threads -> Seq(SoundReplies)] BY DEF IInv
<1>2. \A v \in Threads \ {w} : commands'[v] = commands[v] /\ replies'[v] = replies[v] BY <1>1
<1>3. commands'[w] = commands[w] \o q /\ replies'[w] = replies[w] BY <1>1
<1>4. PICK x, k : x = replies[w] /\ k = commands[w] OBVIOUS
<1>5. /\ Length(x, k \o q) = Length(x, k) + Len(q)
      /\ \A i \in 1 .. Length(x, k) : Place(x, k \o q, i) = Place(x, k, i)
      /\ \A j \in 1 .. Len(q) : Place(x, k \o q, Length(x, k) + j) = q[j]
  BY <1>1, <1>4, PlaceSent
<1>6. /\ Size(w)' = Size(w) + Len(q)
      /\ \A i \in 1 .. Size(w) : On(w, i)' = On(w, i)
      /\ \A j \in 1 .. Len(q) : \A i : i = Size(w) + j => On(w, i)' = q[j]
  <2>1. Size(w) = Length(x, k) /\ \A i : On(w, i) = Place(x, k, i) BY <1>4, Zenon DEF Size, On
  <2>2. Size(w)' = Length(x, k \o q) /\ \A i : On(w, i)' = Place(x, k \o q, i) BY <1>3, <1>4, Zenon DEF Size, On
  <2>3. QED BY <1>5, <2>1, <2>2
<1>7. \A v \in Threads \ {w} : Size(v)' = Size(v) /\ \A i \in 1 .. Size(v) : On(v, i)' = On(v, i)
  BY <1>2, Zenon DEF Size, On
<1>8. Size(w) \in Nat BY OnType
<1>9. Size(w) - 0 = Size(w) /\ \A i \in 1 .. Size(w) : i + 0 = i BY <1>8
<1>10. QED BY <1>6, <1>7, <1>9, Zenon DEF Lines

LEMMA LineTaken ==
  ASSUME IInv, NEW w \in Threads, NEW q \in Seq(Sound), replies[w] # << >>,
         commands' = [commands EXCEPT ![w] = @ \o q], replies' = [replies EXCEPT ![w] = Tail(@)]
  PROVE  Lines(w, 1, q)
<1>1. commands \in [Threads -> Seq(Sound)] /\ replies \in [Threads -> Seq(SoundReplies)] BY DEF IInv
<1>2. \A v \in Threads \ {w} : commands'[v] = commands[v] /\ replies'[v] = replies[v] BY <1>1
<1>3. commands'[w] = commands[w] \o q /\ replies'[w] = Tail(replies[w]) BY <1>1
<1>4. PICK x, k : x = replies[w] /\ k = commands[w] OBVIOUS
<1>5. /\ Length(Tail(x), k) = Length(x, k) - 1
      /\ \A i \in 1 .. Length(x, k) - 1 : Place(Tail(x), k, i) = Place(x, k, i + 1)
  BY <1>1, <1>4, PlaceTaken
<1>6. PICK t : t = Tail(x) OBVIOUS
<1>7. t \in Seq(SoundReplies) BY <1>1, <1>4, <1>6, HeadTail
<1>8. /\ Length(t, k \o q) = Length(t, k) + Len(q)
      /\ \A i \in 1 .. Length(t, k) : Place(t, k \o q, i) = Place(t, k, i)
      /\ \A j \in 1 .. Len(q) : Place(t, k \o q, Length(t, k) + j) = q[j]
  BY <1>1, <1>4, <1>7, PlaceSent
<1>9. /\ Size(w)' = Size(w) - 1 + Len(q)
      /\ \A i \in 1 .. Size(w) - 1 : On(w, i)' = On(w, i + 1)
      /\ \A j \in 1 .. Len(q) : \A i : i = Size(w) - 1 + j => On(w, i)' = q[j]
  <2>1. Size(w) = Length(x, k) /\ \A i : On(w, i) = Place(x, k, i) BY <1>4, Zenon DEF Size, On
  <2>2. Size(w)' = Length(t, k \o q) /\ \A i : On(w, i)' = Place(t, k \o q, i)
    BY <1>3, <1>4, <1>6, Zenon DEF Size, On
  <2>3. QED BY <1>5, <1>6, <1>8, <2>1, <2>2
<1>10. \A v \in Threads \ {w} : Size(v)' = Size(v) /\ \A i \in 1 .. Size(v) : On(v, i)' = On(v, i)
  BY <1>2, Zenon DEF Size, On
<1>11. QED BY <1>9, <1>10 DEF Lines

-----------------------------------------------------------------------------
(* Clients that a step is not about *)

\* What client c has on the lines stays there, d[v] places nearer to the front of line v.
Shifts(c, d) ==
  /\ \A v \in Threads : \A i \in 1 .. Size(v)' : On(v, i)'.by = c =>
       \E j \in 1 .. Size(v) : j = i + d[v] /\ On(v, i)' = On(v, j)
  /\ \A v \in Threads : \A j \in 1 .. Size(v) : On(v, j).by = c =>
       \E i \in 1 .. Size(v)' : j = i + d[v] /\ On(v, i)' = On(v, j)

\* What was known in Redis stays known.
Grows ==
  /\ \A m \in Mobiles : data'[m] \in Nat /\ data[m] <= data'[m]
  /\ \A s \in Switches : status[s] # None => status'[s] # None

Moved(w, n) == [v \in Threads |-> IF v = w THEN n ELSE 0]

LEMMA MoveShifts ==
  ASSUME IInv, NEW w \in Threads, NEW n \in {0, 1}, n <= Size(w), NEW q \in Seq(Sound), Lines(w, n, q),
         NEW c, \A j \in 1 .. Len(q) : q[j].by # c, n = 1 => On(w, 1).by # c
  PROVE  Shifts(c, Moved(w, n))
<1>0. Moved(w, n)[w] = n /\ \A v \in Threads \ {w} : Moved(w, n)[v] = 0 BY DEF Moved
<1>1. PICK s \in Nat : s = Size(w) BY OnType
<1>2. /\ Len(q) \in Nat /\ Size(w)' = s - n + Len(q)
      /\ \A i \in 1 .. s - n : On(w, i)' = On(w, i + n)
      /\ \A j \in 1 .. Len(q) : \A i : i = s - n + j => On(w, i)' = q[j]
  BY <1>1 DEF Lines
<1>3. \A v \in Threads \ {w} : Size(v) \in Nat /\ Size(v)' = Size(v) /\ \A i \in 1 .. Size(v) : On(v, i)' = On(v, i)
  BY OnType DEF Lines
<1>4. ASSUME NEW v \in Threads, NEW i \in 1 .. Size(v)', On(v, i)'.by = c
      PROVE  \E j \in 1 .. Size(v) : j = i + Moved(w, n)[v] /\ On(v, i)' = On(v, j)
  <2>1. CASE v # w
    <3>1. i \in 1 .. Size(v) /\ i = i + 0 /\ On(v, i)' = On(v, i) BY <1>3, <2>1
    <3>2. QED BY <1>0, <2>1, <3>1
  <2>2. CASE v = w
    <3>1. i \in 1 .. s - n
      <4>1. SUFFICES ASSUME ~ (i \in 1 .. s - n) PROVE FALSE
        OBVIOUS
      <4>2. PICK j : j = i - (s - n) OBVIOUS
      <4>3. i \in 1 .. s - n + Len(q) BY <1>2, <2>2
      <4>4. j \in 1 .. Len(q) /\ i = s - n + j BY <1>1, <1>2, <4>1, <4>2, <4>3
      <4>5. On(w, i)' = q[j] BY <1>2, <4>4
      <4>6. QED BY <1>4, <2>2, <4>4, <4>5
    <3>2. PICK j : j = i + n OBVIOUS
    <3>3. j \in 1 .. s /\ On(w, i)' = On(w, j) BY <1>1, <1>2, <3>1, <3>2
    <3>4. QED BY <1>0, <1>1, <2>2, <3>2, <3>3
  <2>3. QED BY <2>1, <2>2
<1>5. ASSUME NEW v \in Threads, NEW j \in 1 .. Size(v), On(v, j).by = c
      PROVE  \E i \in 1 .. Size(v)' : j = i + Moved(w, n)[v] /\ On(v, i)' = On(v, j)
  <2>1. CASE v # w
    <3>1. j \in 1 .. Size(v)' /\ j = j + 0 /\ On(v, j)' = On(v, j) BY <1>3, <2>1
    <3>2. QED BY <1>0, <2>1, <3>1
  <2>2. CASE v = w
    <3>1. n = 1 => j # 1 BY <1>5, <2>2
    <3>2. PICK i : i = j - n OBVIOUS
    <3>3. i \in 1 .. s - n /\ j = i + n BY <1>1, <2>2, <3>1, <3>2
    <3>4. i \in 1 .. s - n + Len(q) BY <1>1, <1>2, <3>3
    <3>5. On(w, i)' = On(w, j) BY <1>2, <3>3
    <3>6. QED BY <1>0, <1>2, <2>2, <3>3, <3>4, <3>5
  <2>3. QED BY <2>1, <2>2
<1>6. QED BY <1>4, <1>5 DEF Shifts

LEMMA StillShifts ==
  ASSUME IInv, \A v \in Threads : Size(v)' = Size(v) /\ \A i \in 1 .. Size(v) : On(v, i)' = On(v, i), NEW c
  PROVE  Shifts(c, [v \in Threads |-> 0])
<1>1. \A v \in Threads : Size(v) \in Nat BY OnType
<1>2. \A v \in Threads : \A i \in 1 .. Size(v) : i = i + [u \in Threads |-> 0][v] BY <1>1
<1>3. QED BY <1>2 DEF Shifts

\* Such a client is where it was.
LEMMA StandingStays ==
  ASSUME IInv, NEW c \in Clients, Standing(c), NEW d \in [Threads -> {0, 1}], Shifts(c, d), Grows,
         asked'[c] = asked[c], held'[c] = held[c], answer'[c] = answer[c]
  PROVE  Standing(c)'
<1>1. \A v \in Threads : d[v] \in {0, 1} /\ Size(v) \in Nat BY OnType
<1>2. Apart(c)'
  <2>1. SUFFICES ASSUME NEW v \in Threads, NEW w \in Threads, NEW i \in 1 .. Size(v)', NEW j \in 1 .. Size(w)',
                        On(v, i)'.by = c, On(w, j)'.by = c
                 PROVE  v = w /\ (i = j \/ (On(v, i)'.fn = "switch" /\ On(w, j)'.fn = "switch"))
    BY DEF Apart
  <2>2. PICK a \in 1 .. Size(v) : a = i + d[v] /\ On(v, i)' = On(v, a) BY <2>1 DEF Shifts
  <2>3. PICK b \in 1 .. Size(w) : b = j + d[w] /\ On(w, j)' = On(w, b) BY <2>1 DEF Shifts
  <2>4. v = w /\ (a = b \/ (On(v, a).fn = "switch" /\ On(w, b).fn = "switch"))
    BY <2>1, <2>2, <2>3 DEF Standing, Apart
  <2>5. v = w /\ a = b => i = j
    <3>1. i \in Int /\ j \in Int OBVIOUS
    <3>2. QED BY <1>1, <2>2, <2>3, <3>1
  <2>6. QED BY <2>2, <2>3, <2>4, <2>5
<1>3. \A k : Suits(c, k) => Suits(c, k)' BY DEF Suits
<1>4. Fits(c)'
  <2>1. ASSUME NEW v \in Threads, NEW i \in 1 .. Size(v)', On(v, i)'.by = c PROVE Suits(c, On(v, i))'
    <3>1. PICK a \in 1 .. Size(v) : On(v, i)' = On(v, a) BY <2>1 DEF Shifts
    <3>2. PICK k : k = On(v, a) OBVIOUS
    <3>3. Suits(c, k)' BY <1>3, <2>1, <3>1, <3>2 DEF Standing, Fits
    <3>4. QED BY <3>1, <3>2, <3>3 DEF Suits
  <2>2. QED BY <2>1 DEF Fits
<1>5. Learned(c)'
  <2>1. data \in [Mobiles -> Nat] BY DEF IInv, TypeOK
  <2>2. QED BY <2>1 DEF Standing, Learned, Grows
<1>6. Listing(c)'
  <2>1. ASSUME NEW v \in Threads, NEW i \in 1 .. Size(v)', Seeks(c, On(v, i)') PROVE Seeking(c)
    <3>1. PICK a \in 1 .. Size(v) : On(v, i)' = On(v, a) BY <2>1 DEF Shifts, Seeks
    <3>2. QED BY <2>1, <3>1 DEF Seeking
  <2>2. Seeking(c)' => Seeking(c) BY <2>1 DEF Seeking, Seeks
  <2>3. ASSUME NEW s, Sought(c, s) PROVE Sought(c, s)'
    <3>1. PICK v \in Threads : \E j \in 1 .. Size(v) : Seeks(c, On(v, j)) /\ On(v, j).key = s
      BY <2>3 DEF Sought
    <3>2. PICK j \in 1 .. Size(v) : Seeks(c, On(v, j)) /\ On(v, j).key = s BY <3>1
    <3>3. PICK i \in 1 .. Size(v)' : On(v, i)' = On(v, j) BY <3>2 DEF Shifts, Seeks
    <3>4. QED BY <3>2, <3>3 DEF Sought, Seeks
  <2>4. QED BY <2>2, <2>3 DEF Standing, Listing
<1>7. QED BY <1>2, <1>4, <1>5, <1>6 DEF Standing

\* Its replies stay right, whichever are added or taken.
LEMMA ToldStays ==
  ASSUME IInv, NEW c \in Clients, Told(c), asked'[c] = asked[c],
         \A v \in Threads : \A i \in 1 .. Len(replies'[v]) : replies'[v][i].to.by = c =>
           Right(c, replies'[v][i]) \/ \E j \in 1 .. Len(replies[v]) : replies'[v][i] = replies[v][j]
  PROVE  Told(c)'
<1>1. \A r : Right(c, r) => Right(c, r)' BY DEF Right
<1>2. ASSUME NEW v \in Threads, NEW i \in 1 .. Len(replies'[v]), replies'[v][i].to.by = c
      PROVE  Right(c, replies[v][i])'
  <2>1. Right(c, replies'[v][i]) BY <1>2 DEF Told
  <2>2. PICK r : r = replies'[v][i] OBVIOUS
  <2>3. Right(c, r)' BY <1>1, <2>1, <2>2
  <2>4. QED BY <2>2, <2>3 DEF Right
<1>3. QED BY <1>2 DEF Told

-----------------------------------------------------------------------------
(* Redis answers *)

\* An arrangement of S has all elements of S.
LEMMA ArrangementAll ==
  ASSUME NEW S \in SUBSET Switches, NEW q \in Arrangements(S), NEW s \in S
  PROVE  \E i \in 1 .. Len(q) : q[i] = s
<1>1. IsFiniteSet(S) BY AccountsAssumption, FS_Subset
<1>2. PICK n \in Nat : n = Cardinality(S) BY <1>1, FS_CardinalityType
<1>3. q \in [1 .. n -> S] /\ \A i, j \in 1 .. n : q[i] = q[j] => i = j BY <1>2 DEF Arrangements
<1>4. q \in Injection(1 .. n, S) BY <1>3 DEF Injection, IsInjective
<1>5. Cardinality(1 .. n) = n BY FS_Interval
<1>6. q \in Surjection(1 .. n, S) BY <1>1, <1>2, <1>4, <1>5, FS_Injection
<1>7. Len(q) = n BY <1>3
<1>8. QED BY <1>6, <1>7 DEF Surjection

\* The command that is executed is on the line.
LEMMA HeadSuits ==
  ASSUME IInv, NEW w \in Threads, commands[w] # << >>, NEW c \in Clients, Fits(c), Head(commands[w]).by = c
  PROVE  Suits(c, Head(commands[w]))
<1>1. commands[w] \in Seq(Sound) /\ replies[w] \in Seq(SoundReplies) BY DEF IInv
<1>2. PICK a \in Nat : a = Len(replies[w]) BY <1>1
<1>3. Len(commands[w]) \in Nat \ {0} /\ Head(commands[w]) = commands[w][1] BY <1>1
<1>4. PICK i : i = a + 1 OBVIOUS
<1>5. i \in 1 .. a + Len(commands[w]) /\ ~ (i <= a) /\ i - a = 1 BY <1>3, <1>4
<1>6. i \in 1 .. Size(w) /\ On(w, i) = Head(commands[w]) BY <1>2, <1>3, <1>5 DEF Size, On, Length, Place
<1>7. QED BY <1>6 DEF Fits

\* The clients that wait for HMSET, when a reply comes.
LEMMA WaitingMore ==
  ASSUME IInv, Counted, NEW w \in Threads, NEW r, replies' = [replies EXCEPT ![w] = Append(@, r)],
         NEW m \in Mobiles
  PROVE  /\ IsFiniteSet(Waiting(m)')
         /\ r.to.fn # "HMSET" \/ r.to.key # m => Cardinality(Waiting(m)') <= Cardinality(Waiting(m))
         /\ Cardinality(Waiting(m)') <= Cardinality(Waiting(m)) + 1
         /\ Cardinality(Waiting(m)) \in Nat /\ Cardinality(Waiting(m)') \in Nat
<1>1. replies \in [Threads -> Seq(SoundReplies)] BY DEF IInv
<1>2. \A v \in Threads \ {w} : replies'[v] = replies[v] BY <1>1
<1>3. /\ Len(replies[w]) \in Nat /\ Len(replies'[w]) = Len(replies[w]) + 1
      /\ replies'[w][Len(replies[w]) + 1] = r
      /\ \A i \in 1 .. Len(replies[w]) : replies'[w][i] = replies[w][i]
  BY <1>1
<1>4. ASSUME NEW c \in Waiting(m)' PROVE c \in Waiting(m) \/ (c = r.to.by /\ r.to.fn = "HMSET" /\ r.to.key = m)
  <2>1. PICK v \in Threads : \E i \in 1 .. Len(replies'[v]) : Waits(c, m, replies'[v][i])
    BY <1>4 DEF Waiting, Waits
  <2>2. PICK i \in 1 .. Len(replies'[v]) : Waits(c, m, replies'[v][i]) BY <2>1
  <2>3. c \in Clients BY <1>4 DEF Waiting
  <2>4. CASE v # w \/ i # Len(replies[w]) + 1
    <3>1. i \in 1 .. Len(replies[v]) /\ replies'[v][i] = replies[v][i] BY <1>2, <1>3, <2>4
    <3>2. QED BY <2>2, <2>3, <3>1 DEF Waiting
  <2>5. CASE v = w /\ i = Len(replies[w]) + 1 BY <1>3, <2>2, <2>5 DEF Waits
  <2>6. QED BY <2>4, <2>5
<1>5. IsFiniteSet(Waiting(m)) BY DEF Counted
<1>6. PICK X, Y : X = Waiting(m) /\ Y = Waiting(m)' OBVIOUS
<1>7. PICK b : b = r.to.by OBVIOUS
<1>8. IsFiniteSet(X) /\ Y \subseteq X \cup {b} /\ (r.to.fn # "HMSET" \/ r.to.key # m => Y \subseteq X)
  BY <1>4, <1>5, <1>6, <1>7
<1>9. /\ IsFiniteSet(X \cup {b}) /\ Cardinality(X) \in Nat
      /\ Cardinality(X \cup {b}) <= Cardinality(X) + 1
  <2>1. Cardinality(X) \in Nat BY <1>8, FS_CardinalityType
  <2>2. /\ IsFiniteSet(X \cup {b})
        /\ Cardinality(X \cup {b}) = IF b \in X THEN Cardinality(X) ELSE Cardinality(X) + 1
    BY <1>8, FS_AddElement
  <2>3. QED BY <2>1, <2>2
<1>10. IsFiniteSet(Y) /\ Cardinality(Y) <= Cardinality(X \cup {b}) BY <1>8, <1>9, FS_Subset
<1>11. Cardinality(Y) \in Nat /\ Cardinality(X \cup {b}) \in Nat BY <1>9, <1>10, FS_CardinalityType
<1>12. Y \subseteq X => Cardinality(Y) <= Cardinality(X) BY <1>8, FS_Subset
<1>13. QED BY <1>6, <1>8, <1>9, <1>10, <1>11, <1>12

\* What is left to show of a reply.
LEMMA ReplyAnswers ==
  ASSUME IInv, Answering, Grows, NEW w \in Threads, commands[w] # << >>, NEW r, r.to = Head(commands[w]),
         commands' = [commands EXCEPT ![w] = Tail(@)], replies' = [replies EXCEPT ![w] = Append(@, r)],
         UNCHANGED clients, \A e \in tokens' : e.mobile = e.token.mobile,
         \A c \in Clients : r.to.by = c => Right(c, r),
         r.to.fn = "HMSET" => r.to.key \in Mobiles /\ data'[r.to.key] = data[r.to.key] + 1
  PROVE  Answering'
<1>1. \A v \in Threads : Size(v)' = Size(v) /\ \A i \in 1 .. Size(v) : On(v, i)' = On(v, i) BY LineExecuted
<1>2. UNCHANGED <<asked, answer, held, acked>> BY DEF clients
<1>3. ASSUME NEW c \in Clients PROVE Standing(c)' /\ Told(c)'
  <2>1. PICK d : d = [v \in Threads |-> 0] OBVIOUS
  <2>2. d \in [Threads -> {0, 1}] /\ Shifts(c, d) BY <1>1, <2>1, StillShifts
  <2>3. Standing(c)' BY <1>2, <2>2, StandingStays DEF Answering
  <2>4. ASSUME NEW v \in Threads, NEW i \in 1 .. Len(replies'[v]), replies'[v][i].to.by = c
        PROVE  Right(c, replies'[v][i]) \/ \E j \in 1 .. Len(replies[v]) : replies'[v][i] = replies[v][j]
    <3>1. replies \in [Threads -> Seq(SoundReplies)] BY DEF IInv
    <3>2. CASE v # w BY <3>1, <3>2
    <3>3. CASE v = w
      <4>1. replies'[w] = Append(replies[w], r) /\ replies[w] \in Seq(SoundReplies) BY <3>1
      <4>2. /\ Len(replies'[w]) = Len(replies[w]) + 1 /\ Len(replies[w]) \in Nat
            /\ replies'[w][Len(replies[w]) + 1] = r
            /\ \A j \in 1 .. Len(replies[w]) : replies'[w][j] = replies[w][j]
        BY <4>1
      <4>3. CASE i \in 1 .. Len(replies[w]) BY <3>3, <4>2, <4>3
      <4>4. CASE i = Len(replies[w]) + 1
        <5>1. replies'[v][i] = r BY <3>3, <4>2, <4>4
        <5>2. QED BY <2>4, <5>1
      <4>5. QED BY <3>3, <4>2, <4>3, <4>4
    <3>4. QED BY <3>2, <3>3
  <2>5. Told(c)' BY <1>2, <2>4, ToldStays DEF Answering
  <2>6. QED BY <2>3, <2>5
<1>4. Named' BY <1>1 DEF Answering, Named
<1>5. ASSUME NEW m \in Mobiles
      PROVE  IsFiniteSet(Waiting(m)') /\ acked'[m] \in Nat /\ acked'[m] + Cardinality(Waiting(m)') <= data'[m]
  <2>1. /\ IsFiniteSet(Waiting(m)')
        /\ r.to.fn # "HMSET" \/ r.to.key # m => Cardinality(Waiting(m)') <= Cardinality(Waiting(m))
        /\ Cardinality(Waiting(m)') <= Cardinality(Waiting(m)) + 1
        /\ Cardinality(Waiting(m)) \in Nat /\ Cardinality(Waiting(m)') \in Nat
    BY WaitingMore DEF Answering
  <2>2. /\ acked'[m] = acked[m] /\ acked[m] \in Nat /\ acked[m] + Cardinality(Waiting(m)) <= data[m]
        /\ data[m] \in Nat /\ data'[m] \in Nat /\ data[m] <= data'[m]
    BY <1>2 DEF Answering, Counted, Grows, IInv, TypeOK
  <2>3. r.to.fn = "HMSET" /\ r.to.key = m => data'[m] = data[m] + 1 OBVIOUS
  <2>4. PICK x, y : x = Cardinality(Waiting(m)) /\ y = Cardinality(Waiting(m)') OBVIOUS
  <2>5. x \in Nat /\ y \in Nat /\ y <= x + 1 /\ acked[m] + x <= data[m] BY <2>1, <2>2, <2>4
  <2>6. CASE r.to.fn = "HMSET" /\ r.to.key = m
    <3>1. acked[m] + y <= data'[m] BY <2>2, <2>3, <2>5, <2>6
    <3>2. QED BY <2>1, <2>2, <2>4, <3>1
  <2>7. CASE r.to.fn # "HMSET" \/ r.to.key # m
    <3>1. y <= x BY <2>1, <2>4, <2>7
    <3>2. acked[m] + y <= data'[m] BY <2>2, <2>5, <3>1
    <3>3. QED BY <2>1, <2>2, <2>4, <3>2
  <2>8. QED BY <2>6, <2>7
<1>6. Counted' BY <1>5 DEF Counted
<1>7. Shape' BY <1>2 DEF Answering, Shape
<1>8. QED BY <1>3, <1>4, <1>6, <1>7 DEF Answering

\* A reply that tells nothing of data or switches.
LEMMA TellsNothing ==
  ASSUME NEW k \in Formed, k.op \in {"HSETNX", "SETEX", "HMSET", "HSET", "EVAL"}, NEW r, r.to = k, NEW c
  PROVE  Right(c, r)
<1>1. k.fn \notin TokenMethods \cup {"HGETALL", "KEYS", "switch"} BY FormedFacts
<1>2. QED BY <1>1 DEF Right

LEMMA GrowsUnlessSet ==
  ASSUME IInv, UNCHANGED <<data, status>>
  PROVE  Grows
BY DEF Grows, IInv, TypeOK

\* The first command and its reply.
LEMMA FirstReply ==
  ASSUME IInv, NEW w \in Threads, NEW op, Executes(w, op), NEW ret, NEW names, ReplyArray(w, ret, names)
  PROVE  \E k \in Formed : \E r :
           /\ k = Head(commands[w]) /\ k.op = op /\ commands[w] # << >>
           /\ r = [to |-> k, ret |-> ret, names |-> names] /\ r.to = k /\ r.ret = ret /\ r.names = names
           /\ commands' = [commands EXCEPT ![w] = Tail(@)] /\ replies' = [replies EXCEPT ![w] = Append(@, r)]
           /\ UNCHANGED clients
<1>1. commands[w] # << >> /\ Head(commands[w]) \in Sound /\ Head(commands[w]).op = op BY Executing
<1>2. PICK k : k = Head(commands[w]) OBVIOUS
<1>3. PICK r : r = [to |-> k, ret |-> ret, names |-> names] OBVIOUS
<1>4. k \in Formed BY <1>1, <1>2 DEF Sound
<1>5. /\ commands' = [commands EXCEPT ![w] = Tail(@)] /\ replies' = [replies EXCEPT ![w] = Append(@, r)]
      /\ UNCHANGED clients
  BY <1>2, <1>3 DEF ReplyArray
<1>6. r.to = k /\ r.ret = ret /\ r.names = names BY <1>3
<1>7. k.op = op /\ k = Head(commands[w]) BY <1>1, <1>2
<1>8. QED BY <1>1, <1>3, <1>4, <1>5, <1>6, <1>7, Zenon

LEMMA StoredAnswers ==
  ASSUME IInv, Answering, NEW w \in Threads, HSETNX(w) \/ HSET(w) \/ EVAL(w) \/ SETEX(w) \/ HMSET(w)
  PROVE  Answering'
<1>1. data \in [Mobiles -> Nat] /\ status \in [Switches -> Statuses \cup {None}] BY DEF IInv, TypeOK
<1>2. PICK op, ret :
        /\ op \in {"HSETNX", "HSET", "EVAL", "SETEX", "HMSET"}
        /\ Executes(w, op) /\ ReplyArray(w, ret, << >>)
        /\ op = "HSETNX" => UNCHANGED <<data, tokens, status>>
        /\ op = "HSET" => UNCHANGED <<data, tokens, status>>
        /\ op = "EVAL" => /\ UNCHANGED <<data, tokens>>
                          /\ status' = [status EXCEPT ![Head(commands[w]).key] = Head(commands[w]).val]
        /\ op = "SETEX" => /\ UNCHANGED <<data, status>>
                           /\ tokens' = tokens \cup {[token |-> Head(commands[w]).key, mobile |-> Head(commands[w]).val]}
        /\ op = "HMSET" => /\ UNCHANGED <<tokens, status>>
                           /\ data' = [data EXCEPT ![Head(commands[w]).key] = @ + 1]
  <2>1. CASE HSETNX(w) BY <2>1 DEF HSETNX, Reply
  <2>2. CASE HSET(w) BY <2>2 DEF HSET, Reply
  <2>3. CASE EVAL(w) BY <2>3 DEF EVAL, Reply
  <2>4. CASE SETEX(w) BY <2>4 DEF SETEX, Reply
  <2>5. CASE HMSET(w) BY <2>5 DEF HMSET, Reply
  <2>6. QED BY <2>1, <2>2, <2>3, <2>4, <2>5
<1>3. PICK k, r :
        /\ k \in Formed /\ k = Head(commands[w]) /\ k.op = op /\ commands[w] # << >> /\ r.to = k
        /\ commands' = [commands EXCEPT ![w] = Tail(@)] /\ replies' = [replies EXCEPT ![w] = Append(@, r)]
        /\ UNCHANGED clients
  BY <1>2, FirstReply
<1>4. \A c \in Clients : Right(c, r)
  <2>1. k.op \in {"HSETNX", "SETEX", "HMSET", "HSET", "EVAL"} BY <1>2, <1>3
  <2>2. QED BY <1>3, <2>1, TellsNothing
<1>5. Grows
  <2>1. CASE op = "EVAL"
    <3>1. k.key \in Switches /\ k.val \in Statuses /\ None \notin Statuses
      BY <1>3, <2>1, AccountsAssumption DEF Formed
    <3>2. status' = [status EXCEPT ![k.key] = k.val] /\ data' = data BY <1>2, <1>3, <2>1
    <3>3. QED BY <1>1, <3>1, <3>2 DEF Grows
  <2>2. CASE op = "HMSET"
    <3>1. status' = status /\ data' = [data EXCEPT ![k.key] = @ + 1] BY <1>2, <1>3, <2>2
    <3>2. QED BY <1>1, <3>1 DEF Grows
  <2>3. CASE op \notin {"EVAL", "HMSET"} BY <1>2, <2>3, GrowsUnlessSet
  <2>4. QED BY <2>1, <2>2, <2>3
<1>6. \A e \in tokens' : e.mobile = e.token.mobile
  <2>1. CASE op = "SETEX"
    <3>1. PICK e : e = [token |-> k.key, mobile |-> k.val] OBVIOUS
    <3>2. e.token = k.key /\ e.mobile = k.val /\ tokens' = tokens \cup {e} BY <1>2, <1>3, <2>1, <3>1
    <3>3. k.val = k.key.mobile
      <4>1. commands[w] \in Seq(Sound) /\ replies[w] \in Seq(SoundReplies) BY DEF IInv
      <4>2. PICK a \in Nat : a = Len(replies[w]) BY <4>1
      <4>3. Len(commands[w]) \in Nat \ {0} /\ k = commands[w][1] BY <1>3, <4>1
      <4>4. PICK i : i = a + 1 OBVIOUS
      <4>5. i \in 1 .. a + Len(commands[w]) /\ ~ (i <= a) /\ i - a = 1 BY <4>3, <4>4
      <4>6. i \in 1 .. Size(w) /\ On(w, i) = k BY <4>2, <4>3, <4>5 DEF Size, On, Length, Place
      <4>7. QED BY <1>3, <2>1, <4>6 DEF Answering, Named
    <3>4. QED BY <3>2, <3>3 DEF Answering, Named
  <2>2. CASE op # "SETEX" BY <1>2, <2>2 DEF Answering, Named
  <2>3. QED BY <2>1, <2>2
<1>7. r.to.fn = "HMSET" => r.to.key \in Mobiles /\ data'[r.to.key] = data[r.to.key] + 1
  <2>1. SUFFICES ASSUME k.fn = "HMSET" PROVE k.key \in Mobiles /\ data'[k.key] = data[k.key] + 1
    BY <1>3
  <2>2. op = "HMSET" /\ k.key \in Mobiles BY <1>3, <2>1, FormedFacts
  <2>3. data' = [data EXCEPT ![k.key] = @ + 1] BY <1>2, <1>3, <2>2
  <2>4. QED BY <1>1, <2>2, <2>3
<1>8. QED
  <2>1. r.to = Head(commands[w]) /\ commands[w] # << >> BY <1>3
  <2>2. QED BY <1>3, <1>4, <1>5, <1>6, <1>7, <2>1, ReplyAnswers

LEMMA ReadAnswers ==
  ASSUME IInv, Answering, NEW w \in Threads, HGET(w) \/ GET(w) \/ HGETALL(w) \/ KEYS(w)
  PROVE  Answering'
<1>1. PICK op, ret, names :
        /\ op \in {"HGET", "GET", "HGETALL", "KEYS"}
        /\ Executes(w, op) /\ ReplyArray(w, ret, names)
        /\ op = "HGET" /\ Head(commands[w]).fn = "switch" => ret = status[Head(commands[w]).key]
        /\ op = "GET" /\ ret # None => \E e \in tokens : e.token = Head(commands[w]).key /\ ret = e.mobile
        /\ op = "HGETALL" => ret = data[Head(commands[w]).key]
        /\ op = "KEYS" /\ Head(commands[w]).key = Default =>
             names \in Arrangements({s \in Switches : request[s] # None \/ status[s] # None})
  <2>1. CASE HGET(w)
    <3>1. PICK ret : ret = IF Head(commands[w]).fn = "Login" THEN password[Head(commands[w]).key]
                           ELSE status[Head(commands[w]).key]
      OBVIOUS
    <3>2. Executes(w, "HGET") /\ ReplyArray(w, ret, << >>) BY <2>1, <3>1 DEF HGET, Reply
    <3>3. Head(commands[w]).fn = "switch" => ret = status[Head(commands[w]).key] BY <3>1
    <3>4. QED BY <3>2, <3>3
  <2>2. CASE GET(w)
    <3>1. Executes(w, "GET") BY <2>2 DEF GET
    <3>2. PICK ret : /\ ReplyArray(w, ret, << >>)
                     /\ ret # None => \E e \in tokens : e.token = Head(commands[w]).key /\ ret = e.mobile
      BY <2>2 DEF GET, Reply
    <3>3. QED BY <3>1, <3>2
  <2>3. CASE HGETALL(w)
    <3>1. Executes(w, "HGETALL") /\ ReplyArray(w, data[Head(commands[w]).key], << >>)
      BY <2>3 DEF HGETALL, Reply
    <3>2. QED BY <3>1
  <2>4. CASE KEYS(w)
    <3>1. Executes(w, "KEYS") BY <2>4 DEF KEYS
    <3>2. PICK names : /\ ReplyArray(w, Done, names)
                       /\ Head(commands[w]).key = Default =>
                            names \in Arrangements({s \in Switches : request[s] # None \/ status[s] # None})
      BY <2>4 DEF KEYS
    <3>3. QED BY <3>1, <3>2
  <2>5. QED BY <2>1, <2>2, <2>3, <2>4
<1>2. PICK k, r :
        /\ k \in Formed /\ k = Head(commands[w]) /\ k.op = op /\ commands[w] # << >>
        /\ r.to = k /\ r.ret = ret /\ r.names = names
        /\ commands' = [commands EXCEPT ![w] = Tail(@)] /\ replies' = [replies EXCEPT ![w] = Append(@, r)]
        /\ UNCHANGED clients
  BY <1>1, FirstReply
<1>3. UNCHANGED store BY DEF HGET, GET, HGETALL, KEYS
<1>4. ASSUME NEW c \in Clients, k.by = c PROVE Right(c, r)
  <2>1. Suits(c, k) BY <1>2, <1>4, HeadSuits DEF Answering, Standing
  <2>2. Learned(c) BY DEF Answering, Standing
  <2>3. k.fn \in TokenMethods /\ ret # None => ret = k.key.mobile
    BY <1>1, <1>2, FormedFacts DEF Answering, Named
  <2>4. ASSUME k.fn = "HGETALL" PROVE ret \in Nat /\ asked[c].known[k.key] <= ret
    <3>1. op = "HGETALL" /\ k.key \in Mobiles BY <1>2, <2>4, FormedFacts
    <3>2. ret = data[k.key] /\ data[k.key] \in Nat BY <1>1, <1>2, <3>1 DEF IInv, TypeOK
    <3>3. QED BY <2>1, <2>2, <2>4, <3>1, <3>2 DEF Suits, Learned
  <2>5. ASSUME k.fn = "KEYS", k.key = Default, NEW s \in asked[c].known
        PROVE  \E i \in 1 .. Len(names) : names[i] = s
    <3>1. op = "KEYS" BY <1>2, <2>5, FormedFacts
    <3>2. PICK S : S = {x \in Switches : request[x] # None \/ status[x] # None} OBVIOUS
    <3>3. S \in SUBSET Switches /\ names \in Arrangements(S) BY <1>1, <1>2, <2>5, <3>1, <3>2
    <3>4. s \in S BY <2>1, <2>2, <2>5, <3>2 DEF Suits, Learned
    <3>5. QED BY <3>3, <3>4, ArrangementAll
  <2>6. ASSUME k.fn = "switch", k.key \in asked[c].known PROVE ret # None
    <3>1. op = "HGET" BY <1>2, <2>6, FormedFacts
    <3>2. ret = status[k.key] BY <1>1, <1>2, <2>6, <3>1
    <3>3. QED BY <2>1, <2>2, <2>6, <3>2 DEF Suits, Learned
  <2>7. QED BY <1>2, <2>3, <2>4, <2>5, <2>6 DEF Right
<1>5. Grows BY <1>3, GrowsUnlessSet DEF store
<1>6. \A e \in tokens' : e.mobile = e.token.mobile BY <1>3 DEF store, Answering, Named
<1>7. r.to = Head(commands[w]) /\ commands[w] # << >> BY <1>2
<1>8. \A c \in Clients : r.to.by = c => Right(c, r) BY <1>2, <1>4
<1>9. r.to.fn # "HMSET" BY <1>1, <1>2, FormedFacts
<1>10. QED BY <1>2, <1>5, <1>6, <1>7, <1>8, <1>9, ReplyAnswers

LEMMA RedisAnswers == ASSUME IInv, Answering, NEW w \in Threads, Redis(w) PROVE Answering'
BY StoredAnswers, ReadAnswers DEF Redis

-----------------------------------------------------------------------------
(* Callbacks *)

\* The first reply is for the first command of the line.
LEMMA HeadOn ==
  ASSUME IInv, NEW w \in Threads, replies[w] # << >>
  PROVE  /\ Head(replies[w]) = replies[w][1] /\ 1 \in 1 .. Len(replies[w]) /\ 1 \in 1 .. Size(w)
         /\ Head(replies[w]) \in SoundReplies /\ On(w, 1) = Head(replies[w]).to /\ On(w, 1) \in Formed
<1>1. replies[w] \in Seq(SoundReplies) BY DEF IInv
<1>2. Head(replies[w]) = replies[w][1] /\ Len(replies[w]) \in Nat \ {0} BY <1>1
<1>3. /\ Size(w) \in Nat /\ Len(replies[w]) <= Size(w)
      /\ \A i \in 1 .. Size(w) : On(w, i) \in Sound
      /\ \A i \in 1 .. Len(replies[w]) : replies[w][i] \in SoundReplies /\ On(w, i) = replies[w][i].to
  BY OnType
<1>4. 1 \in 1 .. Len(replies[w]) /\ 1 \in 1 .. Size(w) BY <1>2, <1>3
<1>5. On(w, 1) \in Sound BY <1>3, <1>4
<1>6. QED BY <1>2, <1>3, <1>4, <1>5 DEF Sound

\* What is left on the lines of the client that is called back.
LEMMA After ==
  ASSUME IInv, NEW w \in Threads, replies[w] # << >>, NEW q \in Seq(Sound), Lines(w, 1, q),
         NEW c, Apart(c), On(w, 1).by = c, NEW v \in Threads, NEW i \in 1 .. Size(v)', On(v, i)'.by = c
  PROVE  /\ v = w
         /\ \/ \E j \in 1 .. Len(q) : i = Size(w) - 1 + j /\ On(w, i)' = q[j]
            \/ /\ i \in 1 .. Size(w) - 1 /\ On(w, i)' = On(w, i + 1) /\ i + 1 \in 1 .. Size(w)
               /\ On(w, 1).fn = "switch" /\ On(w, i + 1).fn = "switch"
<1>1. PICK s \in Nat : s = Size(w) BY OnType
<1>2. 1 \in 1 .. Size(w) BY HeadOn
<1>3. v = w
  <2>1. SUFFICES ASSUME v # w PROVE FALSE
    OBVIOUS
  <2>2. i \in 1 .. Size(v) /\ On(v, i).by = c BY <2>1 DEF Lines
  <2>3. QED BY <1>2, <2>1, <2>2 DEF Apart
<1>4. /\ Len(q) \in Nat /\ Size(w)' = s - 1 + Len(q)
      /\ \A j \in 1 .. s - 1 : On(w, j)' = On(w, j + 1)
      /\ \A j \in 1 .. Len(q) : \A h : h = s - 1 + j => On(w, h)' = q[j]
  BY <1>1 DEF Lines
<1>5. CASE i \in 1 .. s - 1
  <2>1. PICK h : h = i + 1 OBVIOUS
  <2>2. h \in 1 .. s /\ h # 1 /\ On(w, i)' = On(w, h) BY <1>1, <1>4, <1>5, <2>1
  <2>3. On(w, h).by = c BY <1>3, <2>2
  <2>4. On(w, 1).fn = "switch" /\ On(w, h).fn = "switch" BY <1>1, <1>2, <2>2, <2>3 DEF Apart
  <2>5. QED BY <1>1, <1>3, <1>5, <2>1, <2>2, <2>4
<1>6. CASE ~ (i \in 1 .. s - 1)
  <2>1. PICK j : j = i - (s - 1) OBVIOUS
  <2>2. i \in 1 .. s - 1 + Len(q) /\ Len(q) \in Nat BY <1>3, <1>4
  <2>3. s >= 1 BY <1>1, <1>2
  <2>4. j \in 1 .. Len(q) /\ i = s - 1 + j BY <1>6, <2>1, <2>2, <2>3
  <2>5. On(w, i)' = q[j] BY <1>4, <2>4
  <2>6. QED BY <1>1, <1>3, <2>4, <2>5
<1>7. QED BY <1>5, <1>6

LEMMA FewerReplies ==
  ASSUME IInv, NEW w \in Threads, replies[w] # << >>, replies' = [replies EXCEPT ![w] = Tail(@)]
  PROVE  \A v \in Threads : \A i \in 1 .. Len(replies'[v]) :
           \E j \in 1 .. Len(replies[v]) : replies'[v][i] = replies[v][j]
<1>1. replies \in [Threads -> Seq(SoundReplies)] BY DEF IInv
<1>2. ASSUME NEW v \in Threads, NEW i \in 1 .. Len(replies'[v])
      PROVE  \E j \in 1 .. Len(replies[v]) : replies'[v][i] = replies[v][j]
  <2>1. CASE v # w BY <1>1, <2>1
  <2>2. CASE v = w
    <3>1. PICK x \in Seq(SoundReplies) : x = replies[w] BY <1>1
    <3>2. Len(Tail(x)) = Len(x) - 1 /\ Len(x) \in Nat /\ \A n \in 1 .. Len(x) - 1 : Tail(x)[n] = x[n + 1]
      BY <3>1, TailElements
    <3>3. replies'[w] = Tail(x) BY <1>1, <3>1
    <3>4. i \in 1 .. Len(Tail(x)) BY <2>2, <3>3
    <3>5. i \in 1 .. Len(x) - 1 /\ i + 1 \in 1 .. Len(x) BY <3>2, <3>4
    <3>6. replies'[v][i] = x[i + 1] BY <2>2, <3>2, <3>3, <3>5
    <3>7. QED BY <2>2, <3>1, <3>5, <3>6
  <2>3. QED BY <2>1, <2>2
<1>3. QED BY <1>2

LEMMA WaitingFewer ==
  ASSUME Counted, NEW m \in Mobiles,
         \A v \in Threads : \A i \in 1 .. Len(replies'[v]) :
           \E j \in 1 .. Len(replies[v]) : replies'[v][i] = replies[v][j]
  PROVE  /\ IsFiniteSet(Waiting(m)') /\ IsFiniteSet(Waiting(m)) /\ Waiting(m)' \subseteq Waiting(m)
         /\ Cardinality(Waiting(m)) \in Nat /\ Cardinality(Waiting(m)') \in Nat
         /\ Cardinality(Waiting(m)') <= Cardinality(Waiting(m))
<1>1. ASSUME NEW c \in Waiting(m)' PROVE c \in Waiting(m)
  <2>1. PICK v \in Threads : \E i \in 1 .. Len(replies'[v]) : Waits(c, m, replies'[v][i])
    BY <1>1 DEF Waiting, Waits
  <2>2. PICK i \in 1 .. Len(replies'[v]) : Waits(c, m, replies'[v][i]) BY <2>1
  <2>3. PICK j \in 1 .. Len(replies[v]) : replies'[v][i] = replies[v][j] OBVIOUS
  <2>4. c \in Clients BY <1>1 DEF Waiting
  <2>5. QED BY <2>2, <2>3, <2>4 DEF Waiting
<1>2. IsFiniteSet(Waiting(m)) BY DEF Counted
<1>3. PICK X, Y : X = Waiting(m) /\ Y = Waiting(m)' OBVIOUS
<1>4. Y \subseteq X /\ IsFiniteSet(X) BY <1>1, <1>2, <1>3
<1>5. IsFiniteSet(Y) /\ Cardinality(Y) <= Cardinality(X) BY <1>4, FS_Subset
<1>6. Cardinality(Y) \in Nat /\ Cardinality(X) \in Nat BY <1>4, <1>5, FS_CardinalityType
<1>7. QED BY <1>3, <1>4, <1>5, <1>6

LEMMA CountedStays ==
  ASSUME IInv, Counted, UNCHANGED <<data, acked>>,
         \A v \in Threads : \A i \in 1 .. Len(replies'[v]) :
           \E j \in 1 .. Len(replies[v]) : replies'[v][i] = replies[v][j]
  PROVE  Counted'
<1>1. ASSUME NEW m \in Mobiles
      PROVE  IsFiniteSet(Waiting(m)') /\ acked'[m] \in Nat /\ acked'[m] + Cardinality(Waiting(m)') <= data'[m]
  <2>1. /\ IsFiniteSet(Waiting(m)') /\ Cardinality(Waiting(m)) \in Nat /\ Cardinality(Waiting(m)') \in Nat
        /\ Cardinality(Waiting(m)') <= Cardinality(Waiting(m))
    BY WaitingFewer
  <2>2. acked[m] \in Nat /\ acked[m] + Cardinality(Waiting(m)) <= data[m] /\ data[m] \in Nat
    BY DEF Counted, IInv, TypeOK
  <2>3. PICK x, y : x = Cardinality(Waiting(m)) /\ y = Cardinality(Waiting(m)') OBVIOUS
  <2>4. acked[m] + y <= data[m] BY <2>1, <2>2, <2>3
  <2>5. QED BY <2>1, <2>2, <2>3, <2>4
<1>2. QED BY <1>1 DEF Counted

\* The sent commands and tokens keep their names.
LEMMA NamedStays ==
  ASSUME IInv, Named, NEW w \in Threads, NEW n \in {0, 1}, n <= Size(w), NEW q \in Seq(Sound), Lines(w, n, q),
         tokens' \subseteq tokens, \A j \in 1 .. Len(q) : q[j].op = "SETEX" => q[j].val = q[j].key.mobile
  PROVE  Named'
<1>1. ASSUME NEW v \in Threads, NEW i \in 1 .. Size(v)', On(v, i)'.op = "SETEX"
      PROVE  On(v, i)'.val = On(v, i)'.key.mobile
  <2>1. CASE v # w
    <3>1. i \in 1 .. Size(v) /\ On(v, i)' = On(v, i) BY <2>1 DEF Lines
    <3>2. QED BY <1>1, <3>1 DEF Named
  <2>2. CASE v = w
    <3>1. PICK s \in Nat : s = Size(w) BY OnType
    <3>2. /\ Len(q) \in Nat /\ Size(w)' = s - n + Len(q)
          /\ \A j \in 1 .. s - n : On(w, j)' = On(w, j + n)
          /\ \A j \in 1 .. Len(q) : \A h : h = s - n + j => On(w, h)' = q[j]
      BY <3>1 DEF Lines
    <3>3. i \in 1 .. s - n + Len(q) BY <2>2, <3>2
    <3>4. CASE i \in 1 .. s - n
      <4>1. PICK h : h = i + n OBVIOUS
      <4>2. h \in 1 .. s /\ On(w, i)' = On(w, h) BY <3>1, <3>2, <3>4, <4>1
      <4>3. QED BY <1>1, <2>2, <3>1, <4>2 DEF Named
    <3>5. CASE ~ (i \in 1 .. s - n)
      <4>1. PICK j : j = i - (s - n) OBVIOUS
      <4>2. j \in 1 .. Len(q) /\ i = s - n + j BY <3>1, <3>2, <3>3, <3>5, <4>1
      <4>3. On(w, i)' = q[j] BY <3>2, <4>2
      <4>4. QED BY <1>1, <2>2, <4>2, <4>3
    <3>6. QED BY <3>4, <3>5
  <2>3. QED BY <2>1, <2>2
<1>2. QED BY <1>1 DEF Named

\* Thread w takes a reply to client b, and sends the commands q.
Back(w, b, q) ==
  /\ replies[w] # << >> /\ b = On(w, 1).by
  /\ Lines(w, 1, q) /\ replies' = [replies EXCEPT ![w] = Tail(@)] /\ UNCHANGED store

Others(b) == \A c \in Clients : c # b => asked'[c] = asked[c] /\ held'[c] = held[c] /\ answer'[c] = answer[c]

Proper(b, q) ==
  \A j \in 1 .. Len(q) : q[j].by \in {None, b} /\ (q[j].op = "SETEX" => q[j].val = q[j].key.mobile)

\* What is left to show of a callback.
LEMMA CallbackAnswers ==
  ASSUME IInv, Answering, NEW w \in Threads, NEW q \in Seq(Sound), NEW b, Back(w, b, q), Others(b), Proper(b, q),
         b \in Clients => Standing(b)' /\ Told(b)', Shape', Counted'
  PROVE  Answering'
<1>0. /\ replies[w] # << >> /\ Lines(w, 1, q) /\ replies' = [replies EXCEPT ![w] = Tail(@)] /\ UNCHANGED store
      /\ b = On(w, 1).by
  BY DEF Back
<1>1. ASSUME NEW c \in Clients, c # b PROVE Standing(c)' /\ Told(c)'
  <2>1. asked'[c] = asked[c] /\ held'[c] = held[c] /\ answer'[c] = answer[c] BY <1>1 DEF Others
  <2>2. c # None BY AccountsAssumption
  <2>3. \A j \in 1 .. Len(q) : q[j].by # c BY <1>1, <2>2 DEF Proper
  <2>4. 1 <= Size(w)
    <3>1. 1 \in 1 .. Size(w) BY <1>0, HeadOn
    <3>2. Size(w) \in Nat BY OnType
    <3>3. QED BY <3>1, <3>2
  <2>5. Shifts(c, Moved(w, 1)) BY <1>0, <1>1, <2>3, <2>4, MoveShifts
  <2>6. Moved(w, 1) \in [Threads -> {0, 1}] BY DEF Moved
  <2>7. Grows BY <1>0, GrowsUnlessSet DEF store
  <2>8. Standing(c) /\ Told(c) BY DEF Answering
  <2>9. Standing(c)' BY <2>1, <2>5, <2>6, <2>7, <2>8, StandingStays
  <2>10. Told(c)' BY <1>0, <2>1, <2>8, FewerReplies, ToldStays
  <2>11. QED BY <2>9, <2>10
<1>2. Named'
  <2>1. 1 \in 1 .. Size(w) /\ Size(w) \in Nat BY <1>0, HeadOn, OnType
  <2>2. 1 <= Size(w) BY <2>1
  <2>3. tokens' \subseteq tokens BY <1>0 DEF store
  <2>4. QED BY <1>0, <2>2, <2>3, NamedStays DEF Answering, Proper
<1>3. \A c \in Clients : Standing(c)' /\ Told(c)'
  <2>1. b \in Clients => Standing(b)' /\ Told(b)' OBVIOUS
  <2>2. QED BY <1>1, <2>1
<1>4. QED BY <1>2, <1>3 DEF Answering

\* Captured tells whether the lines still hold a command of the client.
Keeps(x, k, q, c) ==
  \/ \E i \in 2 .. Len(x) : x[i].to.by = c
  \/ \E i \in DOMAIN k : k[i].by = c
  \/ \E i \in DOMAIN q : q[i].by = c

Turn(x, k, q, t, z) == x # << >> /\ t = Tail(x) /\ z = k \o q

LEMMA CapturedLine ==
  ASSUME NEW S, NEW T, NEW x \in Seq(S), NEW k \in Seq(T), NEW q \in Seq(T), NEW c,
         NEW t, NEW z, Turn(x, k, q, t, z)
  PROVE  Keeps(x, k, q, c) <=> \E i \in 1 .. Length(t, z) : Place(t, z, i).by = c
<1>1. /\ Len(x) \in Nat \ {0} /\ Len(t) = Len(x) - 1
      /\ \A i \in 1 .. Len(x) - 1 : t[i] = x[i + 1]
  BY TailElements DEF Turn
<1>2. /\ Len(k) \in Nat /\ Len(q) \in Nat /\ Len(z) = Len(k) + Len(q)
      /\ DOMAIN k = 1 .. Len(k) /\ DOMAIN q = 1 .. Len(q)
      /\ \A i \in 1 .. Len(k) : z[i] = k[i]
      /\ \A i \in 1 .. Len(q) : z[Len(k) + i] = q[i]
  BY DEF Turn
<1>3. PICK a, d, e : a = Len(t) /\ d = Len(k) /\ e = Len(q) OBVIOUS
<1>4. a \in Nat /\ d \in Nat /\ e \in Nat /\ Len(x) = a + 1 /\ Length(t, z) = a + d + e
  BY <1>1, <1>2, <1>3 DEF Length
<1>5. ASSUME NEW i \in 2 .. Len(x), x[i].to.by = c PROVE \E j \in 1 .. Length(t, z) : Place(t, z, j).by = c
  <2>1. PICK j : j = i - 1 OBVIOUS
  <2>2. j \in 1 .. a /\ j + 1 = i BY <1>4, <2>1
  <2>3. t[j] = x[i] BY <1>1, <1>4, <2>2
  <2>4. j \in 1 .. Length(t, z) /\ Place(t, z, j) = t[j].to BY <1>3, <1>4, <2>2 DEF Place
  <2>5. QED BY <1>5, <2>3, <2>4
<1>6. ASSUME NEW h \in 1 .. d + e PROVE a + h \in 1 .. Length(t, z) /\ Place(t, z, a + h) = z[h]
  <2>1. PICK j : j = a + h OBVIOUS
  <2>2. j \in 1 .. Length(t, z) /\ ~ (j <= a) /\ j - a = h BY <1>4, <2>1
  <2>3. Place(t, z, j) = z[j - a] BY <1>3, <2>2 DEF Place
  <2>4. QED BY <2>1, <2>2, <2>3
<1>7. ASSUME NEW i \in 1 .. d, k[i].by = c PROVE \E j \in 1 .. Length(t, z) : Place(t, z, j).by = c
  <2>1. i \in 1 .. d + e BY <1>4
  <2>2. z[i] = k[i] BY <1>2, <1>3
  <2>3. QED BY <1>6, <1>7, <2>1, <2>2
<1>8. ASSUME NEW i \in 1 .. e, q[i].by = c PROVE \E j \in 1 .. Length(t, z) : Place(t, z, j).by = c
  <2>1. d + i \in 1 .. d + e BY <1>4
  <2>2. z[d + i] = q[i] BY <1>2, <1>3
  <2>3. QED BY <1>6, <1>8, <2>1, <2>2
<1>9. ASSUME NEW j \in 1 .. Length(t, z), Place(t, z, j).by = c
      PROVE  \/ \E i \in 2 .. Len(x) : x[i].to.by = c
             \/ \E i \in 1 .. d : k[i].by = c
             \/ \E i \in 1 .. e : q[i].by = c
  <2>1. j \in 1 .. a + d + e BY <1>4
  <2>2. CASE j <= a
    <3>1. PICK i : i = j + 1 OBVIOUS
    <3>2. j \in 1 .. Len(x) - 1 /\ i \in 2 .. Len(x) BY <1>4, <2>1, <2>2, <3>1
    <3>3. t[j] = x[i] BY <1>1, <3>1, <3>2
    <3>4. Place(t, z, j) = t[j].to BY <1>3, <2>2 DEF Place
    <3>5. QED BY <1>9, <3>2, <3>3, <3>4
  <2>3. CASE ~ (j <= a)
    <3>1. PICK h : h = j - a OBVIOUS
    <3>2. h \in 1 .. d + e /\ j = a + h BY <1>4, <2>1, <2>3, <3>1
    <3>3. z[h].by = c BY <1>6, <1>9, <3>2
    <3>4. CASE h <= d
      <4>1. h \in 1 .. d BY <1>4, <3>2, <3>4
      <4>2. QED BY <1>2, <1>3, <3>3, <4>1
    <3>5. CASE ~ (h <= d)
      <4>1. PICK g : g = h - d OBVIOUS
      <4>2. g \in 1 .. e /\ h = d + g BY <1>4, <3>2, <3>5, <4>1
      <4>3. z[h] = q[g] BY <1>2, <1>3, <4>2
      <4>4. QED BY <3>3, <4>2, <4>3
    <3>6. QED BY <3>4, <3>5
  <2>4. QED BY <2>2, <2>3
<1>10. QED BY <1>2, <1>3, <1>5, <1>7, <1>8, <1>9 DEF Keeps

\* What a callback does to the lines and the clients.
LEMMA CallbackEffect ==
  ASSUME IInv, Shape, NEW w \in Threads, replies[w] # << >>, NEW q \in Seq(Sound), NEW say, Callback(w, q, say),
         NEW b, b = On(w, 1).by
  PROVE  /\ Back(w, b, q)
         /\ Captured(b, w, q) <=> \E i \in 1 .. Size(w)' : On(w, i)'.by = b
         /\ asked' = [c \in Clients |-> asked'[c]] /\ answer' = [c \in Clients |-> answer'[c]]
         /\ \A c \in Clients : c # b => asked'[c] = asked[c] /\ answer'[c] = answer[c]
         /\ b \in Clients => answer'[b] = say /\ asked'[b] = IF Captured(b, w, q) THEN asked[b] ELSE None
<1>1. b = Head(replies[w]).to.by BY HeadOn
<1>2. /\ replies' = [replies EXCEPT ![w] = Tail(@)] /\ commands' = [commands EXCEPT ![w] = @ \o q]
      /\ answer' = [answer EXCEPT ![b] = say] /\ UNCHANGED store
      /\ asked' = IF Captured(b, w, q) THEN asked ELSE [asked EXCEPT ![b] = None]
  BY <1>1 DEF Callback
<1>3. Lines(w, 1, q) BY <1>2, LineTaken
<1>4. Captured(b, w, q) <=> \E i \in 1 .. Size(w)' : On(w, i)'.by = b
  <2>1. commands \in [Threads -> Seq(Sound)] /\ replies \in [Threads -> Seq(SoundReplies)] BY DEF IInv
  <2>2. commands'[w] = commands[w] \o q /\ replies'[w] = Tail(replies[w]) BY <1>2, <2>1
  <2>3. PICK x, k, t, z : x = replies[w] /\ k = commands[w] /\ t = Tail(x) /\ z = k \o q OBVIOUS
  <2>4. Keeps(x, k, q, b) <=> \E i \in 1 .. Length(t, z) : Place(t, z, i).by = b
    <3>1. x \in Seq(SoundReplies) /\ k \in Seq(Sound) /\ q \in Seq(Sound) BY <2>1, <2>3
    <3>2. Turn(x, k, q, t, z) BY <2>3, Zenon DEF Turn
    <3>3. QED BY <3>1, <3>2, CapturedLine
  <2>5. Size(w)' = Length(t, z) /\ \A i : On(w, i)' = Place(t, z, i) BY <2>2, <2>3, Zenon DEF Size, On
  <2>6. QED BY <2>3, <2>4, <2>5 DEF Captured, Keeps
<1>5. asked = [c \in Clients |-> asked[c]] /\ answer = [c \in Clients |-> answer[c]] BY DEF Shape
<1>6. asked' = [c \in Clients |-> asked'[c]] /\ answer' = [c \in Clients |-> answer'[c]] BY <1>2, <1>5
<1>7. \A c \in Clients : c # b => asked'[c] = asked[c] /\ answer'[c] = answer[c] BY <1>2, <1>5
<1>8. b \in Clients => answer'[b] = say /\ asked'[b] = IF Captured(b, w, q) THEN asked[b] ELSE None
  BY <1>2, <1>5
<1>9. Back(w, b, q) BY <1>2, <1>3 DEF Back
<1>10. QED BY <1>2, <1>4, <1>6, <1>7, <1>8, <1>9

\* A client that is on no line any more.
LEMMA Ended ==
  ASSUME Queues', NEW c \in Clients, Learned(c)', \A v \in Threads : \A i \in 1 .. Size(v)' : On(v, i)'.by # c
  PROVE  Standing(c)' /\ Told(c)'
<1>1. ASSUME NEW v \in Threads, NEW i \in 1 .. Len(replies'[v]) PROVE replies'[v][i].to.by # c
  <2>1. commands'[v] \in Seq(Sound') /\ replies'[v] \in Seq(SoundReplies') BY DEF Queues
  <2>2. \A x \in SoundReplies' : x.to \in Sound' BY DEF SoundReplies
  <2>3. PICK r, k : r = replies'[v] /\ k = commands'[v] OBVIOUS
  <2>4. /\ Length(r, k) \in Nat /\ Len(r) \in Nat /\ Len(r) <= Length(r, k)
        /\ \A j \in 1 .. Len(r) : Place(r, k, j) = r[j].to
    BY <2>1, <2>2, <2>3, PlaceType
  <2>5. i \in 1 .. Length(r, k) /\ Place(r, k, i) = r[i].to BY <2>3, <2>4
  <2>6. i \in 1 .. Size(v)' /\ On(v, i)' = r[i].to BY <2>3, <2>5, Zenon DEF Size, On
  <2>7. QED BY <2>3, <2>6
<1>2. Apart(c)' /\ Fits(c)' BY DEF Apart, Fits
<1>3. ~ Seeking(c)' BY DEF Seeking, Seeks
<1>4. Listing(c)' BY <1>3 DEF Listing
<1>5. Told(c)' BY <1>1 DEF Told
<1>6. QED BY <1>2, <1>4, <1>5 DEF Standing

\* A callback after which the client is on no line, and answered.
LEMMA Ends ==
  ASSUME IInv, Answering, Queues', NEW w \in Threads, replies[w] # << >>, NEW q \in Seq(Sound), NEW say,
         Callback(w, q, say), NEW b \in Clients, b = On(w, 1).by, On(w, 1).fn # "switch",
         \A j \in 1 .. Len(q) : q[j].by = None /\ (q[j].op = "SETEX" => q[j].val = q[j].key.mobile),
         \A c \in Clients : c # b => held'[c] = held[c], acked' = [m \in Mobiles |-> acked'[m]], Counted'
  PROVE  Answering'
<1>1. /\ Back(w, b, q)
      /\ Captured(b, w, q) <=> \E i \in 1 .. Size(w)' : On(w, i)'.by = b
      /\ asked' = [c \in Clients |-> asked'[c]] /\ answer' = [c \in Clients |-> answer'[c]]
      /\ \A c \in Clients : c # b => asked'[c] = asked[c] /\ answer'[c] = answer[c]
      /\ asked'[b] = IF Captured(b, w, q) THEN asked[b] ELSE None
  BY CallbackEffect DEF Answering
<1>2. b # None /\ Apart(b) BY AccountsAssumption DEF Answering, Standing
<1>3. ASSUME NEW v \in Threads, NEW i \in 1 .. Size(v)', On(v, i)'.by = b PROVE FALSE
  <2>1. PICK j \in 1 .. Len(q) : On(w, i)' = q[j] /\ v = w BY <1>1, <1>2, <1>3, After DEF Back
  <2>2. QED BY <1>2, <1>3, <2>1
<1>4. asked'[b] = None BY <1>1, <1>3
<1>5. Learned(b)' BY <1>4 DEF Learned
<1>6. Standing(b)' /\ Told(b)' BY <1>3, <1>5, Ended
<1>7. Shape' BY <1>1 DEF Shape
<1>8. Proper(b, q) /\ Others(b) BY <1>1 DEF Proper, Others
<1>9. QED BY <1>1, <1>6, <1>7, <1>8, CallbackAnswers

\* A callback that sends a command for its client, or asks for its switches.
LEMMA Goes ==
  ASSUME IInv, Answering, NEW w \in Threads, replies[w] # << >>, NEW q \in Seq(Sound), NEW say,
         Callback(w, q, say), NEW b \in Clients, b = On(w, 1).by, On(w, 1).fn # "switch", q # << >>,
         \A j \in 1 .. Len(q) : q[j].by = b /\ q[j].op # "SETEX" /\ Suits(b, q[j]),
         Len(q) = 1 \/ \A j \in 1 .. Len(q) : q[j].fn = "switch",
         (\E j \in 1 .. Len(q) : q[j].fn = "switch") /\ held[b].mobile = Default =>
           \A s \in asked[b].known : \E j \in 1 .. Len(q) : q[j].fn = "switch" /\ q[j].key = s,
         UNCHANGED <<held, acked>>
  PROVE  Answering'
<1>0. Apart(b) /\ Learned(b) /\ Told(b) BY DEF Answering, Standing
<1>1. /\ Back(w, b, q)
      /\ Captured(b, w, q) <=> \E i \in 1 .. Size(w)' : On(w, i)'.by = b
      /\ asked' = [c \in Clients |-> asked'[c]] /\ answer' = [c \in Clients |-> answer'[c]]
      /\ \A c \in Clients : c # b => asked'[c] = asked[c] /\ answer'[c] = answer[c]
      /\ asked'[b] = IF Captured(b, w, q) THEN asked[b] ELSE None
  BY CallbackEffect DEF Answering
<1>2. Len(q) \in Nat \ {0} /\ DOMAIN q = 1 .. Len(q) OBVIOUS
<1>3. PICK s \in Nat : s = Size(w) BY OnType
<1>4. s >= 1
  <2>1. 1 \in 1 .. Size(w) BY HeadOn
  <2>2. QED BY <1>3, <2>1
<1>5. /\ Size(w)' = s - 1 + Len(q)
      /\ \A j \in 1 .. Len(q) : \A h : h = s - 1 + j => On(w, h)' = q[j]
  BY <1>1, <1>3 DEF Lines, Back
<1>6. Captured(b, w, q)
  <2>1. 1 \in DOMAIN q /\ q[1].by = b BY <1>2
  <2>2. QED BY <2>1 DEF Captured
<1>7. asked'[b] = asked[b] BY <1>1, <1>6
<1>8. ASSUME NEW v \in Threads, NEW i \in 1 .. Size(v)', On(v, i)'.by = b
      PROVE  v = w /\ \E j \in 1 .. Len(q) : i = s - 1 + j /\ On(w, i)' = q[j]
  BY <1>0, <1>1, <1>3, <1>8, After DEF Back
<1>9. Apart(b)'
  <2>1. SUFFICES ASSUME NEW v \in Threads, NEW u \in Threads, NEW i \in 1 .. Size(v)', NEW j \in 1 .. Size(u)',
                        On(v, i)'.by = b, On(u, j)'.by = b
                 PROVE  v = u /\ (i = j \/ (On(v, i)'.fn = "switch" /\ On(u, j)'.fn = "switch"))
    BY DEF Apart
  <2>2. PICK g \in 1 .. Len(q) : i = s - 1 + g /\ On(w, i)' = q[g] BY <1>8, <2>1
  <2>3. PICK h \in 1 .. Len(q) : j = s - 1 + h /\ On(w, j)' = q[h] BY <1>8, <2>1
  <2>4. v = w /\ u = w BY <1>8, <2>1
  <2>5. CASE Len(q) = 1
    <3>1. g = h BY <2>5
    <3>2. QED BY <2>2, <2>3, <2>4, <3>1
  <2>6. CASE \A n \in 1 .. Len(q) : q[n].fn = "switch" BY <2>2, <2>3, <2>4, <2>6
  <2>7. QED BY <2>5, <2>6
<1>10. Fits(b)'
  <2>1. ASSUME NEW v \in Threads, NEW i \in 1 .. Size(v)', On(v, i)'.by = b PROVE Suits(b, On(v, i))'
    <3>1. PICK j \in 1 .. Len(q) : v = w /\ On(w, i)' = q[j] BY <1>8, <2>1
    <3>2. PICK k : k = q[j] OBVIOUS
    <3>3. Suits(b, k) BY <3>2
    <3>4. On(v, i)' = k BY <3>1, <3>2
    <3>5. QED BY <1>7, <3>3, <3>4 DEF Suits
  <2>2. QED BY <2>1 DEF Fits
<1>11. Learned(b)' BY <1>0, <1>1, <1>7 DEF Learned, store, Back
<1>12. Listing(b)'
  <2>1. ASSUME Seeking(b)', held[b].mobile = Default, NEW x \in asked[b].known PROVE Sought(b, x)'
    <3>1. PICK v \in Threads : \E i \in 1 .. Size(v)' : Seeks(b, On(v, i)') BY <2>1 DEF Seeking, Seeks
    <3>2. PICK i \in 1 .. Size(v)' : Seeks(b, On(v, i)') BY <3>1
    <3>3. PICK j \in 1 .. Len(q) : v = w /\ On(w, i)' = q[j] BY <1>8, <3>2 DEF Seeks
    <3>4. q[j].fn = "switch" BY <3>2, <3>3 DEF Seeks
    <3>5. PICK g \in 1 .. Len(q) : q[g].fn = "switch" /\ q[g].key = x BY <2>1, <3>4
    <3>6. PICK h : h = s - 1 + g OBVIOUS
    <3>7. h \in 1 .. Size(w)' BY <1>2, <1>4, <1>5, <3>6
    <3>8. On(w, h)' = q[g] BY <1>5, <3>6
    <3>9. Seeks(b, On(w, h)') /\ On(w, h)'.key = x BY <3>5, <3>8 DEF Seeks
    <3>10. QED BY <3>7, <3>9 DEF Sought, Seeks
  <2>2. QED BY <1>7, <2>1 DEF Listing
<1>13. Told(b)'
  <2>1. \A v \in Threads : \A i \in 1 .. Len(replies'[v]) :
          \E j \in 1 .. Len(replies[v]) : replies'[v][i] = replies[v][j]
    BY <1>1, FewerReplies DEF Back
  <2>2. QED BY <1>0, <1>7, <2>1, ToldStays
<1>14. Standing(b)' BY <1>9, <1>10, <1>11, <1>12 DEF Standing
<1>15. Shape' BY <1>1 DEF Shape, Answering
<1>16. Counted' BY <1>1, FewerReplies, CountedStays DEF Answering, store, Back
<1>17. QED
  <2>1. Proper(b, q) /\ Others(b) BY <1>1 DEF Proper, Others
  <2>2. QED BY <1>1, <1>13, <1>14, <1>15, <1>16, <2>1, CallbackAnswers

\* The client that is called back.
LEMMA CallerOn ==
  ASSUME IInv, NEW w \in Threads, NEW fn, Runs(w, fn), fn \notin {"ignore", "report"}
  PROVE  \E b \in Clients :
           /\ b = On(w, 1).by /\ b = Caller(w) /\ replies[w] # << >> /\ On(w, 1) = Head(replies[w]).to
           /\ On(w, 1).fn = fn /\ On(w, 1) \in Formed
<1>1. replies[w] # << >> /\ Head(replies[w]).to.fn = fn BY DEF Runs
<1>2. On(w, 1) = Head(replies[w]).to /\ On(w, 1) \in Formed BY <1>1, HeadOn
<1>3. On(w, 1).fn \in Functions /\ On(w, 1).fn \notin {"ignore", "report"} BY <1>1, <1>2 DEF Formed
<1>4. On(w, 1).by \in Clients BY <1>2, <1>3, FormedFacts DEF Functions
<1>5. QED BY <1>1, <1>2, <1>4 DEF Caller

\* What its reply, and its command, have to do with it.
LEMMA CallerTold ==
  ASSUME IInv, Answering, NEW w \in Threads, replies[w] # << >>, NEW b \in Clients, b = On(w, 1).by
  PROVE  Right(b, Head(replies[w])) /\ Suits(b, On(w, 1)) /\ Apart(b) /\ Learned(b) /\ Listing(b) /\ Told(b)
<1>1. /\ Head(replies[w]) = replies[w][1] /\ 1 \in 1 .. Len(replies[w]) /\ 1 \in 1 .. Size(w)
      /\ On(w, 1) = Head(replies[w]).to
  BY HeadOn
<1>2. Told(b) /\ Fits(b) /\ Apart(b) /\ Learned(b) /\ Listing(b) BY DEF Answering, Standing
<1>3. Right(b, replies[w][1]) BY <1>1, <1>2 DEF Told
<1>4. Suits(b, On(w, 1)) BY <1>1, <1>2 DEF Fits
<1>5. QED BY <1>1, <1>2, <1>3, <1>4

\* A callback that sends nothing.
LEMMA PlainEnds ==
  ASSUME IInv, Answering, Queues', NEW w \in Threads, NEW fn, Runs(w, fn), fn \notin {"ignore", "report", "switch"},
         NEW say, Callback(w, << >>, say), UNCHANGED <<held, acked>>
  PROVE  Answering'
<1>1. PICK b \in Clients : b = On(w, 1).by /\ replies[w] # << >> /\ On(w, 1).fn = fn BY CallerOn
<1>2. PICK q : q = << >> OBVIOUS
<1>3. q \in Seq(Sound) /\ Len(q) = 0 BY <1>2
<1>4. replies' = [replies EXCEPT ![w] = Tail(@)] /\ UNCHANGED data BY DEF Callback, store
<1>5. Counted' BY <1>1, <1>4, FewerReplies, CountedStays DEF Answering
<1>6. Callback(w, q, say) BY <1>2
<1>7. \A j \in 1 .. Len(q) : q[j].by = None /\ (q[j].op = "SETEX" => q[j].val = q[j].key.mobile) BY <1>3
<1>8. acked' = [m \in Mobiles |-> acked'[m]] BY DEF Answering, Shape
<1>9. QED BY <1>1, <1>3, <1>5, <1>6, <1>7, <1>8, Ends

\* A callback that sends a command nobody waits for.
LEMMA AsideEnds ==
  ASSUME IInv, Answering, Queues', NEW w \in Threads, NEW fn, Runs(w, fn), fn \notin {"ignore", "report", "switch"},
         NEW say, NEW k \in Sound, Callback(w, <<k>>, say), k.by = None, k.op = "SETEX" => k.val = k.key.mobile,
         \A c \in Clients : c # Caller(w) => held'[c] = held[c], acked' = acked
  PROVE  Answering'
<1>1. PICK b \in Clients : b = On(w, 1).by /\ b = Caller(w) /\ replies[w] # << >> /\ On(w, 1).fn = fn BY CallerOn
<1>2. PICK q : q = <<k>> OBVIOUS
<1>3. q \in Seq(Sound) /\ Len(q) = 1 /\ q[1] = k BY <1>2
<1>4. replies' = [replies EXCEPT ![w] = Tail(@)] /\ UNCHANGED data BY DEF Callback, store
<1>5. Counted' BY <1>1, <1>4, FewerReplies, CountedStays DEF Answering
<1>6. Callback(w, q, say) BY <1>2
<1>7. \A j \in 1 .. Len(q) : q[j].by = None /\ (q[j].op = "SETEX" => q[j].val = q[j].key.mobile) BY <1>3
<1>8. acked' = [m \in Mobiles |-> acked'[m]] BY DEF Answering, Shape
<1>9. QED BY <1>1, <1>3, <1>5, <1>6, <1>7, <1>8, Ends

\* The client is welcomed with the token that is stored under its mobile.
LEMMA WelcomeEnds ==
  ASSUME IInv, Answering, Queues', NEW w \in Threads, NEW fn \in {"Register", "Login"}, Runs(w, fn),
         MayWelcome(w), Welcome(w), acked' = acked
  PROVE  Answering'
<1>1. PICK t \in Tokens, new \in Sound :
        /\ t.mobile = Head(replies[w]).to.key
        /\ new.op = "SETEX" /\ new.key = t /\ new.val = Head(replies[w]).to.key /\ new.by = None
        /\ held' = [held EXCEPT ![Head(replies[w]).to.by] = t]
        /\ Callback(w, <<new>>, Say("OK", None))
  BY WelcomeSends
<1>2. \A c \in Clients : c # Caller(w) => held'[c] = held[c] BY <1>1 DEF Caller, IInv, TypeOK
<1>3. new.val = new.key.mobile BY <1>1
<1>4. Callback(w, <<new>>, Say("OK", None)) /\ new.by = None BY <1>1
<1>5. fn \notin {"ignore", "report", "switch"} OBVIOUS
<1>6. QED BY <1>2, <1>3, <1>4, <1>5, AsideEnds

\* Data that are stored count for the client from now on.
LEMMA HMSETEnds ==
  ASSUME IInv, Answering, Queues', NEW w \in Threads, HMSETReply(w)
  PROVE  Answering'
<1>1. Runs(w, "HMSET") /\ UNCHANGED held BY DEF HMSETReply
<1>2. PICK b \in Clients :
        /\ b = On(w, 1).by /\ replies[w] # << >> /\ On(w, 1) = Head(replies[w]).to
        /\ On(w, 1).fn = "HMSET" /\ On(w, 1) \in Formed
  BY <1>1, CallerOn
<1>3. PICK m : m = On(w, 1).key OBVIOUS
<1>4. m \in Mobiles BY <1>2, <1>3, FormedFacts
<1>5. acked = [x \in Mobiles |-> acked[x]] BY DEF Answering, Shape
<1>6. acked' = [acked EXCEPT ![m] = @ + 1] BY <1>2, <1>3 DEF HMSETReply
<1>7. acked' = [x \in Mobiles |-> acked'[x]] /\ acked'[m] = acked[m] + 1
      /\ \A x \in Mobiles : x # m => acked'[x] = acked[x]
  BY <1>4, <1>5, <1>6
<1>8. PICK q, say : q = << >> /\ say = Say("OK", None) OBVIOUS
<1>9. q \in Seq(Sound) /\ Len(q) = 0 BY <1>8
<1>10. Callback(w, q, say) BY <1>8 DEF HMSETReply
<1>11. Back(w, b, q)
  BY <1>2, <1>9, <1>10, CallbackEffect DEF Answering
<1>12. \A v \in Threads : \A i \in 1 .. Len(replies'[v]) :
         \E j \in 1 .. Len(replies[v]) : replies'[v][i] = replies[v][j]
  BY <1>2, <1>11, FewerReplies DEF Back
<1>13. Apart(b) BY <1>2, CallerTold
<1>14. ASSUME NEW v \in Threads, NEW i \in 1 .. Size(v)', On(v, i)'.by = b PROVE FALSE
  <2>1. Lines(w, 1, q) BY <1>11 DEF Back
  <2>2. On(w, 1).by = b /\ On(w, 1).fn # "switch" /\ replies[w] # << >> BY <1>2
  <2>3. q \in Seq(Sound) BY <1>9
  <2>4. \E j \in 1 .. Len(q) : On(w, i)' = q[j] BY <1>13, <1>14, <2>1, <2>2, <2>3, After
  <2>5. QED BY <1>9, <2>4
<1>15. Counted'
  <2>1. ASSUME NEW x \in Mobiles
        PROVE  IsFiniteSet(Waiting(x)') /\ acked'[x] \in Nat /\ acked'[x] + Cardinality(Waiting(x)') <= data'[x]
    <3>1. /\ IsFiniteSet(Waiting(x)') /\ IsFiniteSet(Waiting(x)) /\ Waiting(x)' \subseteq Waiting(x)
          /\ Cardinality(Waiting(x)) \in Nat /\ Cardinality(Waiting(x)') \in Nat
          /\ Cardinality(Waiting(x)') <= Cardinality(Waiting(x))
      BY <1>12, WaitingFewer DEF Answering
    <3>2. /\ acked[x] \in Nat /\ acked[x] + Cardinality(Waiting(x)) <= data[x]
          /\ data[x] \in Nat /\ data' = data
      BY <1>11 DEF Answering, Counted, IInv, TypeOK, Back, store
    <3>3. PICK X, Y : X = Waiting(x) /\ Y = Waiting(x)' OBVIOUS
    <3>4. PICK n, p : n = Cardinality(X) /\ p = Cardinality(Y) OBVIOUS
    <3>5. n \in Nat /\ p \in Nat /\ p <= n /\ acked[x] + n <= data[x] BY <3>1, <3>2, <3>3, <3>4
    <3>6. CASE x # m
      <4>1. acked'[x] = acked[x] BY <1>7, <3>6
      <4>2. acked'[x] + p <= data'[x] BY <3>2, <3>5, <4>1
      <4>3. QED BY <3>1, <3>2, <3>3, <3>4, <4>1, <4>2
    <3>7. CASE x = m
      <4>1. b \in X
        <5>1. replies[w][1].to = On(w, 1) /\ 1 \in 1 .. Len(replies[w]) BY <1>2, HeadOn
        <5>2. Waits(b, x, replies[w][1]) BY <1>2, <1>3, <3>7, <5>1 DEF Waits
        <5>3. QED BY <3>3, <5>1, <5>2 DEF Waiting
      <4>2. b \notin Y
        <5>1. SUFFICES ASSUME b \in Y PROVE FALSE
          OBVIOUS
        <5>2. PICK v \in Threads : \E i \in 1 .. Len(replies'[v]) : Waits(b, x, replies'[v][i])
          BY <3>3, <5>1 DEF Waiting, Waits
        <5>3. PICK i \in 1 .. Len(replies'[v]) : replies'[v][i].to.by = b BY <5>2 DEF Waits
        <5>4. \E j \in 1 .. Size(v)' : On(v, j)' = replies'[v][i].to
          <6>1. commands'[v] \in Seq(Sound') /\ replies'[v] \in Seq(SoundReplies') BY DEF Queues
          <6>2. \A z \in SoundReplies' : z.to \in Sound' BY DEF SoundReplies
          <6>3. PICK r, k : r = replies'[v] /\ k = commands'[v] OBVIOUS
          <6>4. /\ Length(r, k) \in Nat /\ Len(r) \in Nat /\ Len(r) <= Length(r, k)
                /\ \A j \in 1 .. Len(r) : Place(r, k, j) = r[j].to
            BY <6>1, <6>2, <6>3, PlaceType
          <6>5. i \in 1 .. Length(r, k) /\ Place(r, k, i) = r[i].to BY <6>3, <6>4
          <6>6. i \in 1 .. Size(v)' /\ On(v, i)' = r[i].to BY <6>3, <6>5, Zenon DEF Size, On
          <6>7. QED BY <6>3, <6>6
        <5>5. PICK j \in 1 .. Size(v)' : On(v, j)'.by = b BY <5>3, <5>4
        <5>6. QED BY <1>14, <5>5
      <4>3. X \in SUBSET X /\ Y \subseteq X \ {b} /\ IsFiniteSet(X) BY <3>1, <3>3, <4>2
      <4>4. IsFiniteSet(X \ {b}) /\ Cardinality(X \ {b}) = Cardinality(X) - 1 BY <4>1, <4>3, FS_RemoveElement
      <4>5. Cardinality(Y) <= Cardinality(X \ {b}) BY <4>3, <4>4, FS_Subset
      <4>6. p <= n - 1 BY <3>4, <4>4, <4>5
      <4>7. acked'[x] = acked[x] + 1 BY <1>7, <3>7
      <4>8. acked'[x] + p <= data'[x] BY <3>2, <3>5, <4>6, <4>7
      <4>9. QED BY <3>1, <3>2, <3>3, <3>4, <4>7, <4>8
    <3>8. QED BY <3>6, <3>7
  <2>2. QED BY <2>1 DEF Counted
<1>16. \A j \in 1 .. Len(q) : q[j].by = None /\ (q[j].op = "SETEX" => q[j].val = q[j].key.mobile) BY <1>9
<1>17. \A c \in Clients : c # b => held'[c] = held[c] BY <1>1
<1>18. QED BY <1>2, <1>7, <1>9, <1>10, <1>15, <1>16, <1>17, Ends

\* The second command of a method that has looked up its token.
LEMMA SecondGoes ==
  ASSUME IInv, Answering, NEW w \in Threads, NEW method \in TokenMethods, TokenReply(w, method),
         NEW op \in {"HMSET", "HGETALL", "KEYS"},
         op = "HMSET" => method = "UploadData", op = "HGETALL" => method = "GetBaseInfo",
         op = "KEYS" => method = "GetSwitchInfo",
         Callback(w, <<Command(op, Mobile(w), None, op, Caller(w))>>, Nothing), acked' = acked
  PROVE  Answering'
<1>1. /\ Runs(w, method) /\ Head(replies[w]).ret # None /\ UNCHANGED held
      /\ method \notin {"ignore", "report", "switch"}
  BY DEF TokenReply, TokenMethods
<1>2. PICK b \in Clients :
        /\ b = On(w, 1).by /\ b = Caller(w) /\ replies[w] # << >> /\ On(w, 1) = Head(replies[w]).to
        /\ On(w, 1).fn = method
  BY <1>1, CallerOn
<1>3. PICK k : k = Command(op, Mobile(w), None, op, Caller(w)) OBVIOUS
<1>4. k \in Sound BY <1>3, SecondSound
<1>5. k.op = op /\ k.fn = op /\ k.by = b /\ k.key = Mobile(w) BY <1>2, <1>3 DEF Command
<1>6. Right(b, Head(replies[w])) /\ Suits(b, On(w, 1)) BY <1>2, CallerTold
<1>7. asked[b] # None /\ asked[b].method = method /\ On(w, 1).key = held[b] BY <1>2, <1>6 DEF Suits
<1>8. Mobile(w) = held[b].mobile BY <1>1, <1>2, <1>6, <1>7 DEF Right, Mobile
<1>9. Suits(b, k) BY <1>5, <1>7, <1>8 DEF Suits, TokenMethods
<1>10. PICK q, say : q = <<k>> /\ say = Nothing OBVIOUS
<1>11. q \in Seq(Sound) /\ Len(q) = 1 /\ q[1] = k /\ q # << >> BY <1>4, <1>10
<1>12. Callback(w, q, say) BY <1>3, <1>10
<1>13. \A j \in 1 .. Len(q) : q[j].by = b /\ q[j].op # "SETEX" /\ Suits(b, q[j]) BY <1>5, <1>9, <1>11
<1>14. ~ \E j \in 1 .. Len(q) : q[j].fn = "switch" BY <1>5, <1>11
<1>15. UNCHANGED <<held, acked>> BY <1>1
<1>16. QED BY <1>1, <1>2, <1>11, <1>12, <1>13, <1>14, <1>15, Goes

LEMMA KEYSAnswers ==
  ASSUME IInv, Answering, Queues', NEW w \in Threads, KEYSReply(w)
  PROVE  Answering'
<1>1. Runs(w, "KEYS") /\ UNCHANGED <<held, acked>> BY DEF KEYSReply
<1>2. PICK b \in Clients :
        /\ b = On(w, 1).by /\ b = Caller(w) /\ replies[w] # << >> /\ On(w, 1) = Head(replies[w]).to
        /\ On(w, 1).fn = "KEYS"
  BY <1>1, CallerOn
<1>3. PICK names \in Seq(Switches), q \in Seq(Sound) :
        /\ names = Head(replies[w]).names /\ Len(q) = Len(names)
        /\ \A i \in 1 .. Len(q) : q[i] = Command("HGET", names[i], None, "switch", Caller(w))
        /\ Callback(w, q, IF names = << >> THEN Say("OK", {}) ELSE Nothing)
  BY KEYSReplySends
<1>4. PICK say : Callback(w, q, say) BY <1>3
<1>5. CASE q = << >>
  <2>1. Callback(w, << >>, say) BY <1>4, <1>5
  <2>2. QED BY <1>1, <2>1, PlainEnds
<1>6. CASE q # << >>
  <2>1. Right(b, Head(replies[w])) /\ Suits(b, On(w, 1)) BY <1>2, CallerTold
  <2>2. asked[b] # None /\ asked[b].method = "GetSwitchInfo" /\ On(w, 1).key = held[b].mobile
    BY <1>2, <2>1 DEF Suits
  <2>3. ASSUME NEW j \in 1 .. Len(q)
        PROVE  /\ q[j].by = b /\ q[j].op = "HGET" /\ q[j].fn = "switch" /\ q[j].key = names[j]
               /\ Suits(b, q[j])
    <3>1. q[j] = Command("HGET", names[j], None, "switch", Caller(w)) BY <1>3
    <3>2. q[j].by = b /\ q[j].op = "HGET" /\ q[j].fn = "switch" /\ q[j].key = names[j]
      BY <1>2, <3>1 DEF Command
    <3>3. QED BY <2>2, <3>2 DEF Suits, TokenMethods
  <2>4. ASSUME held[b].mobile = Default, NEW s \in asked[b].known
        PROVE  \E j \in 1 .. Len(q) : q[j].fn = "switch" /\ q[j].key = s
    <3>1. PICK j \in 1 .. Len(names) : names[j] = s BY <1>2, <1>3, <2>1, <2>2, <2>4 DEF Right
    <3>2. QED BY <1>3, <2>3, <3>1
  <2>5. \A j \in 1 .. Len(q) : q[j].by = b /\ q[j].op # "SETEX" /\ Suits(b, q[j]) BY <2>3
  <2>6. \A j \in 1 .. Len(q) : q[j].fn = "switch" BY <2>3
  <2>7. On(w, 1).fn # "switch" BY <1>2
  <2>8. QED BY <1>1, <1>2, <1>4, <1>6, <2>4, <2>5, <2>6, <2>7, Goes
<1>7. QED BY <1>5, <1>6

\* A reply that names the status of a switch.
LEMMA SwitchCalls ==
  ASSUME IInv, NEW w \in Threads, SwitchReply(w)
  PROVE  \E b \in Clients : \E say :
           /\ b = On(w, 1).by /\ replies[w] # << >> /\ On(w, 1).fn = "switch" /\ UNCHANGED <<held, acked>>
           /\ On(w, 1) = Head(replies[w]).to /\ Callback(w, << >>, say)
           /\ Head(replies[w]).ret = None => say = answer[b]
           /\ Head(replies[w]).ret # None => /\ say.code = "OK" /\ On(w, 1).key \in say.about
                                             /\ answer[b].code = "OK" => answer[b].about \subseteq say.about
<1>1. Runs(w, "switch") /\ UNCHANGED <<held, acked>> BY DEF SwitchReply
<1>2. PICK b \in Clients :
        /\ b = On(w, 1).by /\ replies[w] # << >> /\ On(w, 1) = Head(replies[w]).to /\ On(w, 1).fn = "switch"
  BY <1>1, CallerOn
<1>3. PICK r : r = Head(replies[w]) OBVIOUS
<1>4. PICK listed : listed = IF answer[b] = Nothing THEN {} ELSE answer[b].about OBVIOUS
<1>5. PICK say : say = IF r.ret = None THEN answer[b] ELSE Say("OK", listed \cup {r.to.key}) OBVIOUS
<1>6. Callback(w, << >>, say) BY <1>2, <1>3, <1>4, <1>5 DEF SwitchReply
<1>7. r.ret # None => say.code = "OK" /\ say.about = listed \cup {r.to.key} BY <1>5 DEF Say
<1>8. answer[b].code = "OK" => listed = answer[b].about
  <2>1. Nothing.code = None /\ None # "OK" BY NoneAssumption DEF Nothing, Say
  <2>2. QED BY <1>4, <2>1
<1>9. QED BY <1>1, <1>2, <1>3, <1>5, <1>6, <1>7, <1>8

\* The client's switches are still asked for, or listed.
LEMMA SwitchLists ==
  ASSUME IInv, Answering, NEW w \in Threads, SwitchReply(w), NEW b \in Clients, b = On(w, 1).by,
         held[b].mobile = Default, NEW s \in asked[b].known
  PROVE  Sought(b, s)' \/ (answer'[b].code = "OK" /\ s \in answer'[b].about)
<1>1. PICK say :
        /\ replies[w] # << >> /\ On(w, 1).fn = "switch"
        /\ On(w, 1) = Head(replies[w]).to /\ Callback(w, << >>, say)
        /\ Head(replies[w]).ret = None => say = answer[b]
        /\ Head(replies[w]).ret # None => /\ say.code = "OK" /\ On(w, 1).key \in say.about
                                          /\ answer[b].code = "OK" => answer[b].about \subseteq say.about
  BY SwitchCalls
<1>2. PICK q : q = << >> OBVIOUS
<1>3. q \in Seq(Sound) /\ Len(q) = 0 /\ Callback(w, q, say) BY <1>1, <1>2
<1>4. Back(w, b, q) /\ answer'[b] = say
  <2>1. replies[w] # << >> /\ Shape BY <1>1 DEF Answering
  <2>2. q \in Seq(Sound) /\ Callback(w, q, say) BY <1>3
  <2>3. QED BY <2>1, <2>2, CallbackEffect
<1>5. Right(b, Head(replies[w])) /\ Apart(b) /\ Listing(b) BY <1>1, CallerTold
<1>6. PICK n \in Nat : n = Size(w) BY OnType
<1>7. 1 \in 1 .. Size(w) BY <1>1, HeadOn
<1>8. Seeking(b) BY <1>1, <1>7 DEF Seeking, Seeks
<1>9. CASE answer[b].code = "OK" /\ s \in answer[b].about BY <1>1, <1>4, <1>9
<1>10. CASE Sought(b, s)
  <2>1. PICK v \in Threads : \E i \in 1 .. Size(v) : Seeks(b, On(v, i)) /\ On(v, i).key = s BY <1>10 DEF Sought
  <2>2. PICK i \in 1 .. Size(v) : Seeks(b, On(v, i)) /\ On(v, i).key = s BY <2>1
  <2>3. v = w BY <1>5, <1>7, <2>2 DEF Apart, Seeks
  <2>4. CASE i = 1
    <3>1. On(w, 1).key = s BY <2>2, <2>3, <2>4
    <3>2. Head(replies[w]).ret # None BY <1>1, <1>5, <3>1 DEF Right
    <3>3. QED BY <1>1, <1>4, <3>1, <3>2
  <2>5. CASE i # 1
    <3>1. PICK j : j = i - 1 OBVIOUS
    <3>2. j \in 1 .. n - 1 /\ j + 1 = i BY <1>6, <2>3, <2>5, <3>1
    <3>3. Size(w)' = n - 1 + Len(q) /\ \A h \in 1 .. n - 1 : On(w, h)' = On(w, h + 1)
      BY <1>4, <1>6 DEF Back, Lines
    <3>4. j \in 1 .. Size(w)' BY <1>3, <3>2, <3>3
    <3>5. On(w, j)' = On(w, i) BY <3>2, <3>3
    <3>6. Seeks(b, On(w, j)') /\ On(w, j)'.key = s BY <2>2, <2>3, <3>5
    <3>7. QED BY <3>4, <3>6 DEF Sought, Seeks
  <2>6. QED BY <2>4, <2>5
<1>11. QED BY <1>5, <1>8, <1>9, <1>10 DEF Listing

LEMMA SwitchAnswers ==
  ASSUME IInv, Answering, Queues', NEW w \in Threads, SwitchReply(w)
  PROVE  Answering'
<1>1. PICK b \in Clients : \E say :
        /\ b = On(w, 1).by /\ replies[w] # << >> /\ On(w, 1).fn = "switch" /\ UNCHANGED <<held, acked>>
        /\ Callback(w, << >>, say)
  BY SwitchCalls
<1>2. PICK q, say : q = << >> /\ Callback(w, q, say) BY <1>1
<1>3. q \in Seq(Sound) /\ Callback(w, q, say) BY <1>2
<1>4. replies[w] # << >> /\ b = On(w, 1).by /\ Shape BY <1>1 DEF Answering
<1>5. /\ Back(w, b, q)
      /\ Captured(b, w, q) <=> \E i \in 1 .. Size(w)' : On(w, i)'.by = b
      /\ asked' = [c \in Clients |-> asked'[c]] /\ answer' = [c \in Clients |-> answer'[c]]
      /\ \A c \in Clients : c # b => asked'[c] = asked[c] /\ answer'[c] = answer[c]
      /\ asked'[b] = IF Captured(b, w, q) THEN asked[b] ELSE None
  BY <1>3, <1>4, CallbackEffect
<1>6. Lines(w, 1, q) BY <1>5 DEF Back
<1>7. Apart(b) /\ Learned(b) /\ Told(b) /\ Fits(b) BY DEF Answering, Standing
<1>8. ASSUME NEW v \in Threads, NEW i \in 1 .. Size(v)', On(v, i)'.by = b
      PROVE  /\ v = w /\ i \in 1 .. Size(w) - 1 /\ On(w, i)' = On(w, i + 1) /\ i + 1 \in 1 .. Size(w)
             /\ On(w, i + 1).fn = "switch"
  <2>1. \/ \E j \in 1 .. Len(q) : i = Size(w) - 1 + j /\ On(w, i)' = q[j]
        \/ /\ i \in 1 .. Size(w) - 1 /\ On(w, i)' = On(w, i + 1) /\ i + 1 \in 1 .. Size(w)
           /\ On(w, 1).fn = "switch" /\ On(w, i + 1).fn = "switch"
    BY <1>3, <1>4, <1>6, <1>7, <1>8, After
  <2>2. v = w BY <1>3, <1>4, <1>6, <1>7, <1>8, After
  <2>3. Len(q) = 0 BY <1>2
  <2>4. QED BY <2>1, <2>2, <2>3
<1>9. Standing(b)' /\ Told(b)'
  <2>1. CASE ~ Captured(b, w, q)
    <3>1. asked'[b] = None BY <1>5, <2>1
    <3>2. Learned(b)' BY <3>1 DEF Learned
    <3>3. \A v \in Threads : \A i \in 1 .. Size(v)' : On(v, i)'.by # b
      <4>1. SUFFICES ASSUME NEW v \in Threads, NEW i \in 1 .. Size(v)', On(v, i)'.by = b PROVE FALSE
        OBVIOUS
      <4>2. v = w BY <1>8, <4>1
      <4>3. QED BY <1>5, <2>1, <4>1, <4>2
    <3>4. QED BY <3>2, <3>3, Ended
  <2>2. CASE Captured(b, w, q)
    <3>1. asked'[b] = asked[b] BY <1>5, <2>2
    <3>2. Apart(b)'
      <4>1. SUFFICES ASSUME NEW v \in Threads, NEW u \in Threads, NEW i \in 1 .. Size(v)', NEW j \in 1 .. Size(u)',
                            On(v, i)'.by = b, On(u, j)'.by = b
                     PROVE  v = u /\ On(v, i)'.fn = "switch" /\ On(u, j)'.fn = "switch"
        BY DEF Apart
      <4>2. v = w /\ On(v, i)'.fn = "switch" BY <1>8, <4>1
      <4>3. u = w /\ On(u, j)'.fn = "switch" BY <1>8, <4>1
      <4>4. QED BY <4>2, <4>3
    <3>3. Fits(b)'
      <4>1. ASSUME NEW v \in Threads, NEW i \in 1 .. Size(v)', On(v, i)'.by = b PROVE Suits(b, On(v, i))'
        <5>1. PICK k : k = On(w, i + 1) OBVIOUS
        <5>2. On(v, i)' = k /\ i + 1 \in 1 .. Size(w) BY <1>8, <4>1, <5>1
        <5>3. Suits(b, k) BY <1>7, <4>1, <5>1, <5>2 DEF Fits
        <5>4. held'[b] = held[b] BY <1>1
        <5>5. QED BY <3>1, <5>2, <5>3, <5>4 DEF Suits
      <4>2. QED BY <4>1 DEF Fits
    <3>4. Learned(b)' BY <1>5, <1>7, <3>1 DEF Learned, Back, store
    <3>5. Listing(b)'
      <4>1. held'[b] = held[b] BY <1>1
      <4>2. ASSUME held[b].mobile = Default, NEW s \in asked[b].known
            PROVE  Sought(b, s)' \/ (answer'[b].code = "OK" /\ s \in answer'[b].about)
        BY <1>4, <4>2, SwitchLists
      <4>3. QED BY <3>1, <4>1, <4>2 DEF Listing
    <3>6. Told(b)'
      <4>1. \A v \in Threads : \A i \in 1 .. Len(replies'[v]) :
              \E j \in 1 .. Len(replies[v]) : replies'[v][i] = replies[v][j]
        BY <1>5, FewerReplies DEF Back
      <4>2. QED BY <1>7, <3>1, <4>1, ToldStays
    <3>7. QED BY <3>2, <3>3, <3>4, <3>5, <3>6 DEF Standing
  <2>3. QED BY <2>1, <2>2
<1>10. Shape' BY <1>1, <1>5 DEF Shape, Answering
<1>11. Counted' BY <1>1, <1>5, FewerReplies, CountedStays DEF Answering, store, Back
<1>12. Proper(b, q)
  <2>1. Len(q) = 0 BY <1>2
  <2>2. QED BY <2>1 DEF Proper
<1>13. Others(b) BY <1>1, <1>5 DEF Others
<1>14. QED BY <1>3, <1>5, <1>9, <1>10, <1>11, <1>12, <1>13, CallbackAnswers

\* A reply that no client waits for.
LEMMA DropAnswers ==
  ASSUME IInv, Answering, NEW w \in Threads, replies[w] # << >>, On(w, 1).fn \in {"ignore", "report"},
         replies' = [replies EXCEPT ![w] = Tail(@)], UNCHANGED <<store, commands, clients>>
  PROVE  Answering'
<1>1. PICK q : q = << >> OBVIOUS
<1>2. q \in Seq(Sound) /\ Len(q) = 0 BY <1>1
<1>3. commands' = [commands EXCEPT ![w] = @ \o q]
  <2>1. commands \in [Threads -> Seq(Sound)] /\ commands[w] \in Seq(Sound) BY DEF IInv
  <2>2. commands[w] \o << >> = commands[w] BY <2>1
  <2>3. commands' = [commands EXCEPT ![w] = @ \o << >>] BY <2>1, <2>2
  <2>4. QED BY <1>1, <2>3
<1>4. Lines(w, 1, q) BY <1>2, <1>3, LineTaken
<1>5. PICK b : b = On(w, 1).by OBVIOUS
<1>6. Back(w, b, q) BY <1>4, <1>5 DEF Back
<1>7. b \notin Clients
  <2>1. SUFFICES ASSUME b \in Clients PROVE FALSE
    OBVIOUS
  <2>2. Suits(b, On(w, 1)) BY <1>5, <2>1, CallerTold
  <2>3. QED BY <2>2 DEF Suits
<1>8. Others(b) /\ Proper(b, q) BY <1>2 DEF Others, Proper, clients
<1>9. Shape' BY DEF Shape, Answering, clients
<1>10. Counted' BY FewerReplies, CountedStays DEF Answering, store, clients
<1>11. QED BY <1>2, <1>6, <1>7, <1>8, <1>9, <1>10, CallbackAnswers

LEMMA ThreadAnswers == ASSUME IInv, Answering, Queues', NEW w \in Threads, Thread(w) PROVE Answering'
<1>1. CASE RegisterReply(w)
  <2>1. Runs(w, "Register") /\ acked' = acked BY <1>1 DEF RegisterReply
  <2>2. CASE MayWelcome(w) /\ Welcome(w) BY <2>1, <2>2, WelcomeEnds
  <2>3. CASE Callback(w, << >>, Say("REGISTERED", None)) /\ UNCHANGED held BY <2>1, <2>3, PlainEnds
  <2>4. QED BY <1>1, <2>2, <2>3, RegisterOutcome
<1>2. CASE LoginReply(w)
  <2>1. Runs(w, "Login") /\ acked' = acked BY <1>2 DEF LoginReply
  <2>2. CASE MayWelcome(w) /\ Welcome(w) BY <2>1, <2>2, WelcomeEnds
  <2>3. CASE Callback(w, << >>, Say("LOGIN_ERR", None)) /\ UNCHANGED held BY <2>1, <2>3, PlainEnds
  <2>4. QED BY <1>2, <2>2, <2>3, LoginOutcome
<1>3. CASE TokenWrong(w)
  <2>1. PICK fn \in TokenMethods : Runs(w, fn) BY <1>3 DEF TokenWrong
  <2>2. fn \notin {"ignore", "report", "switch"} BY DEF TokenMethods
  <2>3. Callback(w, << >>, Say("LOGIN_ERR", None)) /\ UNCHANGED <<held, acked>> BY <1>3 DEF TokenWrong
  <2>4. QED BY <2>1, <2>2, <2>3, PlainEnds
<1>4. CASE LoginWithTokenReply(w)
  <2>1. /\ Runs(w, "LoginWithToken") /\ Callback(w, << >>, Say("OK", Mobile(w))) /\ UNCHANGED <<held, acked>>
    BY <1>4 DEF LoginWithTokenReply, TokenReply
  <2>2. QED BY <2>1, PlainEnds
<1>5. CASE UploadDataReply(w)
  <2>1. acked' = acked BY <1>5 DEF UploadDataReply, TokenReply
  <2>2. QED BY <1>5, <2>1, SecondGoes DEF UploadDataReply, TokenMethods
<1>6. CASE HMSETReply(w) BY <1>6, HMSETEnds
<1>7. CASE GetBaseInfoReply(w)
  <2>1. acked' = acked BY <1>7 DEF GetBaseInfoReply, TokenReply
  <2>2. QED BY <1>7, <2>1, SecondGoes DEF GetBaseInfoReply, TokenMethods
<1>8. CASE HGETALLReply(w)
  <2>1. /\ Runs(w, "HGETALL") /\ Callback(w, << >>, Say("OK", Head(replies[w]).ret)) /\ UNCHANGED <<held, acked>>
    BY <1>8 DEF HGETALLReply
  <2>2. QED BY <2>1, PlainEnds
<1>9. CASE ApplyForLoanReply(w)
  <2>1. Runs(w, "ApplyForLoan") /\ Callback(w, << >>, Nothing) /\ UNCHANGED <<held, acked>>
    BY <1>9 DEF ApplyForLoanReply, TokenReply
  <2>2. QED BY <2>1, PlainEnds
<1>10. CASE SetSwitchInfoReply(w)
  <2>1. Runs(w, "SetSwitchInfo") /\ UNCHANGED <<held, acked>> BY <1>10 DEF SetSwitchInfoReply, TokenReply
  <2>2. PICK k \in Sound : k.op = "HSET" /\ k.by = None /\ Callback(w, <<k>>, Say("OK", None))
    BY <1>10, SetSwitchInfoReplySends
  <2>3. \A c \in Clients : c # Caller(w) => held'[c] = held[c] BY <2>1
  <2>4. k.op # "SETEX" /\ acked' = acked BY <2>1, <2>2
  <2>5. QED BY <2>1, <2>2, <2>3, <2>4, AsideEnds
<1>11. CASE GetSwitchInfoReply(w)
  <2>1. acked' = acked BY <1>11 DEF GetSwitchInfoReply, TokenReply
  <2>2. QED BY <1>11, <2>1, SecondGoes DEF GetSwitchInfoReply, TokenMethods
<1>12. CASE KEYSReply(w) BY <1>12, KEYSAnswers
<1>13. CASE SwitchReply(w) BY <1>13, SwitchAnswers
<1>14. CASE IgnoredReply(w)
  <2>1. replies[w] # << >> /\ On(w, 1).fn = "ignore" BY <1>14, HeadOn DEF IgnoredReply, Runs
  <2>2. QED BY <1>14, <2>1, DropAnswers DEF IgnoredReply
<1>15. CASE ReportReply(w)
  <2>1. replies[w] # << >> /\ On(w, 1).fn = "report" BY <1>15, HeadOn DEF ReportReply, Runs
  <2>2. QED BY <1>15, <2>1, DropAnswers DEF ReportReply
<1>16. QED BY <1>1, <1>2, <1>3, <1>4, <1>5, <1>6, <1>7, <1>8, <1>9, <1>10, <1>11, <1>12, <1>13, <1>14, <1>15
            DEF Thread

-----------------------------------------------------------------------------
(* Calls, the gateway and the rest *)

\* A client that is answered is on no line.
LEMMA NotWaiting ==
  ASSUME IInv, Answering, NEW c \in Clients, asked[c] = None
  PROVE  /\ \A v \in Threads : \A i \in 1 .. Size(v) : On(v, i).by # c
         /\ \A v \in Threads : \A i \in 1 .. Len(replies[v]) : replies[v][i].to.by # c
<1>1. Fits(c) BY DEF Answering, Standing
<1>2. \A v \in Threads : \A i \in 1 .. Size(v) : On(v, i).by # c BY <1>1 DEF Fits, Suits
<1>3. ASSUME NEW v \in Threads, NEW i \in 1 .. Len(replies[v]) PROVE replies[v][i].to.by # c
  <2>1. i \in 1 .. Size(v) /\ On(v, i) = replies[v][i].to BY OnType
  <2>2. QED BY <1>2, <2>1
<1>4. QED BY <1>2, <1>3

\* Thread w sends the commands q.
Sends(w, q) == Lines(w, 0, q) /\ replies' = replies /\ UNCHANGED store

LEMMA SendsAnswers ==
  ASSUME IInv, Answering, NEW w \in Threads, NEW q \in Seq(Sound), Sends(w, q), NEW b, Others(b), Proper(b, q),
         b \in Clients => Standing(b)' /\ Told(b)', Shape', acked' = acked
  PROVE  Answering'
<1>1. Lines(w, 0, q) /\ replies' = replies /\ UNCHANGED store BY DEF Sends
<1>2. 0 <= Size(w) /\ 0 \in {0, 1}
  <2>1. Size(w) \in Nat BY OnType
  <2>2. QED BY <2>1
<1>3. ASSUME NEW c \in Clients, c # b PROVE Standing(c)' /\ Told(c)'
  <2>1. asked'[c] = asked[c] /\ held'[c] = held[c] /\ answer'[c] = answer[c] BY <1>3 DEF Others
  <2>2. c # None BY AccountsAssumption
  <2>3. \A j \in 1 .. Len(q) : q[j].by # c BY <1>3, <2>2 DEF Proper
  <2>4. Shifts(c, Moved(w, 0)) BY <1>1, <1>2, <2>3, MoveShifts
  <2>5. Moved(w, 0) \in [Threads -> {0, 1}] BY DEF Moved
  <2>6. Grows BY <1>1, GrowsUnlessSet DEF store
  <2>7. Standing(c) /\ Told(c) BY DEF Answering
  <2>8. Standing(c)' BY <2>1, <2>4, <2>5, <2>6, <2>7, StandingStays
  <2>9. Told(c)' BY <1>1, <2>1, <2>7, ToldStays
  <2>10. QED BY <2>8, <2>9
<1>4. tokens' \subseteq tokens BY <1>1 DEF store
<1>5. Named' BY <1>1, <1>2, <1>4, NamedStays DEF Answering, Proper
<1>6. Counted' BY <1>1, CountedStays DEF Answering, store
<1>7. \A c \in Clients : Standing(c)' /\ Told(c)'
  <2>1. b \in Clients => Standing(b)' /\ Told(b)' OBVIOUS
  <2>2. QED BY <1>3, <2>1
<1>8. QED BY <1>5, <1>6, <1>7 DEF Answering

\* What is noted of a call is not None.
LEMMA Noted ==
  ASSUME Answering, NEW fn \in Methods
  PROVE  [method |-> fn, known |-> Known(fn)] # None
<1>1. acked \in [Mobiles -> Nat] BY DEF Answering, Shape, Counted
<1>2. Known(fn) \in {None} \cup [Mobiles -> Nat] \cup SUBSET Switches BY <1>1 DEF Known
<1>3. QED BY <1>2, NoneAssumption

\* A client that calls stands on one line, with what it knows.
LEMMA CallStands ==
  ASSUME IInv, Answering, NEW w \in Threads, NEW c \in Clients, NEW k \in Sound, Asks(c, k), asked[c] = None,
         NEW q \in Seq(Sound), Len(q) = 1, q[1] = k, Sends(w, q), held' = held,
         asked'[c] = [method |-> k.fn, known |-> Known(k.fn)]
  PROVE  Standing(c)' /\ Told(c)'
<1>1. /\ k.by = c /\ k.fn \in TokenMethods \cup {"Register", "Login"}
      /\ k.fn \in TokenMethods => k.key = held[c]
  BY DEF Asks, TokenMethods
<1>2. asked'[c] # None /\ asked'[c].method = k.fn /\ asked'[c].known = Known(k.fn)
  <2>1. k.fn \in Methods BY <1>1 DEF Methods
  <2>2. QED BY <2>1, Noted
<1>3. Lines(w, 0, q) /\ replies' = replies /\ UNCHANGED store BY DEF Sends
<1>4. PICK s \in Nat : s = Size(w) BY OnType
<1>5. /\ Size(w)' = s + 1
      /\ \A i \in 1 .. s : On(w, i)' = On(w, i)
      /\ \A i : i = s + 1 => On(w, i)' = k
  <2>1. /\ Size(w)' = Size(w) - 0 + Len(q)
        /\ \A i \in 1 .. Size(w) - 0 : On(w, i)' = On(w, i + 0)
        /\ \A j \in 1 .. Len(q) : \A i : i = Size(w) - 0 + j => On(w, i)' = q[j]
    BY <1>3 DEF Lines
  <2>2. s - 0 = s /\ \A i \in 1 .. s : i + 0 = i OBVIOUS
  <2>3. QED BY <1>4, <2>1, <2>2
<1>6. ASSUME NEW v \in Threads, NEW i \in 1 .. Size(v)', On(v, i)'.by = c PROVE v = w /\ i = s + 1 /\ On(v, i)' = k
  <2>1. CASE v # w
    <3>1. i \in 1 .. Size(v) /\ On(v, i)' = On(v, i) BY <1>3, <2>1 DEF Lines
    <3>2. QED BY <1>6, <3>1, NotWaiting
  <2>2. CASE v = w
    <3>1. i \in 1 .. s + 1 BY <1>5, <2>2
    <3>2. i \notin 1 .. s BY <1>4, <1>5, <1>6, <2>2, NotWaiting
    <3>3. i = s + 1 BY <3>1, <3>2
    <3>4. QED BY <1>5, <2>2, <3>3
  <2>3. QED BY <2>1, <2>2
<1>7. Apart(c)'
  <2>1. SUFFICES ASSUME NEW v \in Threads, NEW u \in Threads, NEW i \in 1 .. Size(v)', NEW j \in 1 .. Size(u)',
                        On(v, i)'.by = c, On(u, j)'.by = c
                 PROVE  v = u /\ i = j
    BY DEF Apart
  <2>2. v = w /\ i = s + 1 BY <1>6, <2>1
  <2>3. u = w /\ j = s + 1 BY <1>6, <2>1
  <2>4. QED BY <2>2, <2>3
<1>8. Fits(c)'
  <2>1. ASSUME NEW v \in Threads, NEW i \in 1 .. Size(v)', On(v, i)'.by = c PROVE Suits(c, On(v, i))'
    <3>1. On(v, i)' = k BY <1>6, <2>1
    <3>2. k.fn \notin {"ignore", "report", "HMSET", "HGETALL", "KEYS", "switch"} BY <1>1 DEF TokenMethods
    <3>3. QED BY <1>1, <1>2, <3>1, <3>2 DEF Suits
  <2>2. QED BY <2>1 DEF Fits
<1>9. Learned(c)'
  <2>1. ASSUME k.fn = "GetBaseInfo", NEW m \in Mobiles PROVE acked[m] \in Nat /\ acked[m] <= data[m]
    <3>1. IsFiniteSet(Waiting(m)) /\ acked[m] \in Nat /\ acked[m] + Cardinality(Waiting(m)) <= data[m]
      BY DEF Answering, Counted
    <3>2. PICK n \in Nat : n = Cardinality(Waiting(m)) BY <3>1, FS_CardinalityType
    <3>3. data[m] \in Nat BY DEF IInv, TypeOK
    <3>4. acked[m] + n <= data[m] BY <3>1, <3>2
    <3>5. QED BY <3>1, <3>3, <3>4
  <2>2. k.fn = "GetBaseInfo" => Known(k.fn) = acked BY DEF Known
  <2>3. k.fn = "GetSwitchInfo" => Known(k.fn) = {s2 \in Switches : status[s2] # None} BY DEF Known
  <2>4. data' = data /\ status' = status BY <1>3 DEF store
  <2>5. QED BY <1>2, <2>1, <2>2, <2>3, <2>4 DEF Learned
<1>10. Listing(c)'
  <2>1. k.fn # "switch" BY <1>1 DEF TokenMethods
  <2>2. ~ Seeking(c)' BY <1>6, <2>1 DEF Seeking, Seeks
  <2>3. QED BY <2>2 DEF Listing
<1>11. Told(c)' BY <1>3, NotWaiting DEF Told
<1>12. QED BY <1>7, <1>8, <1>9, <1>10, <1>11 DEF Standing

LEMMA MethodAnswers == ASSUME IInv, Answering, Queues', NEW c \in Clients, Method(c) PROVE Answering'
<1>1. PICK k \in Sound : \E refusal : Asks(c, k) /\ Call(c, k.fn, k, refusal) BY MethodSends
<1>2. PICK refusal : Asks(c, k) /\ Call(c, k.fn, k, refusal) BY <1>1
<1>3. asked[c] = None /\ UNCHANGED <<store, replies, held, acked>> BY <1>2 DEF Call
<1>4. PICK w \in Threads :
        \/ /\ commands' = [commands EXCEPT ![w] = Append(@, k)]
           /\ asked' = [asked EXCEPT ![c] = [method |-> k.fn, known |-> Known(k.fn)]]
           /\ answer' = [answer EXCEPT ![c] = Nothing]
        \/ answer' = [answer EXCEPT ![c] = refusal] /\ UNCHANGED <<commands, asked>>
  BY <1>2 DEF Call
<1>5. /\ asked = [d \in Clients |-> asked[d]] /\ answer = [d \in Clients |-> answer[d]]
      /\ acked = [m \in Mobiles |-> acked[m]]
  BY DEF Answering, Shape
<1>6. commands \in [Threads -> Seq(Sound)] /\ commands[w] \in Seq(Sound) BY DEF IInv
<1>7. CASE /\ commands' = [commands EXCEPT ![w] = Append(@, k)]
           /\ asked' = [asked EXCEPT ![c] = [method |-> k.fn, known |-> Known(k.fn)]]
           /\ answer' = [answer EXCEPT ![c] = Nothing]
  <2>1. PICK q : q = <<k>> OBVIOUS
  <2>2. q \in Seq(Sound) /\ Len(q) = 1 /\ q[1] = k BY <2>1
  <2>3. commands' = [commands EXCEPT ![w] = @ \o q]
    <3>1. Append(commands[w], k) = commands[w] \o q BY <1>6, <2>1
    <3>2. QED BY <1>6, <1>7, <3>1
  <2>4. Sends(w, q) BY <1>3, <2>2, <2>3, LineSent DEF Sends
  <2>5. asked'[c] = [method |-> k.fn, known |-> Known(k.fn)] BY <1>5, <1>7
  <2>6. Standing(c)' /\ Told(c)' BY <1>2, <1>3, <2>2, <2>4, <2>5, CallStands
  <2>7. asked' = [d \in Clients |-> asked'[d]] /\ answer' = [d \in Clients |-> answer'[d]]
        /\ \A d \in Clients : d # c => asked'[d] = asked[d] /\ answer'[d] = answer[d]
    BY <1>5, <1>7
  <2>8. Others(c) BY <1>3, <2>7 DEF Others
  <2>9. k.by = c /\ k.op # "SETEX" BY <1>2 DEF Asks
  <2>10. Proper(c, q) BY <2>2, <2>9 DEF Proper
  <2>11. Shape' BY <1>3, <1>5, <2>7 DEF Shape
  <2>12. acked' = acked BY <1>3
  <2>13. QED BY <2>2, <2>4, <2>6, <2>8, <2>10, <2>11, <2>12, SendsAnswers
<1>8. CASE answer' = [answer EXCEPT ![c] = refusal] /\ UNCHANGED <<commands, asked>>
  <2>1. PICK q : q = << >> OBVIOUS
  <2>2. q \in Seq(Sound) /\ Len(q) = 0 BY <2>1
  <2>3. commands' = [commands EXCEPT ![w] = @ \o q]
    <3>1. commands[w] \o << >> = commands[w] BY <1>6
    <3>2. commands' = [commands EXCEPT ![w] = @ \o << >>] BY <1>6, <1>8, <3>1
    <3>3. QED BY <2>1, <3>2
  <2>4. Sends(w, q) BY <1>3, <2>2, <2>3, LineSent DEF Sends
  <2>5. \A v \in Threads : Size(v)' = Size(v) /\ \A i : On(v, i)' = On(v, i) BY <1>3, <1>8 DEF Size, On
  <2>6. \A v \in Threads : \A i \in 1 .. Size(v)' : On(v, i)'.by # c BY <1>3, <2>5, NotWaiting
  <2>7. Learned(c)' BY <1>3, <1>8 DEF Learned
  <2>8. Standing(c)' /\ Told(c)' BY <2>6, <2>7, Ended
  <2>9. answer' = [d \in Clients |-> answer'[d]] /\ \A d \in Clients : d # c => answer'[d] = answer[d]
    BY <1>5, <1>8
  <2>10. Others(c) BY <1>3, <1>8, <2>9 DEF Others
  <2>11. Proper(c, q) BY <2>2 DEF Proper
  <2>12. Shape' BY <1>3, <1>5, <1>8, <2>9 DEF Shape
  <2>13. acked' = acked BY <1>3
  <2>14. QED BY <2>2, <2>4, <2>8, <2>10, <2>11, <2>12, <2>13, SendsAnswers
<1>9. QED BY <1>4, <1>7, <1>8

LEMMA ReportAnswers == ASSUME IInv, Answering, Report PROVE Answering'
<1>1. Gateway \in Threads /\ UNCHANGED <<store, replies, issued, clients, gateway>> BY ReportSends
<1>2. PICK q \in Seq(Sound) :
        /\ \A i \in 1 .. Len(q) : q[i].op = "EVAL" /\ q[i].by = None
        /\ commands' = [commands EXCEPT ![Gateway] = @ \o q]
  BY ReportSends
<1>3. UNCHANGED <<store, replies, asked, answer, held, acked>> BY <1>1 DEF clients
<1>4. Sends(Gateway, q) BY <1>1, <1>2, <1>3, LineSent DEF Sends
<1>5. PICK b : b = None OBVIOUS
<1>6. Others(b) /\ Proper(b, q) BY <1>2, <1>3, <1>5 DEF Others, Proper
<1>7. b \notin Clients BY <1>5, AccountsAssumption
<1>8. Shape' BY <1>3 DEF Shape, Answering
<1>9. acked' = acked BY <1>3
<1>10. QED BY <1>1, <1>4, <1>6, <1>7, <1>8, <1>9, SendsAnswers

\* A step that sends nothing and answers nobody.
LEMMA AsideAnswers ==
  ASSUME IInv, Answering, tokens' \subseteq tokens,
         UNCHANGED <<data, status, commands, replies, asked, answer, held, acked>>
  PROVE  Answering'
<1>1. \A v \in Threads : Size(v)' = Size(v) /\ \A i : On(v, i)' = On(v, i) BY DEF Size, On
<1>2. Grows BY GrowsUnlessSet
<1>3. ASSUME NEW c \in Clients PROVE Standing(c)' /\ Told(c)'
  <2>1. PICK d : d = [v \in Threads |-> 0] OBVIOUS
  <2>2. d \in [Threads -> {0, 1}] /\ Shifts(c, d) BY <1>1, <2>1, StillShifts
  <2>3. Standing(c) /\ Told(c) BY DEF Answering
  <2>4. Standing(c)' BY <1>2, <2>2, <2>3, StandingStays
  <2>5. Told(c)' BY <2>3, ToldStays
  <2>6. QED BY <2>4, <2>5
<1>4. Named' BY <1>1 DEF Answering, Named
<1>5. Counted' BY CountedStays DEF Answering
<1>6. Shape' BY DEF Answering, Shape
<1>7. QED BY <1>3, <1>4, <1>5, <1>6 DEF Answering

LEMMA NextAnswers == ASSUME IInv, Answering, Queues', [Next]_vars PROVE Answering'
<1>1. CASE \E c \in Clients : Method(c) BY <1>1, MethodAnswers
<1>2. CASE \E w \in Threads : Redis(w) \/ Thread(w) BY <1>2, RedisAnswers, ThreadAnswers
<1>3. CASE Report BY <1>3, ReportAnswers
<1>4. CASE Expire
  <2>1. tokens' \subseteq tokens BY <1>4 DEF Expire
  <2>2. UNCHANGED <<data, status, commands, replies, asked, answer, held, acked>>
    BY <1>4 DEF Expire, threads, clients
  <2>3. QED BY <2>1, <2>2, AsideAnswers
<1>5. CASE Obey \/ Press \/ UNCHANGED vars
  <2>1. UNCHANGED <<tokens, data, status, commands, replies, asked, answer, held, acked>>
    BY <1>5 DEF Obey, Press, vars, store, threads, clients
  <2>2. QED BY <2>1, AsideAnswers
<1>6. QED BY <1>1, <1>2, <1>3, <1>4, <1>5 DEF Next

LEMMA InitAnswers == Init => Answering
<1> SUFFICES ASSUME Init PROVE Answering
  OBVIOUS
<1>1. /\ \A c \in Clients : asked[c] = None
      /\ \A w \in Threads : commands[w] = << >> /\ replies[w] = << >>
      /\ tokens = {} /\ \A m \in Mobiles : data[m] = 0 /\ acked[m] = 0
  BY DEF Init
<1>2. \A w \in Threads : Size(w) = 0 /\ Len(replies[w]) = 0
  <2>1. Len(<< >>) = 0 OBVIOUS
  <2>2. \A w \in Threads : Len(replies[w]) = 0 /\ Len(commands[w]) = 0 BY <1>1, <2>1, Zenon
  <2>3. \A w \in Threads : Size(w) = Len(replies[w]) + Len(commands[w]) BY Zenon DEF Size, Length
  <2>4. ASSUME NEW w \in Threads PROVE Size(w) = 0
    <3>1. PICK a, b : a = Len(replies[w]) /\ b = Len(commands[w]) OBVIOUS
    <3>2. a = 0 /\ b = 0 /\ Size(w) = a + b BY <2>2, <2>3, <3>1, Zenon
    <3>3. QED BY <3>2
  <2>5. QED BY <2>2, <2>4
<1>3. \A c \in Clients : Apart(c) /\ Fits(c) BY <1>2 DEF Apart, Fits
<1>4. \A c \in Clients : Learned(c) BY <1>1 DEF Learned
<1>5. \A c \in Clients : Listing(c) /\ Told(c) BY <1>2 DEF Listing, Seeking, Told
<1>6. Named BY <1>1, <1>2 DEF Named
<1>7. Counted
  <2>1. ASSUME NEW m \in Mobiles
        PROVE  /\ IsFiniteSet(Waiting(m)) /\ acked[m] \in Nat
               /\ acked[m] + Cardinality(Waiting(m)) <= data[m]
    <3>1. Waiting(m) = {} BY <1>2 DEF Waiting
    <3>2. IsFiniteSet({}) /\ Cardinality({}) = 0 BY FS_EmptySet
    <3>3. QED BY <1>1, <3>1, <3>2
  <2>2. QED BY <2>1 DEF Counted
<1>8. Shape BY DEF Init, Shape
<1>9. QED BY <1>3, <1>4, <1>5, <1>6, <1>7, <1>8 DEF Answering, Standing

-----------------------------------------------------------------------------
(* The answer *)

\* What client c is told when it is answered.
Current(c) ==
  /\ asked[c].method = "GetBaseInfo" /\ answer'[c].code = "OK" =>
       answer'[c].about >= asked[c].known[held[c].mobile]
  /\ asked[c].method = "GetSwitchInfo" /\ answer'[c].code = "OK" /\ held[c].mobile = Default =>
       asked[c].known \subseteq answer'[c].about

\* A client is answered by the callback that nothing of it is left after.
LEMMA AnsweredBy ==
  ASSUME IInv, Answering, NEW w \in Threads, NEW fn, Runs(w, fn), NEW q \in Seq(Sound), NEW say, Callback(w, q, say),
         NEW c \in Clients, asked[c] # None, asked'[c] = None
  PROVE  /\ c = On(w, 1).by /\ replies[w] # << >> /\ On(w, 1) = Head(replies[w]).to /\ On(w, 1).fn = fn
         /\ answer'[c] = say /\ \A i \in 1 .. Size(w)' : On(w, i)'.by # c
         /\ Right(c, Head(replies[w])) /\ Suits(c, On(w, 1))
<1>1. replies[w] # << >> /\ Shape /\ Head(replies[w]).to.fn = fn BY DEF Answering, Runs
<1>2. On(w, 1) = Head(replies[w]).to /\ On(w, 1).fn = fn BY <1>1, HeadOn
<1>3. PICK b : b = On(w, 1).by OBVIOUS
<1>4. /\ Captured(b, w, q) <=> \E i \in 1 .. Size(w)' : On(w, i)'.by = b
      /\ \A d \in Clients : d # b => asked'[d] = asked[d] /\ answer'[d] = answer[d]
      /\ b \in Clients => answer'[b] = say /\ asked'[b] = IF Captured(b, w, q) THEN asked[b] ELSE None
  BY <1>1, <1>3, CallbackEffect
<1>5. c = b BY <1>4
<1>6. ~ Captured(b, w, q) BY <1>4, <1>5
<1>7. answer'[c] = say /\ \A i \in 1 .. Size(w)' : On(w, i)'.by # c BY <1>4, <1>5, <1>6
<1>8. Right(c, Head(replies[w])) /\ Suits(c, On(w, 1)) BY <1>1, <1>3, <1>5, CallerTold
<1>9. QED BY <1>1, <1>2, <1>3, <1>5, <1>7, <1>8

\* A callback with an answer that is no success, or of another method.
LEMMA OtherCurrent ==
  ASSUME IInv, Answering, NEW w \in Threads, NEW fn, Runs(w, fn), NEW q \in Seq(Sound), NEW say, Callback(w, q, say),
         NEW c \in Clients, asked[c] # None, asked'[c] = None,
         say.code # "OK" \/ fn \in {"Register", "Login", "LoginWithToken", "SetSwitchInfo", "HMSET"}
  PROVE  Current(c)
<1>1. On(w, 1).fn = fn /\ answer'[c] = say /\ Suits(c, On(w, 1)) BY AnsweredBy
<1>2. CASE say.code # "OK" BY <1>1, <1>2 DEF Current
<1>3. CASE fn \in {"Register", "Login", "LoginWithToken", "SetSwitchInfo", "HMSET"}
  <2>1. asked[c].method \notin {"GetBaseInfo", "GetSwitchInfo"} BY <1>1, <1>3 DEF Suits, TokenMethods
  <2>2. QED BY <2>1 DEF Current
<1>4. QED BY <1>2, <1>3

LEMMA NoCode == Nothing.code # "OK" /\ Say("LOGIN_ERR", None).code # "OK"
BY NoneAssumption DEF Nothing, Say

LEMMA HGETALLCurrent ==
  ASSUME IInv, Answering, NEW w \in Threads, HGETALLReply(w), NEW c \in Clients, asked[c] # None, asked'[c] = None
  PROVE  Current(c)
<1>1. PICK q, say : q = << >> /\ say = Say("OK", Head(replies[w]).ret) OBVIOUS
<1>2. q \in Seq(Sound) /\ Callback(w, q, say) /\ Runs(w, "HGETALL") BY <1>1 DEF HGETALLReply
<1>3. /\ On(w, 1) = Head(replies[w]).to /\ On(w, 1).fn = "HGETALL" /\ answer'[c] = say
      /\ Right(c, Head(replies[w])) /\ Suits(c, On(w, 1))
  BY <1>2, AnsweredBy
<1>4. PICK r : r = Head(replies[w]) OBVIOUS
<1>5. asked[c].method = "GetBaseInfo" /\ On(w, 1).key = held[c].mobile BY <1>3 DEF Suits
<1>6. r.ret \in Nat /\ asked[c].known[held[c].mobile] <= r.ret BY <1>3, <1>4, <1>5 DEF Right
<1>7. answer'[c].about = r.ret BY <1>1, <1>3, <1>4 DEF Say
<1>8. answer'[c].about >= asked[c].known[held[c].mobile] BY <1>6, <1>7
<1>9. QED BY <1>5, <1>8 DEF Current

LEMMA KEYSCurrent ==
  ASSUME IInv, Answering, NEW w \in Threads, KEYSReply(w), NEW c \in Clients, asked[c] # None, asked'[c] = None
  PROVE  Current(c)
<1>1. PICK names \in Seq(Switches), q \in Seq(Sound) :
        /\ names = Head(replies[w]).names
        /\ Callback(w, q, IF names = << >> THEN Say("OK", {}) ELSE Nothing)
  BY KEYSReplySends
<1>2. PICK say : say = IF names = << >> THEN Say("OK", {}) ELSE Nothing OBVIOUS
<1>3. Callback(w, q, say) /\ Runs(w, "KEYS") BY <1>1, <1>2 DEF KEYSReply
<1>4. /\ On(w, 1) = Head(replies[w]).to /\ On(w, 1).fn = "KEYS" /\ answer'[c] = say
      /\ Right(c, Head(replies[w])) /\ Suits(c, On(w, 1))
  BY <1>3, AnsweredBy
<1>5. asked[c].method = "GetSwitchInfo" /\ On(w, 1).key = held[c].mobile BY <1>4 DEF Suits
<1>6. CASE names = << >>
  <2>1. held[c].mobile = Default => asked[c].known = {}
    <3>1. SUFFICES ASSUME held[c].mobile = Default, NEW s \in asked[c].known PROVE FALSE
      OBVIOUS
    <3>2. \E i \in 1 .. Len(names) : names[i] = s BY <1>1, <1>4, <1>5, <3>1 DEF Right
    <3>3. Len(names) = 0 BY <1>6
    <3>4. QED BY <3>2, <3>3
  <2>2. QED BY <1>5, <2>1 DEF Current
<1>7. CASE names # << >> BY <1>2, <1>3, <1>7, NoCode, OtherCurrent
<1>8. QED BY <1>6, <1>7

LEMMA SwitchCurrent ==
  ASSUME IInv, Answering, NEW w \in Threads, SwitchReply(w), NEW c \in Clients, asked[c] # None, asked'[c] = None
  PROVE  Current(c)
<1>1. PICK say : Callback(w, << >>, say) BY SwitchCalls
<1>2. PICK q : q = << >> OBVIOUS
<1>3. q \in Seq(Sound) /\ Callback(w, q, say) /\ Runs(w, "switch") BY <1>1, <1>2 DEF SwitchReply
<1>4. /\ c = On(w, 1).by /\ On(w, 1).fn = "switch" /\ replies[w] # << >> /\ Suits(c, On(w, 1))
      /\ \A i \in 1 .. Size(w)' : On(w, i)'.by # c
  BY <1>3, AnsweredBy
<1>5. asked[c].method = "GetSwitchInfo" BY <1>4 DEF Suits
<1>6. ASSUME held[c].mobile = Default, NEW s \in asked[c].known PROVE s \in answer'[c].about
  <2>1. Sought(c, s)' \/ s \in answer'[c].about BY <1>4, <1>6, SwitchLists
  <2>2. SUFFICES ASSUME Sought(c, s)' PROVE FALSE
    BY <2>1
  <2>3. PICK v \in Threads : \E i \in 1 .. Size(v)' : Seeks(c, On(v, i)') BY <2>2 DEF Sought, Seeks
  <2>4. PICK i \in 1 .. Size(v)' : On(v, i)'.by = c BY <2>3 DEF Seeks
  <2>5. v = w
    <3>1. replies[w] # << >> /\ Shape BY <1>4 DEF Answering
    <3>2. Back(w, c, q) BY <1>3, <1>4, <3>1, CallbackEffect
    <3>3. Lines(w, 1, q) BY <3>2 DEF Back
    <3>4. Apart(c) BY DEF Answering, Standing
    <3>5. QED BY <1>3, <1>4, <2>4, <3>1, <3>3, <3>4, After
  <2>6. QED BY <1>4, <2>4, <2>5
<1>7. QED BY <1>5, <1>6 DEF Current

LEMMA ThreadCurrent ==
  ASSUME IInv, Answering, NEW w \in Threads, Thread(w), NEW c \in Clients, asked[c] # None, asked'[c] = None
  PROVE  Current(c)
<1>1. ASSUME NEW fn, Runs(w, fn), NEW say, Callback(w, << >>, say),
             say.code # "OK" \/ fn \in {"Register", "Login", "LoginWithToken", "SetSwitchInfo", "HMSET"}
      PROVE  Current(c)
  <2>1. PICK q : q = << >> OBVIOUS
  <2>2. q \in Seq(Sound) /\ Callback(w, q, say) BY <1>1, <2>1
  <2>3. QED BY <1>1, <2>2, OtherCurrent
<1>2. ASSUME NEW fn, Runs(w, fn), NEW k \in Sound, NEW say, Callback(w, <<k>>, say),
             say.code # "OK" \/ fn \in {"Register", "Login", "LoginWithToken", "SetSwitchInfo", "HMSET"}
      PROVE  Current(c)
  <2>1. PICK q : q = <<k>> OBVIOUS
  <2>2. q \in Seq(Sound) /\ Callback(w, q, say) BY <1>2, <2>1
  <2>3. QED BY <1>2, <2>2, OtherCurrent
<1>3. ASSUME NEW method \in TokenMethods, TokenReply(w, method), NEW op \in {"HMSET", "HGETALL", "KEYS"},
             Callback(w, <<Command(op, Mobile(w), None, op, Caller(w))>>, Nothing)
      PROVE  Current(c)
  <2>1. PICK k : k = Command(op, Mobile(w), None, op, Caller(w)) OBVIOUS
  <2>2. k \in Sound BY <1>3, <2>1, SecondSound
  <2>3. Callback(w, <<k>>, Nothing) BY <1>3, <2>1
  <2>4. Runs(w, method) BY <1>3 DEF TokenReply
  <2>5. QED BY <1>2, <2>2, <2>3, <2>4, NoCode
<1>4. ASSUME NEW fn \in {"Register", "Login"}, Runs(w, fn), MayWelcome(w), Welcome(w) PROVE Current(c)
  <2>1. PICK k \in Sound : Callback(w, <<k>>, Say("OK", None)) BY <1>4, WelcomeSends
  <2>2. QED BY <1>2, <1>4, <2>1
<1>5. CASE RegisterReply(w)
  <2>1. Runs(w, "Register") BY <1>5 DEF RegisterReply
  <2>2. QED BY <1>1, <1>4, <1>5, <2>1, RegisterOutcome
<1>6. CASE LoginReply(w)
  <2>1. Runs(w, "Login") BY <1>6 DEF LoginReply
  <2>2. QED BY <1>1, <1>4, <1>6, <2>1, LoginOutcome
<1>7. CASE TokenWrong(w)
  <2>1. PICK fn \in TokenMethods : Runs(w, fn) BY <1>7 DEF TokenWrong
  <2>2. Callback(w, << >>, Say("LOGIN_ERR", None)) BY <1>7 DEF TokenWrong
  <2>3. QED BY <1>1, <2>1, <2>2, NoCode
<1>8. CASE LoginWithTokenReply(w) BY <1>1, <1>8 DEF LoginWithTokenReply, TokenReply
<1>9. CASE UploadDataReply(w) BY <1>3, <1>9 DEF UploadDataReply, TokenMethods
<1>10. CASE HMSETReply(w) BY <1>1, <1>10 DEF HMSETReply
<1>11. CASE GetBaseInfoReply(w) BY <1>3, <1>11 DEF GetBaseInfoReply, TokenMethods
<1>12. CASE HGETALLReply(w) BY <1>12, HGETALLCurrent
<1>13. CASE ApplyForLoanReply(w) BY <1>1, <1>13, NoCode DEF ApplyForLoanReply, TokenReply
<1>14. CASE SetSwitchInfoReply(w)
  <2>1. PICK k \in Sound : Callback(w, <<k>>, Say("OK", None)) BY <1>14, SetSwitchInfoReplySends
  <2>2. Runs(w, "SetSwitchInfo") BY <1>14 DEF SetSwitchInfoReply, TokenReply
  <2>3. QED BY <1>2, <2>1, <2>2
<1>15. CASE GetSwitchInfoReply(w) BY <1>3, <1>15 DEF GetSwitchInfoReply, TokenMethods
<1>16. CASE KEYSReply(w) BY <1>16, KEYSCurrent
<1>17. CASE SwitchReply(w) BY <1>17, SwitchCurrent
<1>18. CASE IgnoredReply(w) \/ ReportReply(w) BY <1>18 DEF IgnoredReply, ReportReply, clients
<1>19. QED BY <1>5, <1>6, <1>7, <1>8, <1>9, <1>10, <1>11, <1>12, <1>13, <1>14, <1>15, <1>16, <1>17, <1>18
            DEF Thread

LEMMA NextCurrent ==
  ASSUME IInv, Answering, [Next]_vars, NEW c \in Clients, asked[c] # None, asked'[c] = None
  PROVE  Current(c)
<1>1. CASE \E d \in Clients : Method(d)
  <2>1. PICK d \in Clients : Method(d) BY <1>1
  <2>2. PICK k, refusal : Call(d, k.fn, k, refusal) BY <2>1, MethodSends
  <2>3. asked[d] = None /\ \E r : asked' \in {asked, [asked EXCEPT ![d] = r]} BY <2>2 DEF Call
  <2>4. d # c /\ asked = [e \in Clients |-> asked[e]] BY <2>3 DEF Answering, Shape
  <2>5. asked'[c] = asked[c] BY <2>3, <2>4
  <2>6. QED BY <2>5
<1>2. CASE \E w \in Threads : Redis(w)
  <2>1. PICK w \in Threads : Redis(w) BY <1>2
  <2>2. \E ret, names : ReplyArray(w, ret, names)
    BY <2>1 DEF Redis, HSETNX, HGET, SETEX, GET, HMSET, HGETALL, HSET, KEYS, EVAL, Reply
  <2>3. asked' = asked BY <2>2 DEF ReplyArray, clients
  <2>4. QED BY <2>3
<1>3. CASE \E w \in Threads : Thread(w) BY <1>3, ThreadCurrent
<1>4. CASE Expire \/ Report \/ Obey \/ Press \/ UNCHANGED vars
  BY <1>4 DEF Expire, Report, Obey, Press, vars, clients
<1>5. QED BY <1>1, <1>2, <1>3, <1>4 DEF Next

-----------------------------------------------------------------------------
(* The theorems *)

\* The invariant: every command and reply on its way is one that its client may send
\* and get, so that tokens, accounts and their data keep together.
THEOREM Invariance == Spec => []IInv
<1>1. Init => IInv BY InitHolds
<1>2. IInv /\ [Next]_vars => IInv'
  <2> SUFFICES ASSUME IInv, [Next]_vars PROVE IInv'
    OBVIOUS
  <2>1. CASE \E c \in Clients : Method(c) BY <2>1, MethodKeeps
  <2>2. CASE \E w \in Threads : Redis(w) \/ Thread(w) BY <2>2, RedisKeeps, ThreadKeeps
  <2>3. CASE Expire BY <2>3, ExpireKeeps
  <2>4. CASE Report BY <2>4, ReportKeeps
  <2>5. CASE Obey BY <2>5, ObeyKeeps
  <2>6. CASE Press BY <2>6, PressKeeps
  <2>7. CASE UNCHANGED vars BY <2>7, StutterKeeps
  <2>8. QED BY <2>1, <2>2, <2>3, <2>4, <2>5, <2>6, <2>7 DEF Next
<1>3. QED BY <1>1, <1>2, PTL DEF Spec

\* Who has been told that a registration succeeded keeps the account, however many
\* clients register the mobile at the same time, through however many threads.
THEOREM Registrations == Spec => []RegistrationsKept
<1>1. IInv => RegistrationsKept BY DEF IInv
<1>2. QED BY <1>1, Invariance, PTL

\* Tokens lead to their client's account only, and nobody else's commands reach its data.
THEOREM OwnData == Spec => []OwnDataOnly
<1>1. IInv => OwnDataOnly BY DEF IInv
<1>2. QED BY <1>1, Invariance, PTL

\* A token that a client holds is stored, over, or on its way, and is refused only if it
\* is over or on its way through another thread's connection.
THEOREM TokensReach == Spec => []TokensArrive
<1>1. Init => TokensAwaited BY InitAwaited
<1>2. IInv /\ TokensAwaited /\ [Next]_vars => TokensAwaited' BY NextAwaited
<1>3. IInv /\ TokensAwaited => TokensArrive
  <2> SUFFICES ASSUME IInv, TokensAwaited, NEW c \in Clients, held[c] # None
               PROVE  LET t == held[c]
                          kept == t \in expired \/ \E e \in tokens : e.token = t IN
                      /\ kept \/ \E w \in Threads : OnItsWay(t, w, Len(commands[w]))
                      /\ \A w \in Threads : \A i \in DOMAIN commands[w] :
                           commands[w][i].op = "GET" /\ commands[w][i].key = t =>
                             \/ kept
                             \/ OnItsWay(t, w, i - 1)
                             \/ \E v \in Threads \ {w} : OnItsWay(t, v, Len(commands[v]))
    BY DEF TokensArrive
  <2>1. Arrives(commands, Kept(held[c]), held[c]) BY DEF TokensAwaited, Awaited
  <2>2. \A t, w, n : OnItsWay(t, w, n) <=> Sets(commands[w], t, n) BY DEF OnItsWay, Sets
  <2>3. \A w \in Threads : DOMAIN commands[w] = 1 .. Len(commands[w]) BY DEF IInv
  <2>4. QED BY <2>1, <2>2, <2>3 DEF Arrives, Gets, Kept
<1>4. QED BY <1>1, <1>2, <1>3, Invariance, PTL DEF Spec

\* A client is told of everything that had been answered, or reported, before it asked,
\* whichever threads deal with its request, and for any number of clients.
THEOREM UpToDate == Spec => AnswersCurrent
<1>1. Init => Answering BY InitAnswers
<1>2. IInv /\ IInv' /\ Answering /\ [Next]_vars => Answering'
  <2> SUFFICES ASSUME IInv, IInv', Answering, [Next]_vars PROVE Answering'
    OBVIOUS
  <2>1. Queues' BY DEF IInv, Queues
  <2>2. QED BY <2>1, NextAnswers
<1>3. IInv /\ Answering /\ [Next]_vars =>
        [\A c \in Clients :
           asked[c] # None /\ asked'[c] = None =>
             /\ asked[c].method = "GetBaseInfo" /\ answer'[c].code = "OK" =>
                  answer'[c].about >= asked[c].known[held[c].mobile]
             /\ asked[c].method = "GetSwitchInfo" /\ answer'[c].code = "OK" /\ held[c].mobile = Default =>
                  asked[c].known \subseteq answer'[c].about]_vars
  BY NextCurrent DEF Current
<1>4. QED BY <1>1, <1>2, <1>3, Invariance, PTL DEF Spec, AnswersCurrent

=============================================================================
