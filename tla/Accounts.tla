------------------------------ MODULE Accounts ------------------------------
(***************************************************************************)
(* AccessService (authorize/auth_service.cpp), CustomerService             *)
(* (business/customer_service.cpp), SmartService (business/                *)
(* smart_service.cpp) and redis_process: the methods of the program. Each  *)
(* is a chain of callbacks, one per reply of Redis, run by the thread that *)
(* called it; the threads, of one or several processes, share nothing but  *)
(* the one Redis, which each of them reaches through its own connection.   *)
(*                                                                         *)
(* A client is answered when the last callback that captures its Control   *)
(* has gone. A connection of RedisProxy is two queues here, commands and   *)
(* replies, as RedisProxy!RepliesMatch allows while no command is refused. *)
(* A client has one password, its own, and passwords are named by the      *)
(* client; a token is the record of what its md5 is made from.             *)
(***************************************************************************)
EXTENDS Integers, Sequences, FiniteSets

CONSTANTS
  Clients,
  Threads,  \* threads that call methods, each with a connection to Redis
  Gateway,  \* the thread with the gateway's connection, or None
  Mobiles,
  Default,  \* the mobile whose switches the gateway controls
  Switches,
  Statuses, \* of a switch: on and off
  MaxCalls, \* calls of clients, and of hands on switches (a bound on the load)
  MaxExpired, \* tokens whose time ends (a bound)
  Done,     \* the replies 1 and OK
  None

ASSUME AccountsAssumption ==
  /\ Gateway \in Threads \cup {None} /\ Default \in Mobiles /\ Statuses # {}
  /\ IsFiniteSet(Switches) /\ {MaxCalls, MaxExpired} \subseteq Nat
  /\ Done # None /\ {Done, None} \cap Nat = {}
  /\ {Done, None} \cap (Clients \cup Threads \cup Mobiles \cup Switches \cup Statuses) = {}

VARIABLES
  \* Redis
  password, \* of each mobile, or None
  data,     \* how often UploadData has set fields of a mobile
  tokens,   \* the TOKEN_ keys and the mobiles they name
  request,  \* request_status of each name, or None
  status,   \* status of each switch, or None
  \* the threads
  up,       \* threads that have a connection
  commands, \* sent by a thread and not yet executed
  replies,  \* not yet passed to their callbacks
  issued,   \* tokens generated
  \* the clients
  calls,    \* calls made
  asked,    \* the method a client waits for, with what had been answered before
  answer,   \* the client's shared_json; what it has been answered, when it waits no more
  held,     \* the token a client has been given last
  won,      \* mobiles a client has been told that it has registered
  acked,    \* how often a client has been told that its data are stored, per mobile
  expired,  \* tokens Redis has dropped after their time (history)
  \* the gateway
  actual,   \* the switches
  orders    \* on their way to the gateway

store   == <<password, data, tokens, request, status, expired>>
threads == <<up, commands, replies, issued>>
clients == <<calls, asked, answer, held, won, acked>>
gateway == <<actual, orders>>
vars    == <<store, threads, clients, gateway>>

-----------------------------------------------------------------------------
(* Tokens, commands and answers *)

\* generate_token: the md5 of mobile, password and time.
Token(m, c, n) == [mobile |-> m, password |-> c, at |-> n]

\* A command, the function that gets its reply, and the Control this captures.
Command(op, key, val, fn, by) == [op |-> op, key |-> key, val |-> val, fn |-> fn, by |-> by]

\* What a method tells its client. A reply nobody has filled in has no code.
Say(code, about) == [code |-> code, about |-> about]
Nothing == Say(None, None)

\* The methods that look up a token first, and all of them.
TokenMethods ==
  {"LoginWithToken", "UploadData", "GetBaseInfo", "ApplyForLoan", "SetSwitchInfo", "GetSwitchInfo"}

Methods == {"Register", "Login"} \cup TokenMethods

\* None is not the code of an answer, nor what is noted of a client that waits.
ASSUME NoneAssumption ==
  /\ None # "OK"
  /\ None \notin [method : Methods, known : {None} \cup [Mobiles -> Nat] \cup SUBSET Switches]

\* The hashes SetSwitchInfo may write to: its client names them, and nothing checks that
\* the name is that of a switch. An account's hash has the name of the mobile.
Names == Switches \cup Mobiles

\* The elements of S, each once.
Arrangements(S) == {q \in [1 .. Cardinality(S) -> S] : \A i, j \in 1 .. Cardinality(S) : q[i] = q[j] => i = j}

\* What a client may rely on when it asks: the data it knows to be stored, or the
\* switches that have been reported.
Known(method) ==
  CASE method = "GetBaseInfo"   -> acked
    [] method = "GetSwitchInfo" -> {s \in Switches : status[s] # None}
    [] OTHER                    -> None

Init ==
  /\ password = [m \in Mobiles |-> None] /\ data = [m \in Mobiles |-> 0]
  /\ tokens = {} /\ expired = {}
  /\ request = [n \in Names |-> None] /\ status = [s \in Switches |-> None]
  /\ up = {} /\ issued = 0
  /\ commands = [w \in Threads |-> << >>] /\ replies = [w \in Threads |-> << >>]
  /\ calls = 0 /\ asked = [c \in Clients |-> None] /\ answer = [c \in Clients |-> Nothing]
  /\ held = [c \in Clients |-> None] /\ won = [c \in Clients |-> {}]
  /\ acked = [m \in Mobiles |-> 0]
  /\ actual = [s \in Switches |-> CHOOSE v \in Statuses : TRUE] /\ orders = << >>

-----------------------------------------------------------------------------
(* A method is called *)

\* Client c calls a method that some thread w runs, which sends command k first. A
\* thread has no connection when connecting fails at once, which it tries with each
\* call until it succeeds: Register and Login then say so, the other methods drop
\* the Control with the callback and leave the answer empty.
Call(c, method, k, refusal) ==
  /\ asked[c] = None /\ calls < MaxCalls
  /\ calls' = calls + 1
  /\ \E w \in Threads :
       \/ /\ up' = up \cup {w}
          /\ commands' = [commands EXCEPT ![w] = Append(@, k)]
          /\ asked' = [asked EXCEPT ![c] = [method |-> method, known |-> Known(method)]]
          /\ answer' = [answer EXCEPT ![c] = Nothing]
       \/ /\ w \notin up
          /\ answer' = [answer EXCEPT ![c] = refusal]
          /\ UNCHANGED <<up, commands, asked>>
  /\ UNCHANGED <<store, replies, issued, held, won, acked, gateway>>

Register(c, m) == Call(c, "Register", Command("HSETNX", m, c, "Register", c), Say("SYSTEM_ERROR", None))
Login(c, m)    == Call(c, "Login", Command("HGET", m, c, "Login", c), Say("SYSTEM_ERROR", None))

\* get_mobile_by_token: all other methods look their token up first.
CallWithToken(c, method, val) ==
  /\ held[c] # None
  /\ Call(c, method, Command("GET", held[c], val, method, c), Nothing)

LoginWithToken(c) == CallWithToken(c, "LoginWithToken", None)
UploadData(c)     == CallWithToken(c, "UploadData", None)
GetBaseInfo(c)    == CallWithToken(c, "GetBaseInfo", None)
ApplyForLoan(c)   == CallWithToken(c, "ApplyForLoan", None)
GetSwitchInfo(c)  == CallWithToken(c, "GetSwitchInfo", None)
SetSwitchInfo(c)  == \E n \in Names, v \in Statuses : CallWithToken(c, "SetSwitchInfo", <<n, v>>)

-----------------------------------------------------------------------------
(* Redis executes the commands of a connection in turn *)

Executes(w, op) == commands[w] # << >> /\ Head(commands[w]).op = op

\* The reply is a value, or an array of names.
ReplyArray(w, ret, names) ==
  /\ commands' = [commands EXCEPT ![w] = Tail(@)]
  /\ replies' = [replies EXCEPT ![w] = Append(@, [to |-> Head(commands[w]), ret |-> ret, names |-> names])]
  /\ UNCHANGED <<up, issued, clients, gateway>>

Reply(w, ret) == ReplyArray(w, ret, << >>)

HSETNX(w) ==
  /\ Executes(w, "HSETNX")
  /\ LET k == Head(commands[w]) IN
       /\ Reply(w, IF password[k.key] = None THEN Done ELSE None)
       /\ password' = [password EXCEPT ![k.key] = IF @ = None THEN k.val ELSE @]
  /\ UNCHANGED <<data, tokens, request, status, expired>>

HGET(w) ==
  /\ Executes(w, "HGET")
  /\ LET k == Head(commands[w]) IN
       Reply(w, IF k.fn = "Login" THEN password[k.key] ELSE status[k.key])
  /\ UNCHANGED store

SETEX(w) ==
  /\ Executes(w, "SETEX")
  /\ LET k == Head(commands[w]) IN
       /\ Reply(w, Done)
       /\ tokens' = tokens \cup {[token |-> k.key, mobile |-> k.val]}
  /\ UNCHANGED <<password, data, request, status, expired>>

GET(w) ==
  /\ Executes(w, "GET")
  /\ LET found == {e \in tokens : e.token = Head(commands[w]).key} IN
       \/ found = {} /\ Reply(w, None)
       \/ \E e \in found : Reply(w, e.mobile)
  /\ UNCHANGED store

HMSET(w) ==
  /\ Executes(w, "HMSET")
  /\ LET k == Head(commands[w]) IN
       /\ Reply(w, Done)
       /\ data' = [data EXCEPT ![k.key] = @ + 1]
  /\ UNCHANGED <<password, tokens, request, status, expired>>

\* The fields of UploadData; a request_status is read with them.
HGETALL(w) ==
  /\ Executes(w, "HGETALL")
  /\ Reply(w, data[Head(commands[w]).key])
  /\ UNCHANGED store

HSET(w) ==
  /\ Executes(w, "HSET")
  /\ LET k == Head(commands[w]) IN
       /\ Reply(w, Done)
       /\ request' = [request EXCEPT ![k.key] = k.val]
  /\ UNCHANGED <<password, data, tokens, status, expired>>

\* The names that begin with the mobile and "_switch_", in any order.
KEYS(w) ==
  /\ Executes(w, "KEYS")
  /\ LET found == {s \in Switches : request[s] # None \/ status[s] # None}
         mine  == IF Head(commands[w]).key = Default THEN found ELSE {} IN
     \E names \in Arrangements(mine) : ReplyArray(w, Done, names)
  /\ UNCHANGED store

\* Defect: an order is given only when the status has changed.
EVAL_changes(w) ==
  /\ Executes(w, "EVAL")
  /\ LET k == Head(commands[w]) IN
       /\ Reply(w, IF request[k.key] \in {None, k.val} \/ status[k.key] = k.val THEN None ELSE request[k.key])
       /\ status' = [status EXCEPT ![k.key] = k.val]
  /\ UNCHANGED <<password, data, tokens, request, expired>>

\* The script of SmartService::parse.
EVAL(w) ==
  /\ Executes(w, "EVAL")
  /\ LET k == Head(commands[w]) IN
       /\ Reply(w, IF request[k.key] \in {None, k.val} THEN None ELSE request[k.key])
       /\ status' = [status EXCEPT ![k.key] = k.val]
  /\ UNCHANGED <<password, data, tokens, request, expired>>

\* A token's 3600 seconds are over.
Expire ==
  /\ Cardinality(expired) < MaxExpired
  /\ \E e \in tokens : tokens' = tokens \ {e} /\ expired' = expired \cup {e.token}
  /\ UNCHANGED <<password, data, request, status, threads, clients, gateway>>

Redis(w) ==
  \/ HSETNX(w) \/ HGET(w) \/ SETEX(w) \/ GET(w) \/ HMSET(w) \/ HGETALL(w)
  \/ HSET(w) \/ KEYS(w) \/ EVAL(w)

-----------------------------------------------------------------------------
(* The callbacks of the methods: a thread takes the next reply *)

\* Defect: the callback that runs is counted, too.
CapturedByRunning(c, w, cmds) ==
  \/ \E i \in 1 .. Len(replies[w]) : replies[w][i].to.by = c
  \/ \E i \in DOMAIN commands[w] : commands[w][i].by = c
  \/ \E i \in DOMAIN cmds : cmds[i].by = c

\* Whether a callback other than the one that runs captures the Control of client c.
Captured(c, w, cmds) ==
  \/ \E i \in 2 .. Len(replies[w]) : replies[w][i].to.by = c
  \/ \E i \in DOMAIN commands[w] : commands[w][i].by = c
  \/ \E i \in DOMAIN cmds : cmds[i].by = c

\* The function that runs is fn; it sends further commands. Control::~Control answers
\* client c when no callback captures it any more.
Runs(w, fn) == replies[w] # << >> /\ Head(replies[w]).to.fn = fn

Callback(w, cmds, say) ==
  LET c == Head(replies[w]).to.by IN
  /\ replies' = [replies EXCEPT ![w] = Tail(@)]
  /\ commands' = [commands EXCEPT ![w] = @ \o cmds]
  /\ answer' = [answer EXCEPT ![c] = say]
  /\ asked' = IF Captured(c, w, cmds) THEN asked ELSE [asked EXCEPT ![c] = None]
  /\ UNCHANGED <<store, up, calls, gateway>>

\* Defect: the token is stored under the mobile's name, as refresh_token has it.
WelcomeByMobile(w) ==
  LET k == Head(replies[w]).to
      t == Token(k.key, k.val, issued + 1) IN
  /\ issued' = issued + 1
  /\ held' = [held EXCEPT ![k.by] = t]
  /\ Callback(w, <<Command("SETEX", Token(k.key, None, 0), k.key, "ignore", None)>>, Say("OK", None))

\* generate_token: the token is given to the client and, without waiting, to Redis.
Welcome(w) ==
  LET k == Head(replies[w]).to
      t == Token(k.key, k.val, issued + 1) IN
  /\ issued' = issued + 1
  /\ held' = [held EXCEPT ![k.by] = t]
  /\ Callback(w, <<Command("SETEX", t, k.key, "ignore", None)>>, Say("OK", None))

\* Defect: any reply but an error is taken for success.
RegisterReplyAny(w) ==
  /\ Runs(w, "Register")
  /\ LET r == Head(replies[w]) IN
       Welcome(w) /\ won' = [won EXCEPT ![r.to.by] = @ \cup {r.to.key}]
  /\ UNCHANGED acked

RegisterReply(w) ==
  /\ Runs(w, "Register")
  /\ LET r == Head(replies[w]) IN
       \/ r.ret = Done /\ Welcome(w) /\ won' = [won EXCEPT ![r.to.by] = @ \cup {r.to.key}]
       \/ r.ret # Done /\ Callback(w, << >>, Say("REGISTERED", None)) /\ UNCHANGED <<issued, held, won>>
  /\ UNCHANGED acked

\* Defect: any account that exists is logged into.
LoginAny(w) ==
  /\ Runs(w, "Login")
  /\ LET r == Head(replies[w]) IN
       \/ r.ret # None /\ Welcome(w)
       \/ r.ret = None /\ Callback(w, << >>, Say("LOGIN_ERR", None)) /\ UNCHANGED <<issued, held>>
  /\ UNCHANGED <<won, acked>>

LoginReply(w) ==
  /\ Runs(w, "Login")
  /\ LET r == Head(replies[w]) IN
       \/ r.ret = r.to.val /\ Welcome(w)
       \/ r.ret # r.to.val /\ Callback(w, << >>, Say("LOGIN_ERR", None)) /\ UNCHANGED <<issued, held>>
  /\ UNCHANGED <<won, acked>>

\* The reply to get_mobile_by_token, in a method that has looked up its token.
TokenReply(w, method) ==
  /\ Runs(w, method) /\ Head(replies[w]).ret # None
  /\ UNCHANGED <<issued, held, won, acked>>

Mobile(w) == Head(replies[w]).ret
Caller(w) == Head(replies[w]).to.by

TokenWrong(w) ==
  /\ \E method \in TokenMethods : Runs(w, method)
  /\ Head(replies[w]).ret = None
  /\ Callback(w, << >>, Say("LOGIN_ERR", None))
  /\ UNCHANGED <<issued, held, won, acked>>

LoginWithTokenReply(w) ==
  TokenReply(w, "LoginWithToken") /\ Callback(w, << >>, Say("OK", Mobile(w)))

\* Defect: the answer does not wait for HMSET.
UploadDataAtOnce(w) ==
  /\ Runs(w, "UploadData") /\ Head(replies[w]).ret # None
  /\ Callback(w, <<Command("HMSET", Mobile(w), None, "ignore", None)>>, Say("OK", None))
  /\ acked' = [acked EXCEPT ![Mobile(w)] = @ + 1]
  /\ UNCHANGED <<issued, held, won>>

UploadDataReply(w) ==
  /\ TokenReply(w, "UploadData")
  /\ Callback(w, <<Command("HMSET", Mobile(w), None, "HMSET", Caller(w))>>, Nothing)

HMSETReply(w) ==
  /\ Runs(w, "HMSET")
  /\ Callback(w, << >>, Say("OK", None))
  /\ acked' = [acked EXCEPT ![Head(replies[w]).to.key] = @ + 1]
  /\ UNCHANGED <<issued, held, won>>

GetBaseInfoReply(w) ==
  /\ TokenReply(w, "GetBaseInfo")
  /\ Callback(w, <<Command("HGETALL", Mobile(w), None, "HGETALL", Caller(w))>>, Nothing)

HGETALLReply(w) ==
  /\ Runs(w, "HGETALL")
  /\ Callback(w, << >>, Say("OK", Head(replies[w]).ret))
  /\ UNCHANGED <<issued, held, won, acked>>

\* The command is empty, so send_request drops the callback: nobody fills in the answer.
ApplyForLoanReply(w) ==
  TokenReply(w, "ApplyForLoan") /\ Callback(w, << >>, Nothing)

\* The answer does not wait for HSET, whose callback captures no Control.
SetSwitchInfoReply(w) ==
  /\ TokenReply(w, "SetSwitchInfo")
  /\ LET change == Head(replies[w]).to.val IN
       Callback(w, <<Command("HSET", change[1], change[2], "ignore", None)>>, Say("OK", None))

GetSwitchInfoReply(w) ==
  /\ TokenReply(w, "GetSwitchInfo")
  /\ Callback(w, <<Command("KEYS", Mobile(w), None, "KEYS", Caller(w))>>, Nothing)

\* An HGET for each name.
KEYSReply(w) ==
  /\ Runs(w, "KEYS")
  /\ LET names == Head(replies[w]).names IN
       Callback(w, [i \in DOMAIN names |-> Command("HGET", names[i], None, "switch", Caller(w))],
                IF names = << >> THEN Say("OK", {}) ELSE Nothing)
  /\ UNCHANGED <<issued, held, won, acked>>

\* Switches without a status are left out; without any the answer stays empty.
SwitchReply(w) ==
  /\ Runs(w, "switch")
  /\ LET r == Head(replies[w])
         listed == IF answer[r.to.by] = Nothing THEN {} ELSE answer[r.to.by].about IN
       Callback(w, << >>, IF r.ret = None THEN answer[r.to.by] ELSE Say("OK", listed \cup {r.to.key}))
  /\ UNCHANGED <<issued, held, won, acked>>

\* The functions of SETEX and HSET do nothing.
IgnoredReply(w) ==
  /\ Runs(w, "ignore")
  /\ replies' = [replies EXCEPT ![w] = Tail(@)]
  /\ UNCHANGED <<store, up, commands, issued, clients, gateway>>

-----------------------------------------------------------------------------
(* The gateway *)

\* SmartService::parse. The gateway reports all its switches, again and again; here
\* not before the last report has been dealt with, and what it has been told obeyed.
Report ==
  /\ Gateway # None /\ orders = << >>
  /\ \A k \in DOMAIN commands[Gateway] : commands[Gateway][k].op # "EVAL"
  /\ \A k \in DOMAIN replies[Gateway] : replies[Gateway][k].to.op # "EVAL"
  /\ up' = up \cup {Gateway}
  /\ \E names \in Arrangements(Switches) :
       commands' = [commands EXCEPT ![Gateway] = @ \o
         [i \in DOMAIN names |-> Command("EVAL", names[i], actual[names[i]], "report", None)]]
  /\ UNCHANGED <<store, replies, issued, clients, gateway>>

ReportReply(w) ==
  /\ Runs(w, "report")
  /\ replies' = [replies EXCEPT ![w] = Tail(@)]
  /\ LET r == Head(replies[w]) IN
       orders' = IF r.ret = None THEN orders ELSE Append(orders, <<r.to.key, r.ret>>)
  /\ UNCHANGED <<store, up, commands, issued, clients, actual>>

Obey ==
  /\ orders # << >>
  /\ actual' = [actual EXCEPT ![Head(orders)[1]] = Head(orders)[2]]
  /\ orders' = Tail(orders)
  /\ UNCHANGED <<store, threads, clients>>

\* Somebody presses the switch itself.
Press ==
  /\ Gateway # None /\ calls < MaxCalls
  /\ calls' = calls + 1
  /\ \E s \in Switches, v \in Statuses : v # actual[s] /\ actual' = [actual EXCEPT ![s] = v]
  /\ UNCHANGED <<store, threads, asked, answer, held, won, acked, orders>>

-----------------------------------------------------------------------------
Method(c) ==
  \/ \E m \in Mobiles : Register(c, m) \/ Login(c, m)
  \/ LoginWithToken(c) \/ UploadData(c) \/ GetBaseInfo(c) \/ ApplyForLoan(c)
  \/ SetSwitchInfo(c) \/ GetSwitchInfo(c)

Thread(w) ==
  \/ RegisterReply(w) \/ LoginReply(w) \/ TokenWrong(w) \/ LoginWithTokenReply(w)
  \/ UploadDataReply(w) \/ HMSETReply(w) \/ GetBaseInfoReply(w) \/ HGETALLReply(w)
  \/ ApplyForLoanReply(w) \/ SetSwitchInfoReply(w) \/ GetSwitchInfoReply(w)
  \/ KEYSReply(w) \/ SwitchReply(w) \/ IgnoredReply(w) \/ ReportReply(w)

Next ==
  \/ \E c \in Clients : Method(c)
  \/ \E w \in Threads : Redis(w) \/ Thread(w)
  \/ Expire \/ Report \/ Obey \/ Press

Spec == Init /\ [][Next]_vars

\* Redis and the threads go on; the gateway reports and obeys.
FairSpec ==
  /\ Spec /\ WF_vars(Report) /\ WF_vars(Obey)
  /\ \A w \in Threads : WF_vars(Redis(w)) /\ WF_vars(Thread(w))

-----------------------------------------------------------------------------
Tokens == [mobile : Mobiles, password : Clients, at : Nat]

Ops == {"HSETNX", "HGET", "SETEX", "GET", "HMSET", "HGETALL", "HSET", "KEYS", "EVAL"}

Functions == TokenMethods \cup {"Register", "Login", "HMSET", "HGETALL", "KEYS", "switch", "ignore", "report"}

\* The commands of the methods.
Formed ==
  {k \in [op : Ops, key : Mobiles \cup Switches \cup Tokens, fn : Functions, by : Clients \cup {None},
          val : Clients \cup Mobiles \cup {None} \cup Statuses \cup (Names \X Statuses)] :
     /\ k.op \in {"HSETNX", "HMSET", "HGETALL", "KEYS"} => k.key \in Mobiles /\ k.by \in Clients
     /\ k.op = "HSETNX" => k.fn = "Register" /\ k.val = k.by
     /\ k.op \in {"HMSET", "HGETALL", "KEYS"} => k.fn = k.op
     /\ k.op = "HGET" => /\ k.by \in Clients
                         /\ \/ k.fn = "Login" /\ k.key \in Mobiles /\ k.val = k.by
                            \/ k.fn = "switch" /\ k.key \in Switches
     /\ k.op = "SETEX" => k.fn = "ignore" /\ k.by = None /\ k.key \in Tokens /\ k.val \in Mobiles
     /\ k.op = "GET" => /\ k.key \in Tokens /\ k.key.password = k.by
                        /\ k.fn \in TokenMethods
                        /\ k.fn = "SetSwitchInfo" => k.val \in Names \X Statuses
     /\ k.op = "HSET" => k.fn = "ignore" /\ k.key \in Names /\ k.val \in Statuses
     /\ k.op = "EVAL" => k.fn = "report" /\ k.key \in Switches /\ k.val \in Statuses}

\* Those that may be on their way: commands about an account's data come from the
\* client whose password the account has, and so does the token that leads to it.
Sound ==
  {k \in Formed :
     /\ k.op \in {"HMSET", "HGETALL"} => password[k.key] = k.by
     /\ k.op = "SETEX" => password[k.val] = k.key.password}

\* The replies that may wait: who has been given an account, or found a mobile with a
\* token, has the account's password.
SoundReplies ==
  {r \in [to : Sound, ret : Clients \cup Mobiles \cup {None, Done} \cup Statuses \cup Nat,
          names : Seq(Switches)] :
     /\ r.to.op = "HSETNX" /\ r.ret = Done => password[r.to.key] = r.to.by
     /\ r.to.fn = "Login" /\ r.ret = r.to.by => password[r.to.key] = r.to.by
     /\ r.to.op = "GET" /\ r.ret # None => r.ret \in Mobiles /\ password[r.ret] = r.to.by
     /\ r.to.op = "EVAL" /\ r.ret # None => r.ret \in Statuses}

-----------------------------------------------------------------------------
\* Who has been told that a registration succeeded keeps the account, whoever else
\* registers the same mobile at the same time (HSETNX in Register).
RegistrationsKept == \A c \in Clients : \A m \in won[c] : password[m] = c

\* A token leads to an account of the client it was given to, and what UploadData stores
\* of an account is written and read for nobody else (generate_token,
\* get_mobile_by_token). That is all a token decides: SetSwitchInfo sets request_status
\* in the hash the client names, and this may be another account's.
OwnDataOnly ==
  /\ \A e \in tokens : password[e.mobile] = e.token.password
  /\ \A w \in Threads :
       /\ \A i \in DOMAIN commands[w] :
            commands[w][i].op \in {"HMSET", "HGETALL"} => password[commands[w][i].key] = commands[w][i].by
       /\ \A i \in DOMAIN replies[w] :
            replies[w][i].to.op = "HGETALL" => password[replies[w][i].to.key] = replies[w][i].to.by

TypeOK ==
  /\ password \in [Mobiles -> Clients \cup {None}] /\ data \in [Mobiles -> Nat]
  /\ tokens \subseteq [token : Tokens, mobile : Mobiles] /\ issued \in Nat
  /\ request \in [Names -> Statuses \cup {None}] /\ status \in [Switches -> Statuses \cup {None}]
  /\ actual \in [Switches -> Statuses] /\ orders \in Seq(Switches \X Statuses)
  /\ held \in [Clients -> Tokens \cup {None}] /\ won \in [Clients -> SUBSET Mobiles]

IInv ==
  /\ TypeOK
  /\ commands \in [Threads -> Seq(Sound)] /\ replies \in [Threads -> Seq(SoundReplies)]
  /\ \A c \in Clients : held[c] # None => held[c].password = c
  /\ RegistrationsKept /\ OwnDataOnly

\* Where the SETEX of token t is on its way.
OnItsWay(t, w, n) == \E i \in 1 .. n : commands[w][i].op = "SETEX" /\ commands[w][i].key = t

\* A token that a client holds is stored, over, or on its way; and it is refused only
\* if it is over or another thread's connection has not delivered it yet: the threads'
\* connections are not ordered, and Login does not wait for SETEX.
TokensArrive ==
  \A c \in Clients : held[c] # None =>
    LET t == held[c]
        kept == t \in expired \/ \E e \in tokens : e.token = t IN
    /\ kept \/ \E w \in Threads : OnItsWay(t, w, Len(commands[w]))
    /\ \A w \in Threads : \A i \in DOMAIN commands[w] :
         commands[w][i].op = "GET" /\ commands[w][i].key = t =>
           \/ kept
           \/ OnItsWay(t, w, i - 1)
           \/ \E v \in Threads \ {w} : OnItsWay(t, v, Len(commands[v]))

\* An answer is up to date with everything that had been answered, or reported, before
\* its request was made, whichever threads have dealt with it (UploadData waits for
\* HMSET; GetSwitchInfo asks for every switch, and its Control waits for all of them).
AnswersCurrent ==
  [][\A c \in Clients :
       asked[c] # None /\ asked'[c] = None =>
         /\ asked[c].method = "GetBaseInfo" /\ answer'[c].code = "OK" =>
              answer'[c].about >= asked[c].known[held[c].mobile]
         /\ asked[c].method = "GetSwitchInfo" /\ answer'[c].code = "OK" /\ held[c].mobile = Default =>
              asked[c].known \subseteq answer'[c].about]_vars

\* Every request is answered: no Control is kept by a callback that never runs.
RequestsAnswered == \A c \in Clients : asked[c] # None ~> asked[c] = None

\* In the end each switch is as it was last requested, whatever reports and orders
\* have crossed each other (the script of SmartService::parse).
SwitchesFollow == <>[](\A s \in Switches : request[s] # None => actual[s] = request[s])

=============================================================================
