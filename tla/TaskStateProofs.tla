---------------------------- MODULE TaskStateProofs ----------------------------
(***************************************************************************)
(* TaskState: whose reply an accessor offers, which replies are allocated, *)
(* which elements are looked at, and what reaches a server, for any        *)
(* databases, arguments, replies, workspace and order of the calls.        *)
(***************************************************************************)
EXTENDS TaskState, TailQueueProofs

\* Records with the right fields, whatever their values.
IsCommand(c) ==
    c \in [db : {c.db}, timeout : {c.timeout}, max_retries : {c.max_retries},
           argv : {c.argv}, reply : {c.reply}]

IsAsked(q) ==
    q \in [db : {q.db}, timeout : {q.timeout}, retries : {q.retries}, argv : {q.argv}]

\* A heap of replies.
IsHeap(h) ==
    /\ h = [a \in DOMAIN h |-> h[a]]
    /\ DOMAIN h \subseteq Addresses
    /\ \A a \in DOMAIN h : h[a] \in Replies

\* The enqueued command is the one that the VCL has asked for, and its reply,
\* if there is one, is that of the last execution, of this command.
ReplyOfLast ==
    /\ IsCommand(command)
    /\ IsAsked(asked)
    /\ command.db = asked.db
    /\ command.reply = last.reply
    /\ command.reply # Null => last.of.db = command.db /\ last.sent

\* The inductive invariant.
TaskInv == ReplyOfLast /\ IsHeap(heap) /\ RepliesFreed

-----------------------------------------------------------------------------
\* Replies are freed one at a time, and with its reply nothing else.
LEMMA Freed ==
    ASSUME TaskInv
    PROVE  IsHeap(HeapFlushed) /\ DOMAIN HeapFlushed = forgotten
  BY DEF TaskInv, IsHeap, HeapFlushed, RepliesFreed

\* What an execution of c does, with h in the heap, of which nothing but the
\* replies of f is left from before.
LEMMA RunStep ==
    ASSUME NEW c, NEW q, NEW w, NEW h, NEW f,
           IsCommand(c), IsHeap(h), DOMAIN h = f, q.db = c.db, Run(c, q, w, h, f)
    PROVE  /\ IsCommand(command') /\ command'.db = c.db
           /\ command'.reply = last'.reply
           /\ command'.reply # Null => last'.of.db = c.db /\ last'.sent
           /\ IsHeap(heap') /\ RepliesFreed'
  <1>run. PICK sent \in BOOLEAN, r \in (Addresses \ DOMAIN h) \union {Null},
             as \in {c.argv, Substituted(c.argv)} :
          \E left \in LeftIn(c.argv, as) :
            LET unscripted == as # c.argv /\ left # as
                reply == IF unscripted THEN Null ELSE r
            IN  /\ sent => Null \notin ToSet(c.argv)
                /\ as # c.argv \/ r # Null => sent
                /\ r # Null => left = as \/ unscripted
                /\ unscripted => r # Null
                /\ command' = [c EXCEPT !.argv = left, !.reply = reply]
                /\ IF r = Null
                   THEN heap' = h
                   ELSE \E x \in Replies :
                          heap' = [a \in DOMAIN h \union {r} |-> IF a = r THEN x ELSE h[a]]
                /\ forgotten' = f \union (IF unscripted THEN {r} ELSE {})
                /\ ws' \in Planned(w) \union (IF sent THEN {} ELSE {w})
                /\ last' = [of |-> q, sent |-> sent, as |-> Sent(c, as), reply |-> reply]
    BY Zenon DEF Run
  <1>left. PICK left \in LeftIn(c.argv, as) :
          LET unscripted == as # c.argv /\ left # as
              reply == IF unscripted THEN Null ELSE r
          IN  /\ sent => Null \notin ToSet(c.argv)
              /\ as # c.argv \/ r # Null => sent
              /\ r # Null => left = as \/ unscripted
              /\ unscripted => r # Null
              /\ command' = [c EXCEPT !.argv = left, !.reply = reply]
              /\ IF r = Null
                 THEN heap' = h
                 ELSE \E x \in Replies :
                        heap' = [a \in DOMAIN h \union {r} |-> IF a = r THEN x ELSE h[a]]
              /\ forgotten' = f \union (IF unscripted THEN {r} ELSE {})
              /\ ws' \in Planned(w) \union (IF sent THEN {} ELSE {w})
              /\ last' = [of |-> q, sent |-> sent, as |-> Sent(c, as), reply |-> reply]
    BY <1>run
  <1> DEFINE unscripted == as # c.argv /\ left # as
  <1>1. /\ r # Null => sent
        /\ unscripted => r # Null
        /\ command' = [c EXCEPT !.argv = left, !.reply = IF unscripted THEN Null ELSE r]
        /\ IF r = Null
           THEN heap' = h
           ELSE \E x \in Replies :
                  heap' = [a \in DOMAIN h \union {r} |-> IF a = r THEN x ELSE h[a]]
        /\ forgotten' = f \union (IF unscripted THEN {r} ELSE {})
        /\ last' = [of |-> q, sent |-> sent, as |-> Sent(c, as),
                    reply |-> IF unscripted THEN Null ELSE r]
    BY <1>left
  <1> HIDE DEF unscripted
  <1> DEFINE reply == IF unscripted THEN Null ELSE r
  <1>2. IsCommand(command') /\ command'.db = c.db /\ command'.reply = reply
    BY <1>1 DEF IsCommand
  <1>3. last'.of = q /\ last'.sent = sent /\ last'.reply = reply
    BY <1>1
  <1>4. IsHeap(heap') /\ DOMAIN heap' = f \union ({r} \ {Null})
    <2>1. CASE r = Null
      BY <1>1, <2>1
    <2>2. CASE r # Null
      <3>1. PICK x \in Replies :
              heap' = [a \in DOMAIN h \union {r} |-> IF a = r THEN x ELSE h[a]]
        BY <1>1, <2>2
      <3>2. DOMAIN heap' = DOMAIN h \union {r}
        BY <3>1
      <3>3. \A a \in DOMAIN heap' : heap'[a] = IF a = r THEN x ELSE h[a]
        BY <3>1, <3>2
      <3>4. heap' = [a \in DOMAIN heap' |-> heap'[a]]
        BY <3>1, <3>2
      <3> QED
        BY <3>2, <3>3, <3>4, <1>1, <2>2 DEF IsHeap
    <2> QED
      BY <2>1, <2>2
  <1>5. Null \notin f /\ r \notin f
    BY NamesAssumption DEF IsHeap
  <1>6. RepliesFreed'
    <2>1. CASE unscripted
      <3>1. command'.reply = Null /\ DOMAIN heap' = forgotten' /\ Null \notin forgotten'
        BY <1>1, <1>2, <1>4, <1>5, <2>1
      <3> QED
        BY <3>1 DEF RepliesFreed
    <2>2. CASE ~unscripted
      <3>1. command'.reply = r /\ forgotten' = f
        BY <1>1, <1>2, <2>2
      <3> QED
        BY <1>4, <1>5, <3>1 DEF RepliesFreed
    <2> QED
      BY <2>1, <2>2
  <1> QED
    BY <1>1, <1>2, <1>3, <1>4, <1>6

\* Methods that change settings or arguments of the enqueued command.
LEMMA BuildStep ==
    ASSUME TaskInv, NEW d, NEW n,
           SetTimeout(d, n) \/ SetRetries(d, n) \/ Push(d, n)
    PROVE  TaskInv'
  <1>1. /\ IsCommand(command') /\ IsAsked(asked')
        /\ command'.db = command.db /\ command'.reply = command.reply
        /\ asked'.db = asked.db
    BY DEF TaskInv, ReplyOfLast, IsCommand, IsAsked, SetTimeout, SetRetries, Push
  <1>2. UNCHANGED <<heap, last, forgotten>>
    BY DEF SetTimeout, SetRetries, Push
  <1> QED
    BY <1>1, <1>2 DEF TaskInv, ReplyOfLast, IsHeap, RepliesFreed

\* .command(): the state is flushed, with the reply of the command before.
LEMMA EnqueueStep ==
    ASSUME TaskInv, NEW d, NEW v, EnqueueCommand(d, v)
    PROVE  TaskInv'
  <1>1. /\ IsCommand(command') /\ IsAsked(asked')
        /\ command'.db = d /\ asked'.db = d /\ command'.reply = Null
    BY DEF EnqueueCommand, Enqueued, New, IsCommand, IsAsked
  <1>2. last'.reply = Null
    BY DEF EnqueueCommand, NotExecuted
  <1>3. IsHeap(heap') /\ DOMAIN heap' = forgotten /\ forgotten' = forgotten
    BY Freed DEF EnqueueCommand
  <1>4. Null \notin forgotten
    BY NamesAssumption DEF TaskInv, IsHeap, RepliesFreed
  <1> QED
    BY <1>1, <1>2, <1>3, <1>4 DEF TaskInv, ReplyOfLast, RepliesFreed

\* .execute(): the reply that was there is forgotten.
LEMMA ExecuteStep ==
    ASSUME TaskInv, NEW d, Execute(d)
    PROVE  TaskInv'
  <1> DEFINE f == forgotten \union ({command.reply} \ {Null})
  <1>1. /\ IsCommand(command) /\ IsHeap(heap) /\ asked.db = command.db
        /\ Run(command, asked, ws, heap, f) /\ asked' = asked
    BY DEF TaskInv, ReplyOfLast, Execute
  <1>2. DOMAIN heap = f
    BY NamesAssumption DEF TaskInv, IsHeap, RepliesFreed
  <1> HIDE DEF f
  <1>3. /\ IsCommand(command') /\ command'.db = command.db
        /\ command'.reply = last'.reply
        /\ command'.reply # Null => last'.of.db = command.db /\ last'.sent
        /\ IsHeap(heap') /\ RepliesFreed'
    BY <1>1, <1>2, RunStep
  <1> QED
    BY <1>1, <1>3 DEF TaskInv, ReplyOfLast

\* .easy_execute(): the reply that was there is freed, whatever is pushed.
LEMMA EasyStep ==
    ASSUME TaskInv, NEW d, NEW v, NEW args, NEW t, NEW r,
           EasyExecute(d, v, args, t, r)
    PROVE  TaskInv'
  <1> DEFINE p == PushedAll([argv |-> <<v>>, ws |-> ws], args)
             q == [db |-> d, timeout |-> t, retries |-> r,
                   argv |-> <<v>> \o [i \in DOMAIN args |-> Arg(args[i])]]
             c == [Enqueued(d, v) EXCEPT !.argv = p.argv, !.timeout = t, !.max_retries = r]
  <1>1. asked' = q /\ Run(c, q, p.ws, HeapFlushed, forgotten)
    BY DEF EasyExecute
  <1>2. IsCommand(c) /\ c.db = d
    BY DEF IsCommand, Enqueued
  <1>3. IsAsked(q) /\ q.db = d
    BY DEF IsAsked
  <1> HIDE DEF p, q, c
  <1>4. /\ IsCommand(command') /\ command'.db = d
        /\ command'.reply = last'.reply
        /\ command'.reply # Null => last'.of.db = d /\ last'.sent
        /\ IsHeap(heap') /\ RepliesFreed'
    BY <1>1, <1>2, <1>3, Freed, RunStep
  <1> QED
    BY <1>1, <1>3, <1>4 DEF TaskInv, ReplyOfLast

\* .free(), redis.use() and the end of the task.
LEMMA FlushStep ==
    ASSUME TaskInv, FreeReply \/ (\E d \in DBs \union {NoDB} : Use(d)) \/ EndTask
    PROVE  TaskInv'
  <1>1. /\ IsCommand(command') /\ IsAsked(asked')
        /\ command'.db = NoDB /\ asked'.db = NoDB /\ command'.reply = Null
    BY DEF FreeReply, Use, EndTask, Flush, Flushed, Nothing, IsCommand, IsAsked
  <1>2. last'.reply = Null
    BY DEF FreeReply, Use, EndTask, Flush, NotExecuted
  <1>3. Null \notin forgotten
    BY NamesAssumption DEF TaskInv, IsHeap, RepliesFreed
  <1>4. IsHeap(heap') /\ DOMAIN heap' = forgotten' /\ forgotten' = forgotten
    BY Freed DEF FreeReply, Use, EndTask
  <1> QED
    BY <1>1, <1>2, <1>3, <1>4 DEF TaskInv, ReplyOfLast, RepliesFreed

-----------------------------------------------------------------------------
\* The inductive invariant holds whatever the VCL calls, in whatever order.
THEOREM Invariance == Spec => []TaskInv
  <1>1. Init => TaskInv
    <2> SUFFICES ASSUME Init PROVE TaskInv
      OBVIOUS
    <2>1. ReplyOfLast
      BY DEF Init, ReplyOfLast, Flushed, Nothing, NotExecuted, IsCommand, IsAsked
    <2>2. IsHeap(heap)
      BY DEF Init, IsHeap
    <2>3. RepliesFreed
      BY DEF Init, Flushed, RepliesFreed
    <2> QED
      BY <2>1, <2>2, <2>3 DEF TaskInv
  <1>2. TaskInv /\ [Next]_vars => TaskInv'
    <2> SUFFICES ASSUME TaskInv, [Next]_vars PROVE TaskInv'
      OBVIOUS
    <2>1. ASSUME NEW d,
                 \/ \E v \in Values : EnqueueCommand(d, v)
                 \/ \E n \in Settings : SetTimeout(d, n) \/ SetRetries(d, n)
                 \/ \E v \in Values \union {Null} : Push(d, v)
                 \/ Execute(d)
                 \/ \E v, args, t, r : EasyExecute(d, v, args, t, r)
          PROVE  TaskInv'
      BY <2>1, EnqueueStep, BuildStep, ExecuteStep, EasyStep
    <2>2. CASE FreeReply \/ (\E d \in DBs \union {NoDB} : Use(d)) \/ EndTask
      BY <2>2, FlushStep
    <2>3. CASE SpendWorkspace \/ UNCHANGED vars
      BY <2>3 DEF SpendWorkspace, vars, TaskInv, ReplyOfLast, IsHeap, RepliesFreed
    <2> QED
      BY <2>1, <2>2, <2>3 DEF Next
  <1> QED
    BY <1>1, <1>2, PTL DEF Spec

\* Whatever the calls, an accessor only offers the reply that its database gave
\* to the command that the VCL asked it for.
THEOREM RepliesAreOwn == Spec => []OwnReply
  <1>1. TaskInv => OwnReply
    BY DEF TaskInv, ReplyOfLast, OwnReply, Replied
  <1> QED
    BY <1>1, Invariance, PTL

\* No reply is freed while the state points to it; those that an .execute() is
\* repeated over, and a NOSCRIPT that exhausts the workspace, are never freed,
\* and no others are leaked.
THEOREM NothingElseLeaks == Spec => []RepliesFreed
  <1>1. TaskInv => RepliesFreed
    BY DEF TaskInv
  <1> QED
    BY <1>1, Invariance, PTL

\* A VCL_INT that is negative is larger than any number of elements once it is
\* compared as a size_t, for any width of the two.
LEMMA Unsigned ==
    ASSUME NEW n \in Nat, n <= Width \div 2,
           NEW index \in -(Width \div 2) .. (Width \div 2) - 1, Below(index, n)
    PROVE  index \in 0 .. n - 1
  <1> DEFINE half == Width \div 2
  <1>1. Width \in Nat \ {0} /\ half \in Nat /\ 2 * half <= Width /\ half < Width
    BY NumbersAssumption
  <1>2. index % Width < n
    BY DEF Below
  <1>3. CASE index >= 0
    <2>1. index % Width = index
      BY <1>1, <1>3, SMTT(30)
    <2> QED
      BY <1>2, <1>3, <2>1
  <1>4. CASE index < 0
    <2>1. index % Width = index + Width
      BY <1>1, <1>4, SMTT(30)
    <2> QED
      BY <1>1, <1>2, <1>4, <2>1
  <1> QED
    BY <1>3, <1>4

\* Accessors never look at an element that the reply does not have.
THEOREM NoElementBeyond == Spec => []ElementsInBounds
  <1>1. TaskInv => ElementsInBounds
    <2> SUFFICES ASSUME TaskInv, NEW d \in DBs,
                        NEW index \in -(Width \div 2) .. (Width \div 2) - 1,
                        LooksAt(d, index) \/ Reads(d, index)
                 PROVE  index + 1 \in DOMAIN Reply.elements
      BY DEF ElementsInBounds
    <2>1. Replied(d) /\ Below(index, Len(Reply.elements))
      BY DEF LooksAt, Reads, ReplyIs
    <2>2. Reply \in Replies
      BY <2>1 DEF Replied, Reply, TaskInv, RepliesFreed, IsHeap
    <2>3. /\ Reply.elements \in Seq(STRING)
          /\ Len(Reply.elements) <= Width \div 2
      BY <2>2, RepliesAssumption
    <2>4. index \in 0 .. Len(Reply.elements) - 1
      BY <2>1, <2>3, Unsigned
    <2> QED
      BY <2>3, <2>4
  <1> QED
    BY <1>1, Invariance, PTL

-----------------------------------------------------------------------------
(***************************************************************************)
(* The arguments of a command.                                             *)
(***************************************************************************)

Pointers == Strings \union {Null}

\* The arguments and the free workspace that .push() changes.
Places == [argv : Seq(Pointers), ws : 0 .. Workspace]

NoNull(argv) == \A i \in 1 .. Len(argv) : argv[i] # Null

\* The arguments are those of q: as they are, or once EVAL has been replaced by
\* EVALSHA.
Plain(argv, q) == \A i \in 1 .. Len(argv) : argv[i] = q[i]

Replaced(argv, q) ==
    /\ Len(argv) >= 2
    /\ q[1] = Eval /\ argv[1] = Evalsha
    /\ argv[2] = Digest[q[2]]
    /\ \A i \in 3 .. Len(argv) : argv[i] = q[i]

Copied(argv, q) == Plain(argv, q) \/ Replaced(argv, q)

\* The arguments are the first m of q, up to the limit.
Complete(argv, q, m) ==
    /\ Len(argv) = IF m < MaxArgs THEN m ELSE MaxArgs
    /\ Copied(argv, q)

\* So they are unless the workspace is full, and so it will be for the rest of
\* the task, or was exhausted by an execution, which has left a NULL in argv.
Following(argv, w, q, m) ==
    /\ Len(argv) <= MaxArgs
    /\ w # 0 /\ NoNull(argv) => Complete(argv, q, m)

\* One more argument of both, or of q only.
LEMMA CopiedLonger ==
    ASSUME NEW argv \in Seq(Pointers), NEW x \in Pointers, NEW q, Copied(argv, q),
           q[Len(argv) + 1] = x
    PROVE  Copied(Append(argv, x), q)
  <1> DEFINE longer == Append(argv, x)
             n == Len(argv)
  <1>1. /\ Len(longer) = n + 1 /\ n \in Nat /\ longer[n + 1] = x
        /\ \A i \in 1 .. n : longer[i] = argv[i]
    BY AppendProperties
  <1> HIDE DEF longer, n
  <1>2. CASE Plain(argv, q)
    <2>1. ASSUME NEW i \in 1 .. n + 1 PROVE longer[i] = q[i]
      <3>1. CASE i = n + 1
        BY <1>1, <3>1 DEF n
      <3>2. CASE i # n + 1
        <4>1. i \in 1 .. n
          BY <1>1, <3>2
        <4> QED
          BY <1>1, <1>2, <4>1 DEF Plain, n
      <3> QED
        BY <3>1, <3>2
    <2> QED
      BY <1>1, <2>1 DEF Copied, Plain, longer
  <1>3. CASE Replaced(argv, q)
    <2>1. n >= 2 /\ 1 \in 1 .. n /\ 2 \in 1 .. n
      BY <1>1, <1>3 DEF Replaced, n
    <2>2. ASSUME NEW i \in 3 .. n + 1 PROVE longer[i] = q[i]
      <3>1. CASE i = n + 1
        BY <1>1, <3>1 DEF n
      <3>2. CASE i # n + 1
        <4>1. i \in 1 .. n /\ i \in 3 .. n
          BY <1>1, <3>2
        <4> QED
          BY <1>1, <1>3, <4>1 DEF Replaced, n
      <3> QED
        BY <3>1, <3>2
    <2>3. longer[1] = argv[1] /\ longer[2] = argv[2] /\ Len(longer) >= 2
      BY <1>1, <2>1
    <2>4. Replaced(longer, q)
      BY <1>1, <1>3, <2>2, <2>3 DEF Replaced
    <2> QED
      BY <2>4 DEF Copied, longer
  <1> QED
    BY <1>2, <1>3 DEF Copied

LEMMA CopiedSame ==
    ASSUME NEW argv \in Seq(Pointers), NEW q, NEW p, Copied(argv, q),
           \A i \in 1 .. Len(argv) : p[i] = q[i]
    PROVE  Copied(argv, p)
  <1>1. Len(argv) \in Nat
    OBVIOUS
  <1>2. CASE Plain(argv, q)
    BY <1>2 DEF Plain, Copied
  <1>3. CASE Replaced(argv, q)
    <2>1. p[1] = q[1] /\ p[2] = q[2] /\ \A i \in 3 .. Len(argv) : p[i] = q[i]
      BY <1>1, <1>3 DEF Replaced
    <2> QED
      BY <1>3, <2>1 DEF Replaced, Copied
  <1> QED
    BY <1>2, <1>3 DEF Copied

\* One more argument: it is lost if the workspace is full, or beyond the limit.
LEMMA PushFollows ==
    ASSUME NEW p \in Places, NEW arg \in Values \union {Null}, NEW q, NEW m \in Nat,
           Following(p.argv, p.ws, q, m), q[m + 1] = Arg(arg)
    PROVE  /\ Pushed(p, arg) \in Places
           /\ Following(Pushed(p, arg).argv, Pushed(p, arg).ws, q, m + 1)
  <1> DEFINE argv == p.argv
             w == p.ws
             x == Arg(arg)
             longer == Append(argv, x)
  <1>1. /\ argv \in Seq(Pointers) /\ w \in 0 .. Workspace /\ w \in Nat /\ Len(argv) \in Nat
        /\ p = [argv |-> argv, ws |-> w]
    BY NumbersAssumption DEF Places
  <1>2. x \in Pointers /\ x # Null /\ MaxArgs \in Nat
    BY NamesAssumption, NumbersAssumption DEF Arg, Pointers
  <1>3. /\ longer \in Seq(Pointers) /\ Len(longer) = Len(argv) + 1
        /\ \A i \in 1 .. Len(argv) : longer[i] = argv[i]
        /\ longer[Len(argv) + 1] = x
    BY <1>1, <1>2, AppendProperties
  <1>4. Len(argv) <= MaxArgs /\ q[m + 1] = x
    BY DEF Following
  <1>5. w # 0 /\ NoNull(argv) =>
          Len(argv) = (IF m < MaxArgs THEN m ELSE MaxArgs) /\ Copied(argv, q)
    BY DEF Following, Complete
  <1>6. \/ Pushed(p, arg) = p /\ (Len(argv) >= MaxArgs \/ w = 0)
        \/ /\ Len(argv) < MaxArgs /\ (w = 0 => arg # Null)
           /\ \/ Pushed(p, arg) = [argv |-> longer, ws |-> w]
              \/ w > 0 /\ Pushed(p, arg) = [argv |-> longer, ws |-> w - 1]
    <2>1. CASE Len(argv) >= MaxArgs
      BY <1>1, <1>2, <2>1 DEF Pushed
    <2>2. CASE Len(argv) < MaxArgs /\ arg # Null
      <3>1. Pushed(p, arg) = [p EXCEPT !.argv = Append(@, arg)]
        BY <1>1, <1>2, <2>2 DEF Pushed
      <3>2. Pushed(p, arg) = [argv |-> Append(argv, arg), ws |-> w]
        BY <1>1, <3>1
      <3> QED
        BY <2>2, <3>2 DEF Arg
    <2>3. CASE Len(argv) < MaxArgs /\ arg = Null /\ w > 0
      BY <1>1, <1>2, <2>3 DEF Pushed, Arg
    <2>4. CASE Len(argv) < MaxArgs /\ arg = Null /\ ~(w > 0)
      BY <1>1, <1>2, <2>4 DEF Pushed
    <2> QED
      BY <1>1, <1>2, <2>1, <2>2, <2>3, <2>4
  <1> HIDE DEF argv, w, x, longer
  <1>7. CASE Pushed(p, arg) = p /\ (Len(argv) >= MaxArgs \/ w = 0)
    <2>1. w # 0 /\ NoNull(argv) => Len(argv) = IF m + 1 < MaxArgs THEN m + 1 ELSE MaxArgs
      BY <1>1, <1>2, <1>4, <1>5, <1>7
    <2>2. Following(argv, w, q, m + 1)
      BY <1>4, <1>5, <2>1 DEF Following, Complete
    <2> QED
      BY <1>7, <2>2 DEF argv, w
  <1>8. ASSUME NEW rest \in 0 .. Workspace, Len(argv) < MaxArgs, rest # 0 => w # 0,
               Pushed(p, arg) = [argv |-> longer, ws |-> rest]
        PROVE  Pushed(p, arg) \in Places
               /\ Following(Pushed(p, arg).argv, Pushed(p, arg).ws, q, m + 1)
    <2>1. Pushed(p, arg) \in Places
      BY <1>3, <1>8 DEF Places
    <2>2. Len(longer) <= MaxArgs
      BY <1>1, <1>2, <1>3, <1>8
    <2>3. ASSUME rest # 0, NoNull(longer) PROVE Complete(longer, q, m + 1)
      <3>1. NoNull(argv)
        <4>1. \A i \in 1 .. Len(argv) : i \in 1 .. Len(longer)
          BY <1>1, <1>3
        <4> QED
          BY <1>3, <2>3, <4>1 DEF NoNull
      <3>2. Len(argv) = m /\ Copied(argv, q)
        BY <1>1, <1>2, <1>5, <1>8, <2>3, <3>1
      <3>3. Len(longer) = IF m + 1 < MaxArgs THEN m + 1 ELSE MaxArgs
        BY <1>1, <1>2, <1>3, <1>8, <3>2
      <3>4. q[Len(argv) + 1] = x
        BY <1>4, <3>2
      <3>5. Copied(longer, q)
        BY <1>1, <1>2, <3>2, <3>4, CopiedLonger DEF longer
      <3> QED
        BY <3>3, <3>5 DEF Complete
    <2>4. Following(longer, rest, q, m + 1)
      BY <2>2, <2>3 DEF Following
    <2>5. Pushed(p, arg).argv = longer /\ Pushed(p, arg).ws = rest
      BY <1>8
    <2> QED
      BY <2>1, <2>4, <2>5
  <1>9. w > 0 => w - 1 \in 0 .. Workspace /\ w # 0
    BY <1>1, NumbersAssumption
  <1> QED
    BY <1>1, <1>6, <1>7, <1>8, <1>9

\* f has the places after each of the pushes of .easy_execute().
PushedUpTo(p, args, f) ==
    /\ f[0] = p
    /\ \A n \in 1 .. Len(args) : f[n] = Pushed(f[n - 1], args[n])

\* There is such a function, and PushedAll takes its last value.
LEMMA PushedLoop ==
    ASSUME NEW p \in Places, NEW args \in Seq(Values \union {Null})
    PROVE  \E f : PushedUpTo(p, args, f) /\ PushedAll(p, args) = f[Len(args)]
  <1> DEFINE N == Len(args)
             Loop(f) == f = [n \in 0 .. N |-> IF n = 0 THEN p ELSE Pushed(f[n - 1], args[n])]
             step == [x \in Places \X (1 .. N) |-> Pushed(x[1], args[x[2]])]
             chosen == CHOOSE f : Loop(f)
  <1>1. N \in Nat /\ \A n \in 1 .. N : args[n] \in Values \union {Null}
    OBVIOUS
  <1>2. ASSUME NEW x \in Places, NEW a \in Values \union {Null} PROVE Pushed(x, a) \in Places
    <2>1. x.argv \in Seq(Pointers) /\ x.ws \in 0 .. Workspace /\ x.ws \in Nat
      BY NumbersAssumption DEF Places
    <2>2. a # Null => Append(x.argv, a) \in Seq(Pointers)
      BY <2>1, NamesAssumption DEF Pointers
    <2>3. Append(x.argv, Blank) \in Seq(Pointers)
      BY <2>1, NamesAssumption DEF Pointers
    <2>4. x.ws > 0 => x.ws - 1 \in 0 .. Workspace
      BY <2>1, NumbersAssumption
    <2>5. CASE Pushed(x, a) = x
      BY <2>5
    <2>6. CASE a # Null /\ Pushed(x, a) = [x EXCEPT !.argv = Append(@, a)]
      BY <2>2, <2>6 DEF Places
    <2>7. CASE x.ws > 0 /\ Pushed(x, a) = [argv |-> Append(x.argv, Blank), ws |-> x.ws - 1]
      BY <2>3, <2>4, <2>7 DEF Places
    <2> QED
      BY <2>1, <2>5, <2>6, <2>7, NumbersAssumption DEF Pushed
  <1>3. step \in [Places \X (1 .. N) -> Places]
    BY <1>1, <1>2
  <1>4. ASSUME NEW x \in Places, NEW n \in 1 .. N PROVE step[<<x, n>>] = Pushed(x, args[n])
    OBVIOUS
  <1> HIDE DEF step, N, Loop
  <1>5. PICK g \in [0 .. N -> Places] :
          g[0] = p /\ \A n \in 1 .. N : g[n] = step[<<g[n - 1], n>>]
    <2> DEFINE B == Places
    <2>1. step \in [B \X (1 .. N) -> B] /\ p \in B
      BY <1>3
    <2> HIDE DEF B
    <2>2. \E g : IsRecursive(g, N, B, p, step)
      BY <1>1, <2>1, RecursionUpTo
    <2> QED
      BY <2>2 DEF B, IsRecursive
  <1>6. Loop(g)
    <2> DEFINE Value(n) == IF n = 0 THEN p ELSE Pushed(g[n - 1], args[n])
    <2>1. ASSUME NEW n \in 0 .. N PROVE g[n] = Value(n)
      <3>1. CASE n = 0
        BY <1>5, <3>1
      <3>2. CASE n # 0
        <4>1. n \in 1 .. N /\ n - 1 \in 0 .. N
          BY <1>1, <3>2
        <4>2. g[n - 1] \in Places
          BY <4>1
        <4>3. g[n] = Pushed(g[n - 1], args[n])
          BY <1>4, <1>5, <4>1, <4>2, Zenon
        <4> QED
          BY <3>2, <4>3
      <3> QED
        BY <3>1, <3>2
    <2> HIDE DEF Value
    <2>2. g = [n \in 0 .. N |-> Value(n)]
      BY <2>1
    <2> QED
      BY <2>2, Zenon DEF Loop, Value
  <1>7. Loop(chosen)
    BY <1>6
  <1>8. PushedUpTo(p, args, chosen)
    <2> HIDE DEF chosen
    <2>1. chosen[0] = p
      BY <1>1, <1>7 DEF Loop
    <2>2. ASSUME NEW n \in 1 .. N PROVE chosen[n] = Pushed(chosen[n - 1], args[n])
      <3>1. n \in 0 .. N /\ n # 0
        BY <1>1
      <3> QED
        BY <1>7, <3>1 DEF Loop
    <2> QED
      BY <2>1, <2>2 DEF PushedUpTo, N
  <1>9. PushedAll(p, args) = chosen[Len(args)]
    BY DEF PushedAll, Loop, N
  <1> QED
    BY <1>8, <1>9

\* The arguments of .easy_execute().
LEMMA PushedAllFollows ==
    ASSUME NEW p \in Places, NEW args \in Seq(Values \union {Null}), NEW q, NEW m \in Nat,
           Following(p.argv, p.ws, q, m),
           \A n \in 1 .. Len(args) : q[m + n] = Arg(args[n])
    PROVE  /\ PushedAll(p, args) \in Places
           /\ Following(PushedAll(p, args).argv, PushedAll(p, args).ws, q, m + Len(args))
  <1> DEFINE N == Len(args)
  <1>1. PICK f : PushedUpTo(p, args, f) /\ PushedAll(p, args) = f[N]
    BY PushedLoop
  <1>2. N \in Nat /\ \A n \in 1 .. N : args[n] \in Values \union {Null}
    OBVIOUS
  <1>3. \A n \in 1 .. N : q[m + n] = Arg(args[n]) /\ f[n] = Pushed(f[n - 1], args[n])
    BY <1>1 DEF PushedUpTo
  <1> DEFINE T == {n \in 0 .. N : f[n] \in Places /\ Following(f[n].argv, f[n].ws, q, m + n)}
  <1> HIDE DEF N
  <1>4. 0 \in T
    <2>1. f[0] = p /\ m + 0 = m /\ 0 \in 0 .. N
      BY <1>1, <1>2 DEF PushedUpTo
    <2> QED
      BY <2>1
  <1>5. ASSUME NEW n \in 1 .. N, n - 1 \in T PROVE n \in T
    <2> DEFINE k == m + (n - 1)
    <2>1. /\ n \in 0 .. N /\ k \in Nat /\ k + 1 = m + n
          /\ f[n - 1] \in Places /\ Following(f[n - 1].argv, f[n - 1].ws, q, k)
      BY <1>2, <1>5
    <2> HIDE DEF k
    <2>2. q[k + 1] = Arg(args[n])
      BY <1>3, <2>1
    <2> DEFINE r == f[n - 1]
    <2>3. r \in Places /\ Following(r.argv, r.ws, q, k)
      BY <2>1
    <2> HIDE DEF r
    <2>4. /\ Pushed(r, args[n]) \in Places
          /\ Following(Pushed(r, args[n]).argv, Pushed(r, args[n]).ws, q, k + 1)
      BY <1>2, <2>1, <2>2, <2>3, PushFollows
    <2>5. f[n] = Pushed(r, args[n])
      BY <1>3 DEF r
    <2> QED
      BY <2>1, <2>4, <2>5
  <1> HIDE DEF T
  <1>6. N \in T
    <2>1. 0 .. N \subseteq T
      BY <1>2, <1>4, <1>5, InductionUpTo
    <2> QED
      BY <1>2, <2>1
  <1> QED
    BY <1>1, <1>6 DEF T, N

-----------------------------------------------------------------------------
(***************************************************************************)
(* What reaches a server.                                                  *)
(***************************************************************************)

\* Command c, with w bytes of workspace, is the one that was asked for as q, or
\* what executions have made of it.
Matches(c, w, q) ==
    /\ c \in Command
    /\ IsAsked(q)
    /\ q.db = c.db /\ q.timeout = c.timeout /\ q.retries = c.max_retries
    /\ q.argv \in Seq(Strings)
    /\ Following(c.argv, w, q.argv, Len(q.argv))

\* The inductive invariant: the settings are those asked for, and so are the
\* arguments while there is workspace.
ArgsInv ==
    /\ used \in DBs \union {NoDB}
    /\ ws \in 0 .. Workspace
    /\ Matches(command, ws, asked)
    /\ SentAsAsked

\* A workspace that shrinks, and a reply, do not change what was asked for.
LEMMA MatchesLess ==
    ASSUME NEW c, NEW q, NEW w \in 0 .. Workspace, NEW v \in 0 .. Workspace, v <= w,
           Matches(c, w, q), NEW r \in Addresses \union {Null}
    PROVE  Matches(c, v, q) /\ Matches([c EXCEPT !.reply = r], v, q)
  <1>1. v # 0 => w # 0
    BY NumbersAssumption
  <1>2. Following(c.argv, v, q.argv, Len(q.argv))
    BY <1>1 DEF Matches, Following
  <1>3. /\ [c EXCEPT !.reply = r] \in Command
        /\ [c EXCEPT !.reply = r].argv = c.argv /\ [c EXCEPT !.reply = r].db = c.db
        /\ [c EXCEPT !.reply = r].timeout = c.timeout
        /\ [c EXCEPT !.reply = r].max_retries = c.max_retries
    BY DEF Matches, Command
  <1> QED
    BY <1>2, <1>3 DEF Matches

\* A command of which only the name was asked for.
LEMMA FirstArgument ==
    ASSUME NEW v \in Strings, NEW w
    PROVE  Following(<<v>>, w, <<v>>, 1)
  BY NumbersAssumption DEF Following, Complete, Copied, Plain

\* EVAL is replaced in the arguments asked for, and only once.
LEMMA SubstitutedCopy ==
    ASSUME NEW argv \in Seq(Pointers), NoNull(argv), NEW q, Copied(argv, q)
    PROVE  /\ Substituted(argv) \in Seq(Pointers)
           /\ Len(Substituted(argv)) = Len(argv)
           /\ Copied(Substituted(argv), q)
  <1>1. CASE ~IsEval(argv)
    BY <1>1 DEF Substituted
  <1>2. CASE IsEval(argv)
    <2> DEFINE n == Len(argv)
               as == [argv EXCEPT ![1] = Evalsha, ![2] = Digest[argv[2]]]
    <2>1. /\ n \in Nat /\ n >= 2 /\ 1 \in 1 .. n /\ 2 \in 1 .. n /\ argv[1] = Eval
          /\ argv[1] # Evalsha
      BY <1>2, NamesAssumption DEF IsEval
    <2>2. argv[2] \in Strings
      <3>1. argv[2] \in Pointers /\ argv[2] # Null
        BY <2>1 DEF NoNull
      <3> QED
        BY <3>1 DEF Pointers
    <2>3. Evalsha \in Pointers /\ Digest[argv[2]] \in Pointers
      BY <2>2, NamesAssumption DEF Pointers
    <2>4. as \in Seq(Pointers) /\ Len(as) = n
      BY <2>1, <2>3
    <2>5. as[1] = Evalsha /\ as[2] = Digest[argv[2]] /\ \A i \in 3 .. n : as[i] = argv[i]
      BY <2>1
    <2>6. Plain(argv, q)
      BY <2>1 DEF Copied, Replaced
    <2>7. q[1] = Eval /\ q[2] = argv[2] /\ \A i \in 3 .. n : argv[i] = q[i]
      BY <2>1, <2>6 DEF Plain
    <2>8. Substituted(argv) = as
      BY <1>2 DEF Substituted
    <2> HIDE DEF n, as
    <2>9. Replaced(as, q)
      BY <2>1, <2>4, <2>5, <2>7 DEF Replaced
    <2> QED
      BY <2>4, <2>8, <2>9 DEF Copied, n
  <1> QED
    BY <1>1, <1>2

\* Sequence t is s, of pointers, with x at i.
Overwrites(t, s, i, x) ==
    s \in Seq(Pointers) /\ i \in 1 .. Len(s) /\ x \in Pointers /\ t = [s EXCEPT ![i] = x]

LEMMA Overwritten ==
    ASSUME NEW t, NEW s, NEW i, NEW x, Overwrites(t, s, i, x)
    PROVE  t \in Seq(Pointers) /\ Len(t) = Len(s) /\ t[i] = x
  BY DEF Overwrites

\* What an execution leaves is what it sent, or has a NULL.
LEMMA LeftOver ==
    ASSUME NEW argv \in Seq(Pointers), NEW as \in Seq(Pointers), Len(as) = Len(argv),
           NEW left \in LeftIn(argv, as)
    PROVE  /\ left \in Seq(Pointers)
           /\ Len(left) = Len(argv)
           /\ left = as \/ ~NoNull(left)
  <1>1. Len(argv) \in Nat /\ Null \in Pointers /\ Evalsha \in Pointers
    BY NamesAssumption DEF Pointers
  <1>2. CASE left = as
    BY <1>2
  <1> DEFINE one == 1
             two == 2
  <1>3. IsEval(argv) => /\ one \in 1 .. Len(as) /\ one \in 1 .. Len(argv)
                        /\ two \in 1 .. Len(argv)
    BY <1>1 DEF IsEval
  <1>4. CASE IsEval(argv) /\ left = [as EXCEPT ![one] = Null]
    <2> DEFINE y == Null
    <2>1. left = [as EXCEPT ![one] = y] /\ y \in Pointers /\ one \in 1 .. Len(as)
      BY <1>1, <1>4, <1>3
    <2> HIDE DEF one, y
    <2>2. Overwrites(left, as, one, y)
      BY <2>1 DEF Overwrites
    <2>3. left \in Seq(Pointers) /\ Len(left) = Len(as) /\ left[one] = y
      BY Zenon, Overwritten, <2>2
    <2> QED
      BY <2>1, <2>3 DEF NoNull, y
  <1>5. CASE IsEval(argv) /\ left = [argv EXCEPT ![one] = Evalsha, ![two] = Null]
    <2> DEFINE x == Evalsha
               y == Null
               first == [argv EXCEPT ![one] = x]
    <2>1. left = [first EXCEPT ![two] = y] /\ x \in Pointers /\ y \in Pointers
      BY <1>1, <1>5
    <2>2. one \in 1 .. Len(argv) /\ two \in 1 .. Len(argv)
      BY <1>5, <1>3
    <2>3. first = [argv EXCEPT ![one] = x]
      OBVIOUS
    <2> HIDE DEF one, two, x, y, first
    <2>4. first \in Seq(Pointers) /\ Len(first) = Len(argv)
      <3>1. Overwrites(first, argv, one, x)
        BY <2>1, <2>2, <2>3 DEF Overwrites
      <3> QED
        BY Zenon, Overwritten, <3>1
    <2>5. left \in Seq(Pointers) /\ Len(left) = Len(first) /\ left[two] = y
      <3>1. Overwrites(left, first, two, y)
        BY <2>1, <2>2, <2>4 DEF Overwrites
      <3> QED
        BY Zenon, Overwritten, <3>1
    <2> QED
      BY <2>2, <2>4, <2>5 DEF NoNull, y
  <1> QED
    BY <1>2, <1>4, <1>5 DEF LeftIn

LEMMA ArgumentsAsFunction ==
    ASSUME NEW argv \in Seq(Pointers)
    PROVE  Len(argv) \in Nat /\ argv = [i \in 1 .. Len(argv) |-> argv[i]]
  OBVIOUS

LEMMA OtherArguments ==
    ASSUME NEW q, IsAsked(q), NEW argv
    PROVE  [q EXCEPT !.argv = argv]
             = [db |-> q.db, timeout |-> q.timeout, retries |-> q.retries, argv |-> argv]
  BY DEF IsAsked

\* What was asked for as q has been sent, with the arguments of as.
LEMMA CompleteIsAsked ==
    ASSUME NEW of, NEW as \in Seq(Pointers), of.argv \in Seq(Strings),
           Complete(as, of.argv, Len(of.argv))
    PROVE  LET n == Len(as)
               first == [i \in 1 .. n |-> of.argv[i]]
           IN  /\ n \in {Len(of.argv), MaxArgs}
               /\ \/ as = first
                  \/ /\ n >= 2 /\ first[1] = Eval
                     /\ as = [first EXCEPT ![1] = Evalsha, ![2] = Digest[first[2]]]
  <1> DEFINE n == Len(as)
             all == of.argv
             first == [i \in 1 .. n |-> all[i]]
             second == [first EXCEPT ![1] = Evalsha, ![2] = Digest[first[2]]]
  <1>1. n \in Nat /\ as = [i \in 1 .. n |-> as[i]]
    BY ArgumentsAsFunction
  <1>2. n \in {Len(all), MaxArgs}
    BY DEF Complete
  <1>3. CASE Plain(as, all)
    <2>1. as = first
      BY <1>1, <1>3 DEF Plain
    <2> QED
      BY <1>2, <2>1
  <1>4. CASE Replaced(as, all)
    <2>0. n >= 2
      BY <1>4 DEF Replaced
    <2>1. n >= 2 /\ 1 \in 1 .. n /\ 2 \in 1 .. n
      <3> HIDE DEF n, first, second
      <3> QED
        BY <1>1, <2>0
    <2>2. first[1] = all[1] /\ first[2] = all[2]
      BY <2>1
    <2>3. ASSUME NEW i \in 1 .. n PROVE as[i] = second[i]
      <3>1. CASE i = 1
        BY <1>4, <2>1, <3>1 DEF Replaced
      <3>2. CASE i = 2
        BY <1>4, <2>1, <2>2, <3>2 DEF Replaced
      <3>3. CASE i # 1 /\ i # 2
        <4>1. i \in 3 .. n
          <5> HIDE DEF n, first, second
          <5> QED
            BY <1>1, <3>3
        <4>2. second[i] = first[i] /\ first[i] = all[i]
          BY <3>3
        <4> QED
          BY <1>4, <4>1, <4>2 DEF Replaced
      <3> QED
        BY <3>1, <3>2, <3>3
    <2>4. second = [i \in 1 .. n |-> second[i]]
      OBVIOUS
    <2> HIDE DEF second
    <2>5. as = second
      BY <1>1, <2>3, <2>4
    <2>6. first[1] = Eval
      BY <1>4, <2>2 DEF Replaced
    <2> QED
      BY <1>2, <2>1, <2>5, <2>6 DEF second
  <1> QED
    BY <1>3, <1>4 DEF Complete, Copied

\* Nothing is sent without a plan, and no plan is made without workspace: the
\* arguments of what is sent have not been lost.
LEMMA RunSends ==
    ASSUME NEW c, NEW q, NEW w \in 0 .. Workspace, NEW h, NEW f,
           Matches(c, w, q), Run(c, q, w, h, f)
    PROVE  ws' \in 0 .. Workspace /\ Matches(command', ws', q) /\ SentAsAsked'
  <1> DEFINE argv == c.argv
             all == q.argv
             v == ws'
  <1>run. PICK sent \in BOOLEAN, r \in (Addresses \ DOMAIN h) \union {Null},
             as \in {c.argv, Substituted(c.argv)} :
          \E left \in LeftIn(c.argv, as) :
            LET unscripted == as # c.argv /\ left # as
                reply == IF unscripted THEN Null ELSE r
            IN  /\ sent => Null \notin ToSet(c.argv)
                /\ as # c.argv \/ r # Null => sent
                /\ r # Null => left = as \/ unscripted
                /\ unscripted => r # Null
                /\ command' = [c EXCEPT !.argv = left, !.reply = reply]
                /\ IF r = Null
                   THEN heap' = h
                   ELSE \E x \in Replies :
                          heap' = [a \in DOMAIN h \union {r} |-> IF a = r THEN x ELSE h[a]]
                /\ forgotten' = f \union (IF unscripted THEN {r} ELSE {})
                /\ ws' \in Planned(w) \union (IF sent THEN {} ELSE {w})
                /\ last' = [of |-> q, sent |-> sent, as |-> Sent(c, as), reply |-> reply]
    BY Zenon DEF Run
  <1>left. PICK left \in LeftIn(c.argv, as) :
          LET unscripted == as # c.argv /\ left # as
              reply == IF unscripted THEN Null ELSE r
          IN  /\ sent => Null \notin ToSet(c.argv)
              /\ as # c.argv \/ r # Null => sent
              /\ r # Null => left = as \/ unscripted
              /\ unscripted => r # Null
              /\ command' = [c EXCEPT !.argv = left, !.reply = reply]
              /\ IF r = Null
                 THEN heap' = h
                 ELSE \E x \in Replies :
                        heap' = [a \in DOMAIN h \union {r} |-> IF a = r THEN x ELSE h[a]]
              /\ forgotten' = f \union (IF unscripted THEN {r} ELSE {})
              /\ ws' \in Planned(w) \union (IF sent THEN {} ELSE {w})
              /\ last' = [of |-> q, sent |-> sent, as |-> Sent(c, as), reply |-> reply]
    BY <1>run
  <1> DEFINE unscripted == as # c.argv /\ left # as
             reply == IF unscripted THEN Null ELSE r
  <1>1. /\ sent => Null \notin ToSet(argv)
        /\ as # argv => sent
        /\ v \in Planned(w) \union (IF sent THEN {} ELSE {w})
        /\ last' = [of |-> q, sent |-> sent, as |-> Sent(c, as), reply |-> reply]
    BY <1>left
  <1>2. /\ as \in {argv, Substituted(argv)} /\ left \in LeftIn(argv, as)
        /\ command' = [c EXCEPT !.argv = left, !.reply = reply]
        /\ reply \in Addresses \union {Null}
    BY <1>left
  <1> HIDE DEF unscripted, reply
  <1>3. argv \in Seq(Pointers) /\ all \in Seq(Strings) /\ Following(argv, w, all, Len(all))
    BY DEF Matches, Command, Pointers
  <1>4. v \in Planned(w) => w # 0 /\ v \in 0 .. Workspace /\ v <= w
    BY NumbersAssumption DEF Planned
  <1>5. v \in 0 .. Workspace /\ (v # 0 => w # 0) /\ (sent => w # 0)
    BY <1>1, <1>4, NumbersAssumption
  <1>6. /\ last'.of = q /\ last'.sent = sent
        /\ last'.as.argv = as
        /\ last'.as = [db |-> c.db, timeout |-> c.timeout, retries |-> c.max_retries,
                       argv |-> as]
    BY <1>1 DEF Sent
  <1> HIDE DEF argv, all, v
  <1>7. sent => NoNull(argv)
    BY <1>1, <1>3 DEF NoNull, ToSet
  <1>8. /\ as \in Seq(Pointers) /\ Len(as) = Len(argv)
        /\ sent => Complete(as, all, Len(all))
    <2>1. sent => Complete(argv, all, Len(all))
      BY <1>3, <1>5, <1>7 DEF Following
    <2>2. CASE as = argv
      BY <1>3, <2>1, <2>2
    <2>3. CASE as # argv
      <3>1. as = Substituted(argv) /\ NoNull(argv) /\ Complete(argv, all, Len(all))
        BY <1>1, <1>2, <1>7, <2>1, <2>3
      <3>2. as \in Seq(Pointers) /\ Len(as) = Len(argv) /\ Copied(as, all)
        BY <1>3, <3>1, SubstitutedCopy DEF Complete
      <3> QED
        BY <3>1, <3>2 DEF Complete
    <2> QED
      BY <2>2, <2>3
  <1>9. /\ left \in Seq(Pointers) /\ Len(left) = Len(argv)
        /\ left = as \/ ~NoNull(left)
    BY <1>2, <1>3, <1>8, LeftOver
  <1>10. Following(left, v, all, Len(all))
    <2>1. Len(left) <= MaxArgs
      BY <1>3, <1>9 DEF Following
    <2>2. ASSUME v # 0, NoNull(left) PROVE Complete(left, all, Len(all))
      <3>1. left = as
        BY <1>9, <2>2
      <3>2. CASE sent
        BY <1>8, <3>1, <3>2
      <3>3. CASE ~sent
        <4>1. left = argv /\ w # 0
          BY <1>1, <1>5, <2>2, <3>1, <3>3
        <4> QED
          BY <1>3, <2>2, <4>1 DEF Following
      <3> QED
        BY <3>2, <3>3
    <2> QED
      BY <2>1, <2>2 DEF Following
  <1>11. Matches(command', v, q)
    <2>1. /\ command' \in Command /\ command'.argv = left
          /\ command'.db = c.db /\ command'.timeout = c.timeout
          /\ command'.max_retries = c.max_retries
      BY <1>2, <1>9 DEF Matches, Command, Pointers
    <2>2. Following(command'.argv, v, q.argv, Len(q.argv))
      BY <1>10, <2>1 DEF all
    <2> QED
      BY <2>1, <2>2 DEF Matches
  <1>12. ASSUME sent PROVE SentAsAsked'
    <2>1. [q EXCEPT !.argv = as]
            = [db |-> q.db, timeout |-> q.timeout, retries |-> q.retries, argv |-> as]
      BY OtherArguments DEF Matches
    <2>2. [q EXCEPT !.argv = as]
            = [db |-> c.db, timeout |-> c.timeout, retries |-> c.max_retries, argv |-> as]
      BY <2>1 DEF Matches
    <2>3. last'.as = [last'.of EXCEPT !.argv = last'.as.argv]
      BY <1>6, <2>2
    <2>4. last'.of.argv = all
      BY <1>6 DEF all
    <2> DEFINE of == last'.of
               sentas == last'.as.argv
    <2>5. /\ sentas \in Seq(Pointers) /\ of.argv \in Seq(Strings)
          /\ Complete(sentas, of.argv, Len(of.argv))
      BY <1>3, <1>6, <1>8, <1>12, <2>4
    <2> HIDE DEF of, sentas
    <2>6. LET n == Len(sentas)
              first == [i \in 1 .. n |-> of.argv[i]]
          IN  /\ n \in {Len(of.argv), MaxArgs}
              /\ \/ sentas = first
                 \/ /\ n >= 2 /\ first[1] = Eval
                    /\ sentas = [first EXCEPT ![1] = Evalsha, ![2] = Digest[first[2]]]
      BY <2>5, CompleteIsAsked
    <2> QED
      BY <2>3, <2>6 DEF SentAsAsked, of, sentas
  <1>13. ~sent => SentAsAsked'
    BY <1>6 DEF SentAsAsked
  <1> QED
    BY <1>5, <1>11, <1>12, <1>13 DEF v

\* .command(): settings and arguments are those of the new command.
LEMMA EnqueueArgs ==
    ASSUME ArgsInv, NEW d \in DBs, NEW v \in Values, EnqueueCommand(d, v)
    PROVE  ArgsInv'
  <1>1. UNCHANGED <<used, ws>> /\ command' = Enqueued(d, v) /\ asked' = New(d, v)
    BY DEF EnqueueCommand
  <1>2. Defaults[d].timeout \in Nat /\ Defaults[d].retries \in Nat
    BY DefaultsAssumption
  <1>3. v \in Strings /\ <<v>> \in Seq(Strings) /\ Len(<<v>>) = 1
    BY NamesAssumption
  <1>4. Enqueued(d, v) \in Command
    BY <1>2, <1>3 DEF Enqueued, Command
  <1>5. Following(<<v>>, ws, <<v>>, Len(<<v>>))
    BY <1>3, FirstArgument
  <1>6. Matches(Enqueued(d, v), ws, New(d, v))
    BY <1>3, <1>4, <1>5 DEF Matches, Enqueued, New, IsAsked
  <1>7. SentAsAsked'
    BY DEF EnqueueCommand, NotExecuted, SentAsAsked
  <1> QED
    BY <1>1, <1>6, <1>7 DEF ArgsInv

\* .timeout() and .retries().
LEMMA SettingsArgs ==
    ASSUME ArgsInv, NEW d, NEW n \in Settings, SetTimeout(d, n) \/ SetRetries(d, n)
    PROVE  ArgsInv'
  <1>1. UNCHANGED <<used, ws, last>> /\ n \in Nat
    BY DefaultsAssumption DEF SetTimeout, SetRetries
  <1>2. /\ command' \in Command /\ IsAsked(asked')
        /\ command'.argv = command.argv /\ asked'.argv = asked.argv
        /\ asked'.db = command'.db /\ asked'.timeout = command'.timeout
        /\ asked'.retries = command'.max_retries
    <2>1. CASE SetTimeout(d, n)
      BY <1>1, <2>1 DEF SetTimeout, ArgsInv, Matches, Command, IsAsked
    <2>2. CASE SetRetries(d, n)
      BY <1>1, <2>2 DEF SetRetries, ArgsInv, Matches, Command, IsAsked
    <2> QED
      BY <2>1, <2>2
  <1>3. Matches(command', ws, asked')
    BY <1>2 DEF ArgsInv, Matches
  <1> QED
    BY <1>1, <1>3 DEF ArgsInv, SentAsAsked

\* .push().
LEMMA PushArgs ==
    ASSUME ArgsInv, NEW d, NEW arg \in Values \union {Null}, Push(d, arg)
    PROVE  ArgsInv'
  <1> DEFINE p == [argv |-> command.argv, ws |-> ws]
             all == asked.argv
             more == Append(all, Arg(arg))
             m == Len(all)
             new == Pushed(p, arg)
  <1>1. /\ command' = [command EXCEPT !.argv = new.argv] /\ ws' = new.ws
        /\ asked' = [asked EXCEPT !.argv = more]
        /\ used' = used /\ last' = last
    BY DEF Push
  <1>2. p \in Places
    BY DEF Places, ArgsInv, Matches, Command, Pointers
  <1>3. all \in Seq(Strings) /\ Arg(arg) \in Strings /\ m \in Nat
    BY NamesAssumption DEF ArgsInv, Matches, Arg
  <1>4. /\ more \in Seq(Strings) /\ Len(more) = m + 1 /\ more[m + 1] = Arg(arg)
        /\ \A i \in 1 .. m : more[i] = all[i]
    BY <1>3, AppendProperties
  <1>5. Following(p.argv, p.ws, all, m)
    BY DEF ArgsInv, Matches
  <1>6. Following(p.argv, p.ws, more, m)
    <2> DEFINE argv == p.argv
               w == p.ws
    <2>1. Len(argv) <= MaxArgs /\ Len(argv) \in Nat
      BY <1>2, <1>5 DEF Following, Places
    <2>2. w # 0 /\ NoNull(argv) =>
            Len(argv) = (IF m < MaxArgs THEN m ELSE MaxArgs) /\ Copied(argv, all)
      BY <1>5 DEF Following, Complete
    <2>3. argv \in Seq(Pointers)
      BY <1>2 DEF Places
    <2> HIDE DEF argv, w, all, m, more
    <2>4. ASSUME w # 0, NoNull(argv) PROVE Copied(argv, more)
      <3>1. \A i \in 1 .. Len(argv) : i \in 1 .. m
        BY <1>3, <2>1, <2>2, <2>4, NumbersAssumption
      <3>2. \A i \in 1 .. Len(argv) : more[i] = all[i]
        BY <1>4, <3>1
      <3> QED
        BY <2>2, <2>3, <2>4, <3>2, CopiedSame
    <2>5. Following(argv, w, more, m)
      BY <2>1, <2>2, <2>4 DEF Following, Complete
    <2> QED
      BY <2>5 DEF argv, w
  <1> HIDE DEF p, more, m, new
  <1>7. new \in Places /\ Following(new.argv, new.ws, more, m + 1)
    BY <1>2, <1>3, <1>4, <1>6, PushFollows DEF new
  <1>8. /\ command' \in Command /\ command'.argv = new.argv /\ command'.db = command.db
        /\ command'.timeout = command.timeout /\ command'.max_retries = command.max_retries
    BY <1>1, <1>7 DEF ArgsInv, Matches, Command, Places, Pointers
  <1>9. /\ IsAsked(asked') /\ asked'.argv = more /\ asked'.db = asked.db
        /\ asked'.timeout = asked.timeout /\ asked'.retries = asked.retries
    BY <1>1 DEF ArgsInv, Matches, IsAsked
  <1>10. ws' \in 0 .. Workspace
    BY <1>1, <1>7 DEF Places
  <1>11. Following(command'.argv, ws', asked'.argv, Len(asked'.argv))
    BY <1>1, <1>4, <1>7, <1>8, <1>9, Zenon
  <1>12. Matches(command', ws', asked')
    BY <1>4, <1>8, <1>9, <1>11 DEF ArgsInv, Matches
  <1>13. SentAsAsked'
    BY <1>1 DEF ArgsInv, SentAsAsked
  <1> QED
    BY <1>1, <1>10, <1>12, <1>13 DEF ArgsInv

\* .execute().
LEMMA ExecuteArgs ==
    ASSUME ArgsInv, NEW d, Execute(d)
    PROVE  ArgsInv'
  <1> DEFINE f == forgotten \union ({command.reply} \ {Null})
  <1>1. Run(command, asked, ws, heap, f) /\ used' = used /\ asked' = asked
    BY DEF Execute
  <1>2. ws \in 0 .. Workspace /\ Matches(command, ws, asked)
    BY DEF ArgsInv
  <1> HIDE DEF f
  <1>3. ws' \in 0 .. Workspace /\ Matches(command', ws', asked) /\ SentAsAsked'
    BY <1>1, <1>2, RunSends
  <1> QED
    BY <1>1, <1>3 DEF ArgsInv

\* .easy_execute().
LEMMA EasyArgs ==
    ASSUME ArgsInv, NEW d \in DBs, NEW v \in Values, NEW args \in Seq(Values \union {Null}),
           NEW t \in Nat, NEW r \in Nat, EasyExecute(d, v, args, t, r)
    PROVE  ArgsInv'
  <1> DEFINE o == [argv |-> <<v>>, ws |-> ws]
             p == PushedAll(o, args)
             tail == [i \in DOMAIN args |-> Arg(args[i])]
             all == <<v>> \o tail
             q == [db |-> d, timeout |-> t, retries |-> r, argv |-> all]
             c == [Enqueued(d, v) EXCEPT !.argv = p.argv, !.timeout = t, !.max_retries = r]
  <1>1. asked' = q /\ Run(c, q, p.ws, HeapFlushed, forgotten) /\ used' = used
    BY DEF EasyExecute
  <1>2. v \in Strings /\ <<v>> \in Seq(Strings) /\ Len(<<v>>) = 1 /\ <<v>>[1] = v
    BY NamesAssumption
  <1>3. o \in Places /\ o.argv = <<v>> /\ o.ws = ws
    BY <1>2 DEF ArgsInv, Places, Pointers
  <1>4. /\ tail \in Seq(Strings) /\ Len(tail) = Len(args) /\ Len(args) \in Nat
        /\ \A i \in 1 .. Len(args) : tail[i] = Arg(args[i])
    <2>1. DOMAIN args = 1 .. Len(args) /\ Len(args) \in Nat
      OBVIOUS
    <2>2. \A i \in 1 .. Len(args) : Arg(args[i]) \in Strings
      BY NamesAssumption DEF Arg
    <2> QED
      BY <2>1, <2>2
  <1> HIDE DEF tail
  <1>5. /\ all \in Seq(Strings) /\ Len(all) = 1 + Len(args)
        /\ all[1] = v /\ \A n \in 1 .. Len(args) : all[1 + n] = Arg(args[n])
    <2>1. /\ all \in Seq(Strings) /\ Len(all) = 1 + Len(args)
          /\ \A i \in 1 .. 1 + Len(args) :
               all[i] = IF i <= 1 THEN <<v>>[i] ELSE tail[i - 1]
      BY <1>2, <1>4, ConcatProperties
    <2>2. all[1] = v
      BY <1>2, <1>4, <2>1
    <2>3. ASSUME NEW n \in 1 .. Len(args) PROVE all[1 + n] = Arg(args[n])
      <3>1. 1 + n \in 1 .. 1 + Len(args) /\ ~(1 + n <= 1) /\ (1 + n) - 1 = n
        BY <1>4
      <3>2. all[1 + n] = tail[n]
        BY <2>1, <3>1
      <3> QED
        BY <1>4, <3>2
    <2> QED
      BY <2>1, <2>2, <2>3
  <1> HIDE DEF all
  <1>6. Following(o.argv, o.ws, all, 1)
    BY <1>2, <1>3, <1>5, NumbersAssumption DEF Following, Complete, Copied, Plain
  <1> HIDE DEF o
  <1>7. p \in Places /\ Following(p.argv, p.ws, all, 1 + Len(args))
    BY <1>3, <1>5, <1>6, PushedAllFollows
  <1> HIDE DEF p
  <1>8. /\ IsCommand(c) /\ c.db = d /\ c.timeout = t /\ c.max_retries = r
        /\ c.argv = p.argv /\ c.reply = Null
    BY DEF IsCommand, Enqueued
  <1>9. p.argv \in Seq(Strings \union {Null}) /\ p.ws \in 0 .. Workspace
    BY <1>7 DEF Places, Pointers
  <1>10. c \in Command /\ c.argv = p.argv /\ c.db = d /\ c.timeout = t /\ c.max_retries = r
    BY <1>8, <1>9 DEF Command, IsCommand
  <1>11. IsAsked(q) /\ q.argv = all /\ q.db = d /\ q.timeout = t /\ q.retries = r
    BY DEF IsAsked
  <1> HIDE DEF q, c
  <1>12. Following(c.argv, p.ws, q.argv, Len(q.argv))
    BY <1>5, <1>7, <1>10, <1>11, Zenon
  <1>13. Matches(c, p.ws, q)
    BY <1>5, <1>10, <1>11, <1>12 DEF Matches
  <1>14. ws' \in 0 .. Workspace /\ Matches(command', ws', q) /\ SentAsAsked'
    BY <1>1, <1>9, <1>13, RunSends
  <1> QED
    BY <1>1, <1>14 DEF ArgsInv

\* .free(), redis.use() and the end of the task.
LEMMA FlushArgs ==
    ASSUME ArgsInv, FreeReply \/ (\E d \in DBs \union {NoDB} : Use(d)) \/ EndTask
    PROVE  ArgsInv'
  <1>1. command' = Flushed /\ asked' = Nothing /\ last' = NotExecuted
    BY DEF FreeReply, Use, EndTask, Flush
  <1>2. used' \in DBs \union {NoDB} /\ ws' \in 0 .. Workspace
    BY NumbersAssumption DEF FreeReply, Use, EndTask, ArgsInv
  <1>3. Matches(Flushed, ws', Nothing)
    BY NumbersAssumption DEF Matches, Flushed, Nothing, Command, IsAsked, Following, Complete, Copied, Plain
  <1>4. SentAsAsked'
    BY <1>1 DEF NotExecuted, SentAsAsked
  <1> QED
    BY <1>1, <1>2, <1>3, <1>4 DEF ArgsInv

\* The rest of the VCL.
LEMMA SpendArgs ==
    ASSUME ArgsInv, SpendWorkspace
    PROVE  ArgsInv'
  <1> DEFINE v == ws'
  <1>1. v \in 0 .. Workspace /\ v <= ws
    BY NumbersAssumption DEF SpendWorkspace, ArgsInv
  <1> HIDE DEF v
  <1>2. Matches(command, v, asked)
    BY <1>1, MatchesLess DEF ArgsInv
  <1> QED
    BY <1>1, <1>2 DEF v, SpendWorkspace, ArgsInv, SentAsAsked

\* What is enqueued is what was asked for, whatever the VCL calls.
THEOREM ArgumentsInvariance == Spec => []ArgsInv
  <1>1. Init => ArgsInv
    <2> SUFFICES ASSUME Init PROVE ArgsInv
      OBVIOUS
    <2>1. Matches(Flushed, Workspace, Nothing)
      BY NumbersAssumption DEF Matches, Flushed, Nothing, Command, IsAsked, Following, Complete, Copied, Plain
    <2> QED
      BY <2>1, NumbersAssumption DEF Init, ArgsInv, SentAsAsked, NotExecuted
  <1>2. ArgsInv /\ [Next]_vars => ArgsInv'
    <2> SUFFICES ASSUME ArgsInv, [Next]_vars PROVE ArgsInv'
      OBVIOUS
    <2>1. ASSUME NEW d \in {Instance(name) : name \in DBs \union {NoDB}} \ {NoDB},
                 \/ \E v \in Values : EnqueueCommand(d, v)
                 \/ \E n \in Settings : SetTimeout(d, n) \/ SetRetries(d, n)
                 \/ \E v \in Values \union {Null} : Push(d, v)
                 \/ Execute(d)
                 \/ \E v \in Values, args \in SeqOf(Values \union {Null}, MaxEasy),
                       t \in Settings \union {Defaults[d].timeout},
                       r \in Settings \union {Defaults[d].retries} :
                      EasyExecute(d, v, args, t, r)
          PROVE  ArgsInv'
      <3>1. d \in DBs
        BY <2>1 DEF Instance, ArgsInv
      <3>2. Defaults[d].timeout \in Nat /\ Defaults[d].retries \in Nat /\ Settings \subseteq Nat
        BY <3>1, DefaultsAssumption
      <3>3. CASE \E v \in Values : EnqueueCommand(d, v)
        BY <3>1, <3>3, EnqueueArgs
      <3>4. CASE \E n \in Settings : SetTimeout(d, n) \/ SetRetries(d, n)
        BY <3>4, SettingsArgs
      <3>5. CASE \E v \in Values \union {Null} : Push(d, v)
        BY <3>5, PushArgs
      <3>6. CASE Execute(d)
        BY <3>6, ExecuteArgs
      <3>7. CASE \E v \in Values, args \in SeqOf(Values \union {Null}, MaxEasy),
                    t \in Settings \union {Defaults[d].timeout},
                    r \in Settings \union {Defaults[d].retries} :
                   EasyExecute(d, v, args, t, r)
        <4>1. PICK v \in Values, args \in SeqOf(Values \union {Null}, MaxEasy),
                   t \in Settings \union {Defaults[d].timeout},
                   r \in Settings \union {Defaults[d].retries} :
                     EasyExecute(d, v, args, t, r)
          BY <3>7
        <4>2. t \in Nat /\ r \in Nat
          BY <3>2
        <4>3. args \in Seq(Values \union {Null})
          <5>1. PICK n \in 0 .. MaxEasy : args \in [1 .. n -> Values \union {Null}]
            BY DEF SeqOf
          <5>2. n \in Nat
            BY NumbersAssumption
          <5> QED
            BY <5>1, <5>2, SeqDef
        <4> QED
          BY <3>1, <4>1, <4>2, <4>3, EasyArgs
      <3> QED
        BY <2>1, <3>3, <3>4, <3>5, <3>6, <3>7
    <2>2. CASE FreeReply \/ (\E d \in DBs \union {NoDB} : Use(d)) \/ EndTask
      BY <2>2, FlushArgs
    <2>3. CASE SpendWorkspace
      BY <2>3, SpendArgs
    <2>4. CASE UNCHANGED vars
      BY <2>4 DEF vars, ArgsInv, SentAsAsked
    <2> QED
      BY <2>1, <2>2, <2>3, <2>4 DEF Next
  <1> QED
    BY <1>1, <1>2, PTL DEF Spec

\* Types, and the bound of argv[], whatever is pushed.
THEOREM TypeCorrect == Spec => []TypeOK
  <1>1. TaskInv /\ ArgsInv => TypeOK
    BY DEF TaskInv, IsHeap, ArgsInv, Matches, Following, TypeOK
  <1> QED
    BY <1>1, Invariance, ArgumentsInvariance, PTL

\* What reaches a server is what the VCL asked for, whatever the workspace.
THEOREM SentFaithfully == Spec => []SentAsAsked
  <1>1. ArgsInv => SentAsAsked
    BY DEF ArgsInv
  <1> QED
    BY <1>1, ArgumentsInvariance, PTL
=============================================================================
