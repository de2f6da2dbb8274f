------------------------------ MODULE TaskState ------------------------------
(***************************************************************************)
(* What a VCL task does with its execution state: task_state_t (core.h)    *)
(* and the methods of vmod_redis.c that build a command, execute it and    *)
(* read its reply.  There is one state per task for all the databases of   *)
(* the VCL, and the methods may be called in any order.                    *)
(*                                                                         *)
(* How a command is executed is in CommandExecution: here it is sent or    *)
(* not, replied or not, and what it leaves in argv, which redis_execute()  *)
(* overwrites, is what the next .execute() starts from.  A method that     *)
(* only logs an error is no step.  Functions of the VMOD called with the   *)
(* name of a database, or after redis.use(), are calls of the methods.     *)
(***************************************************************************)
EXTENDS Integers, Sequences, SequencesExt

CONSTANTS
    DBs,        \* database instances
    NoDB,       \* the NULL pointer to a database
    Strings,    \* strings (up to the case of their letters)
    Values,     \* those of the VCL: names of commands and arguments
    Blank,      \* the empty string
    Eval,       \* "EVAL"
    Evalsha,    \* "EVALSHA"
    Digest,     \* the SHA-1 digest of each string
    Null,       \* the NULL pointer to a string or to a reply
    Defaults,   \* timeout and number of retries of each database
    Settings,   \* what .timeout() and .retries() are called with
    Replies,    \* what servers reply: its type, and those of its elements
    Addresses,  \* heap addresses of replies (bound: replies at a time)
    MaxArgs,    \* MAX_REDIS_COMMAND_ARGS
    Workspace,  \* bytes of workspace a task starts with
    PlanSize,   \* those an execution needs for its plan
    MaxEasy,    \* bound: arguments of .easy_execute() (16 in the code)
    Width       \* VCL_INT and size_t are numbers modulo Width

ASSUME NamesAssumption ==
    /\ NoDB \notin DBs
    /\ Null \notin Addresses
    /\ Values \union {Blank, Eval, Evalsha} \subseteq Strings
    /\ Null \notin Strings
    /\ Eval # Evalsha
    /\ Digest \in [Strings -> Strings]

ASSUME DefaultsAssumption ==
    Defaults \in [DBs -> [timeout : Nat, retries : Nat]] /\ Settings \subseteq Nat

\* No reply has as many elements as the largest VCL_INT.
ASSUME RepliesAssumption ==
    \A r \in Replies :
        /\ r = [type |-> r.type, elements |-> r.elements]
        /\ r.elements \in Seq(STRING)
        /\ Len(r.elements) <= Width \div 2

ASSUME NumbersAssumption ==
    /\ MaxArgs \in Nat \ {0}
    /\ Workspace \in Nat
    /\ PlanSize \in Nat \ {0}
    /\ MaxEasy \in Nat
    /\ Width \in Nat \ {0}

VARIABLES
    used,     \* state->db
    command,  \* state->command, with argv as a sequence of argc strings
    heap,     \* the replies that have been allocated and not freed
    ws,       \* free workspace of the task
    asked,    \* history: the command that the VCL has put together
    last,     \* history: its last execution
    forgotten \* history: replies nothing points to any more, and not freed

vars == <<used, command, heap, ws, asked, last, forgotten>>

-----------------------------------------------------------------------------
(***************************************************************************)
(* Values.                                                                 *)
(***************************************************************************)

Command == [db : DBs \union {NoDB}, timeout : Nat, max_retries : Nat,
            argv : Seq(Strings \union {Null}), reply : Addresses \union {Null}]

\* flush_task_state(); it is also what new_task_state() starts with.
Flushed ==
    [db |-> NoDB, timeout |-> 0, max_retries |-> 0, argv |-> << >>, reply |-> Null]

\* Mutant of HeapFlushed: freeReplyObject() is forgotten.
HeapLeaked == heap

\* The heap once the reply is freed.
HeapFlushed == [a \in DOMAIN heap \ {command.reply} |-> heap[a]]

\* The command of which nothing has been asked, and of which nothing was sent.
Nothing == [db |-> NoDB, timeout |-> 0, retries |-> 0, argv |-> << >>]
NotExecuted == [of |-> Nothing, sent |-> FALSE, as |-> Nothing, reply |-> Null]

\* The enqueued command as it is sent with the arguments of argv.
Sent(c, argv) == [db |-> c.db, timeout |-> c.timeout, retries |-> c.max_retries, argv |-> argv]

-----------------------------------------------------------------------------
(***************************************************************************)
(* Methods that build a command.                                           *)
(***************************************************************************)

\* Mutant of Enqueued: the state is not flushed first.
EnqueuedUnflushed(d, name) ==
    [db |-> d, timeout |-> Defaults[d].timeout, max_retries |-> Defaults[d].retries,
     argv |-> <<name>>, reply |-> command.reply]

\* What .command() leaves in the state.
Enqueued(d, name) ==
    [db |-> d, timeout |-> Defaults[d].timeout, max_retries |-> Defaults[d].retries,
     argv |-> <<name>>, reply |-> Null]

\* The VCL asks for a new command of d.
New(d, name) ==
    [db |-> d, timeout |-> Defaults[d].timeout, retries |-> Defaults[d].retries,
     argv |-> <<name>>]

\* validate_command_state().
Valid(d) == Len(command.argv) >= 1 /\ command.db = d

\* .command(): an empty name changes nothing.
EnqueueCommand(d, name) ==
    /\ name # Blank
    /\ command' = Enqueued(d, name)
    /\ heap' = HeapFlushed
    /\ asked' = New(d, name)
    /\ last' = NotExecuted
    /\ UNCHANGED <<used, ws, forgotten>>

\* .timeout() and .retries().
SetTimeout(d, n) ==
    /\ Valid(d)
    /\ command' = [command EXCEPT !.timeout = n]
    /\ asked' = [asked EXCEPT !.timeout = n]
    /\ UNCHANGED <<used, heap, ws, last, forgotten>>

SetRetries(d, n) ==
    /\ Valid(d)
    /\ command' = [command EXCEPT !.max_retries = n]
    /\ asked' = [asked EXCEPT !.retries = n]
    /\ UNCHANGED <<used, heap, ws, last, forgotten>>

\* The arguments that the VCL asks for.
Arg(arg) == IF arg = Null THEN Blank ELSE arg

\* Mutant of Pushed: one argument too many is stored.
PushedOver(p, arg) == [argv |-> Append(p.argv, Arg(arg)), ws |-> p.ws]

\* .push() to the arguments and in the workspace of p.  NULL is copied to the
\* workspace as an empty string, of one byte, which may fail; what is pushed
\* beyond the limit is dropped.
Pushed(p, arg) ==
    CASE Len(p.argv) >= MaxArgs -> p
      [] Len(p.argv) < MaxArgs /\ arg # Null -> [p EXCEPT !.argv = Append(@, arg)]
      [] Len(p.argv) < MaxArgs /\ arg = Null /\ p.ws > 0 ->
           [argv |-> Append(p.argv, Blank), ws |-> p.ws - 1]
      [] OTHER -> p

\* The pushes of .easy_execute(), one after the other.
PushedAll(p, args) ==
    LET pushed[n \in 0 .. Len(args)] ==
          IF n = 0 THEN p ELSE Pushed(pushed[n - 1], args[n])
    IN  pushed[Len(args)]

Push(d, arg) ==
    /\ Valid(d)
    /\ Len(asked.argv) <= MaxArgs
    /\ LET p == Pushed([argv |-> command.argv, ws |-> ws], arg)
       IN  /\ command' = [command EXCEPT !.argv = p.argv]
           /\ ws' = p.ws
    /\ asked' = [asked EXCEPT !.argv = Append(@, Arg(arg))]
    /\ UNCHANGED <<used, heap, last, forgotten>>

-----------------------------------------------------------------------------
(***************************************************************************)
(* Executions.                                                             *)
(***************************************************************************)

\* new_execution_plan() and what follows it: the workspace an execution may
\* leave of w bytes.  Without room for a plan there is none, and nothing is sent.
Planned(w) == 0 .. w - PlanSize

\* "When executing EVAL commands, first try with EVALSHA."
IsEval(argv) == Len(argv) >= 2 /\ argv[1] = Eval

\* Mutant of Substituted: the name of the command is not replaced.
SubstitutedScript(argv) ==
    IF IsEval(argv) THEN [argv EXCEPT ![2] = Digest[@]] ELSE argv

\* The arguments once EVAL has been replaced by EVALSHA.
Substituted(argv) ==
    IF IsEval(argv) THEN [argv EXCEPT ![1] = Evalsha, ![2] = Digest[@]] ELSE argv

\* What redis_execute() may leave in argv when "sent" is what it sent last:
\* that, or what it was about to replace when the workspace was exhausted
\* (EVAL by EVALSHA, then the script by its digest; or EVALSHA by EVAL again).
LeftIn(argv, sent) ==
    {sent} \union
    IF ~IsEval(argv) THEN {}
    ELSE {[sent EXCEPT ![1] = Null]} \union
         (IF sent = argv THEN {[argv EXCEPT ![1] = Evalsha, ![2] = Null]} ELSE {})

\* redis_execute() or cluster_execute() of command c, asked for as q, with w
\* bytes of workspace, while h are the replies in the heap and f those that
\* were forgotten.  It sends "as", if anything, and gets reply r, if any; if
\* that is a NOSCRIPT and EVAL does not fit in the workspace, it is forgotten.
\* The process dies if what it is about to send has a NULL.
Run(c, q, w, h, f) ==
    \E sent \in BOOLEAN, r \in (Addresses \ DOMAIN h) \union {Null},
       as \in {c.argv, Substituted(c.argv)} :
      \E left \in LeftIn(c.argv, as) :
        LET unscripted == as # c.argv /\ left # as
            reply == IF unscripted THEN Null ELSE r
        IN  /\ sent => Null \notin ToSet(c.argv)
            /\ as # c.argv \/ r # Null => sent
            /\ r # Null => left = as \/ unscripted
            /\ unscripted => r # Null
            /\ command' = [c EXCEPT !.argv = left, !.reply = reply]
            /\ IF r = Null
               THEN heap' = h
               ELSE \E x \in Replies :
                      heap' = [a \in DOMAIN h \union {r} |-> IF a = r THEN x ELSE h[a]]
            /\ forgotten' = f \union (IF unscripted THEN {r} ELSE {})
            /\ ws' \in Planned(w) \union (IF sent THEN {} ELSE {w})
            /\ last' = [of |-> q, sent |-> sent, as |-> Sent(c, as), reply |-> reply]

\* .execute(): its result is stored over the reply of an earlier one.
Execute(d) ==
    /\ Valid(d)
    /\ Run(command, asked, ws, heap, forgotten \union ({command.reply} \ {Null}))
    /\ UNCHANGED <<used, asked>>

\* .easy_execute() with arguments: .command(), .push() of each one, .timeout(),
\* .retries() and .execute(), whatever becomes of the pushes.
EasyExecute(d, name, args, timeout, retries) ==
    /\ name # Blank
    /\ LET p == PushedAll([argv |-> <<name>>, ws |-> ws], args)
           q == [db |-> d, timeout |-> timeout, retries |-> retries,
                 argv |-> <<name>> \o [i \in DOMAIN args |-> Arg(args[i])]]
       IN  /\ asked' = q
           /\ Run([Enqueued(d, name) EXCEPT !.argv = p.argv, !.timeout = timeout,
                                            !.max_retries = retries],
                  q, p.ws, HeapFlushed, forgotten)
    /\ UNCHANGED used

-----------------------------------------------------------------------------
(***************************************************************************)
(* Methods that discard the command and its reply.                         *)
(***************************************************************************)

Flush ==
    /\ command' = Flushed
    /\ asked' = Nothing
    /\ last' = NotExecuted

\* .free() of any database.
FreeReply ==
    /\ Flush
    /\ heap' = HeapFlushed
    /\ UNCHANGED <<used, ws, forgotten>>

\* redis.use(), of a database or of a name that no database has.
Use(d) ==
    /\ Flush
    /\ heap' = HeapFlushed
    /\ used' = d
    /\ UNCHANGED <<ws, forgotten>>

\* fini_task_state(): the state and its reply are freed, forgotten replies are
\* not, and the next task starts afresh.
EndTask ==
    /\ Flush
    /\ heap' = HeapFlushed
    /\ used' = NoDB
    /\ ws' = Workspace
    /\ UNCHANGED forgotten

\* The rest of the VCL, and accessors that return strings, use the workspace.
SpendWorkspace ==
    /\ ws' \in 0 .. ws - 1
    /\ UNCHANGED <<used, command, heap, asked, last, forgotten>>

\* The database that a function of the VMOD acts upon.
Instance(name) == IF name = NoDB THEN used ELSE name

-----------------------------------------------------------------------------
(***************************************************************************)
(* Accessors of the reply, for a caller that means database d.             *)
(***************************************************************************)

\* .replied(), and the first condition of all the others.
Replied(d) == command.db = d /\ command.reply # Null

Reply == heap[command.reply]

\* .reply_is_error() ... .reply_is_array(): verbatim strings are strings, maps
\* and sets are arrays.
KindOf(type) ==
    CASE type = "verb" -> "string"
      [] type \in {"map", "set"} -> "array"
      [] OTHER -> type

ReplyIs(d, kind) == Replied(d) /\ KindOf(Reply.type) = kind

\* .get_array_reply_length().
ArrayReplyLength(d) == IF ReplyIs(d, "array") THEN Len(Reply.elements) ELSE 0

\* Mutant of Below: a comparison of signed numbers.
BelowSigned(index, n) == index < n

\* index < reply->elements: a VCL_INT is compared with a size_t.
Below(index, n) == index % Width < n

\* .array_reply_is_error() ... .array_reply_is_array() look at an element;
\* maps and sets are not arrays for them.
LooksAt(d, index) ==
    Replied(d) /\ Reply.type = "array" /\ Below(index, Len(Reply.elements))

\* .get_array_reply_value() reads an element.
Reads(d, index) == ReplyIs(d, "array") /\ Below(index, Len(Reply.elements))

-----------------------------------------------------------------------------
Init ==
    /\ used = NoDB
    /\ command = Flushed
    /\ heap = [a \in {} |-> {}]
    /\ ws = Workspace
    /\ asked = Nothing
    /\ last = NotExecuted
    /\ forgotten = {}

Next ==
    \/ \E d \in {Instance(name) : name \in DBs \union {NoDB}} \ {NoDB} :
         \/ \E v \in Values : EnqueueCommand(d, v)
         \/ \E n \in Settings : SetTimeout(d, n) \/ SetRetries(d, n)
         \/ \E v \in Values \union {Null} : Push(d, v)
         \/ Execute(d)
         \/ \E v \in Values, args \in SeqOf(Values \union {Null}, MaxEasy),
               t \in Settings \union {Defaults[d].timeout},
               r \in Settings \union {Defaults[d].retries} :
              EasyExecute(d, v, args, t, r)
    \/ FreeReply
    \/ \E d \in DBs \union {NoDB} : Use(d)
    \/ EndTask
    \/ SpendWorkspace

Spec == Init /\ [][Next]_vars

-----------------------------------------------------------------------------
(***************************************************************************)
(* Properties.                                                             *)
(***************************************************************************)

\* Every variable has its type; argv[] never overflows.
TypeOK ==
    /\ used \in DBs \union {NoDB}
    /\ command \in Command
    /\ Len(command.argv) <= MaxArgs
    /\ DOMAIN heap \subseteq Addresses
    /\ \A a \in DOMAIN heap : heap[a] \in Replies
    /\ ws \in 0 .. Workspace

\* "all of them share a single execution state able to hold just one enqueued
\* command and its reply" (vmod_redis.vcc): whatever the VCL does with several
\* databases, an accessor of one of them only ever offers the reply that this
\* very database gave to the command that the VCL asked it for, and of that
\* one the reply of the last .execute().
OwnReply ==
    \A d \in DBs : Replied(d) =>
        /\ asked.db = d
        /\ last.of.db = d
        /\ last.sent
        /\ command.reply = last.reply

\* What reaches a server is what the VCL asked for since .command(), argument
\* by argument up to the limit and with the last settings given, never those
\* of an earlier command: as it was asked for or, if it is an EVAL, as the
\* EVALSHA of the digest of that very script, however often .execute() is
\* repeated with what the one before left in argv.  An argument that got lost
\* because the workspace is full does not turn the command into another one,
\* not even in .easy_execute(), which goes on: there is no room for a plan then
\* either.
SentAsAsked ==
    last.sent =>
        LET n == Len(last.as.argv)
            first == [i \in 1 .. n |-> last.of.argv[i]]
        IN  /\ last.as = [last.of EXCEPT !.argv = last.as.argv]
            /\ n \in {Len(last.of.argv), MaxArgs}
            /\ \/ last.as.argv = first
               \/ /\ n >= 2 /\ first[1] = Eval
                  /\ last.as.argv = [first EXCEPT ![1] = Evalsha, ![2] = Digest[first[2]]]

\* The reply that the state points to has not been freed.  The others have,
\* except for those that an .execute() was repeated over, and a NOSCRIPT that
\* exhausted the workspace: they stay allocated, for ever, in spite of "this
\* will be handled automatically during the next call to .command() ... or when
\* the VCL task finishes" (vmod_redis.vcc, .free()).
RepliesFreed ==
    /\ command.reply \in DOMAIN heap \union {Null}
    /\ DOMAIN heap \ {command.reply} = forgotten

\* Whatever the index, accessors of elements only look at elements there are.
ElementsInBounds ==
    \A d \in DBs, index \in -(Width \div 2) .. (Width \div 2) - 1 :
        LooksAt(d, index) \/ Reads(d, index) => index + 1 \in DOMAIN Reply.elements
=============================================================================
