------------------------------ MODULE SystemCalls ------------------------------
(***************************************************************************)
(* How a program's call reaches the kernel and its answer comes back: the  *)
(* wrappers of software/include/sys.cpp, instruction by instruction, and   *)
(* what handle_system_call makes of the registers.                         *)
(*                                                                         *)
(* A wrapper is a fastcall function: its first two arguments come in ecx   *)
(* and edx, the third on the stack above the return address, and it must   *)
(* take that one off and leave ebx alone.  The kernel wants the number of  *)
(* the call in ecx and the arguments in edx, eax and ebx, changes eax at   *)
(* most, and restores the rest (module Traps).  Calls whose work other     *)
(* modules model answer with anything here.                                *)
(***************************************************************************)
EXTENDS Integers, Sequences

CONSTANTS
    ArgValues,      \* arguments, other than pointers to names and texts
    MaxName,        \* the longest name that call 10 takes, 2048
    MaxText         \* the longest text that call 12 prints, 1024

ASSUME SystemCallsAssumption ==
    /\ ArgValues \subseteq Nat /\ ArgValues # {}
    /\ MaxName \in Nat /\ MaxText \in Nat

VARIABLES
    calling,        \* the wrapper that runs and the instruction it is at
    gpr,            \* eax, ebx, ecx and edx of the program
    callStack,      \* the top of its stack, the top first
    received,       \* what the kernel was asked
    replied,        \* what it left in eax
    shell           \* input_mode and pixel_mode of the shell

callVars == <<calling, gpr, callStack, received, replied, shell>>

\* The wrappers: how many arguments they take, the number of the call, and the
\* selector they pass instead of an argument, if any.
Wrapper(name, arity, id, selector) ==
    [name |-> name, arity |-> arity, id |-> id, selector |-> selector]
Wrappers ==
    {Wrapper("fetch_process_id", 0, 1, <<1>>), Wrapper("fetch_thread_id", 0, 1, <<2>>),
     Wrapper("fetch_elapsed_time", 0, 1, <<0>>),
     Wrapper("fetch_graphics_resolution", 0, 1, <<3>>),
     Wrapper("fetch_colour_depth", 0, 1, <<4>>),
     Wrapper("end_process", 1, 2, <<>>), Wrapper("suspend_thread", 1, 3, <<>>),
     Wrapper("end_event", 0, 6, <<>>), Wrapper("register_event_for_thread", 3, 7, <<>>),
     Wrapper("emit_event", 2, 8, <<>>), Wrapper("update_execution_policy", 2, 9, <<>>),
     Wrapper("fetch_process_id_by_string", 2, 10, <<>>), Wrapper("fetch_input", 0, 11, <<0>>),
     Wrapper("printf", 3, 12, <<>>), Wrapper("request_input", 0, 13, <<>>),
     Wrapper("hw_random_sufficient_entropy", 0, 14, <<0>>),
     Wrapper("hw_random_value", 0, 14, <<1>>), Wrapper("create_thread", 2, 15, <<>>),
     Wrapper("kill_thread", 1, 16, <<>>), Wrapper("park_thread", 1, 17, <<>>),
     Wrapper("awake_thread", 1, 18, <<>>), Wrapper("upgrade_graphics", 0, 19, <<>>),
     Wrapper("preempt_thread", 0, 20, <<>>), Wrapper("alloc_virtual_pages", 3, 21, <<>>),
     Wrapper("free_virtual_page", 2, 22, <<>>),
     Wrapper("write_steady_datasink", 3, 23, <<>>),
     Wrapper("read_steady_datasink", 3, 24, <<>>),
     Wrapper("fetch_fragment_size_steady_datasink", 1, 25, <<>>),
     Wrapper("read_fragment_steady_datasink", 2, 26, <<>>)}

Op(name, dst, src) == [op |-> name, dst |-> dst, src |-> src]
Mov(dst, src) == Op("mov", dst, src)
Imm(dst, n) == Op("imm", dst, n)

\* Faulty variant: the number of the call is loaded before the first argument
\* is moved away.
MovesCallFirst(w) ==
    IF w.arity = 0 THEN <<Imm("ecx", w.id)>>
    ELSE IF w.arity = 1 THEN <<Imm("ecx", w.id), Mov("edx", "ecx")>>
    ELSE <<Mov("eax", "edx"), Imm("ecx", w.id), Mov("edx", "ecx")>>

\* Arguments move to where the kernel wants them, the second before the first.
Moves12(w) ==
    (IF w.arity >= 2 THEN <<Mov("eax", "edx")>> ELSE <<>>) \o
    (IF w.arity >= 1 THEN <<Mov("edx", "ecx")>> ELSE <<>>) \o
    <<Imm("ecx", w.id)>> \o
    (IF w.selector # <<>> THEN <<Imm("edx", w.selector[1])>> ELSE <<>>)

\* The third argument goes through ebx, which is saved around the interrupt.
Third(w) ==
    IF w.arity = 3
    THEN <<Op("push", "ebx", 0), Op("arg", "ebx", 3), Op("int", "eax", 0),
           Op("pop", "ebx", 0), Op("ret", "esp", 1)>>
    ELSE <<Op("int", "eax", 0), Op("ret", "esp", 0)>>

CodeOf(w) == Moves12(w) \o Third(w)

\* Register contents that are nobody's arguments.
Junk == -1
Kept == -2
ReturnTo == -3
NoCall == [name |-> "idle", wrapper |-> Wrapper("idle", 0, 0, <<>>), args |-> <<>>, at |-> 0]
Nothing == [id |-> 0, data |-> Junk, data2 |-> Junk, data3 |-> Junk]

CallInit ==
    /\ calling = NoCall
    /\ gpr = [eax |-> Junk, ebx |-> Kept, ecx |-> Junk, edx |-> Junk]
    /\ callStack = <<>>
    /\ received = Nothing /\ replied = Junk
    /\ shell = [input |-> FALSE, pixel |-> FALSE]
-----------------------------------------------------------------------------
(***************************************************************************)
(* The kernel.                                                             *)
(***************************************************************************)

Elapsed == 1001
ProcessId == 1002
ThreadId == 1003
Resolution == 1004
TextBuffer == 1005
Random == 1006
Result == 1007

\* How calls 16 and 17 name the thread that makes them.
Itself == {0, ThreadId}

\* The eax that the handler may leave; one it does not write is the second
\* argument still, as for a thread that parks itself.
Reply(q) ==
    CASE q.id = 1 -> {IF q.data \in 0 .. 4
                        THEN <<Elapsed, ProcessId, ThreadId, Resolution, 32>>[q.data + 1]
                        ELSE q.data2}
      [] q.id = 10 -> {0} \cup IF q.data2 = 0 \/ q.data2 > MaxName THEN {} ELSE {ProcessId}
      [] q.id = 11 -> {TextBuffer}
      [] q.id = 12 -> {0} \cup IF q.data3 = 0 \/ q.data3 > MaxText THEN {} ELSE {q.data2}
      [] q.id = 13 -> {IF shell.pixel \/ shell.input THEN 0 ELSE q.data2}
      [] q.id = 14 -> IF q.data = 0 THEN {0, 1} ELSE IF q.data = 1 THEN {Random} ELSE {q.data2}
      [] q.id \in {7, 18, 23} \/ (q.id \in {16, 17} /\ q.data \notin Itself) -> {0, 1}
      [] q.id \in {15, 19, 21, 24, 25, 26} -> {0, Result}
      [] OTHER -> {q.data2}

\* The thread or its process is dead after the call.
EndsCaller(q) == q.id = 2 \/ (q.id = 16 /\ q.data \in Itself)

\* handle_system_call: the registers say what is asked.  A thread that asks for
\* input stays suspended until the shell has some.
SystemCall ==
    LET query == [id |-> gpr.ecx, data |-> gpr.edx, data2 |-> gpr.eax, data3 |-> gpr.ebx]
    IN  /\ received' = query
        /\ \E eax \in Reply(query) :
            /\ replied' = eax
            /\ gpr' = [gpr EXCEPT !.eax = eax]
        /\ shell' = [input |-> shell.input \/ (query.id = 13 /\ ~shell.pixel),
                     pixel |-> shell.pixel \/ query.id = 19]
        /\ UNCHANGED callStack

\* The shell, which is not in the repository, has read a line for a thread.
ShellAnswers ==
    /\ shell.input
    /\ shell' = [shell EXCEPT !.input = FALSE]
    /\ UNCHANGED <<calling, gpr, callStack, received, replied>>
-----------------------------------------------------------------------------
(***************************************************************************)
(* The program.                                                            *)
(***************************************************************************)

\* It calls a wrapper; registers without an argument hold anything.
Invokes(w, args) ==
    /\ calling = NoCall
    /\ calling' = [name |-> w.name, wrapper |-> w, args |-> args, at |-> 1]
    /\ gpr' = [eax |-> Junk, ebx |-> Kept,
               ecx |-> IF w.arity >= 1 THEN args[1] ELSE Junk,
               edx |-> IF w.arity >= 2 THEN args[2] ELSE Junk]
    /\ callStack' = <<ReturnTo>> \o IF w.arity = 3 THEN <<args[3]>> ELSE <<>>
    /\ UNCHANGED <<received, replied, shell>>

Executes ==
    LET code == CodeOf(calling.wrapper)
        i == code[calling.at]
    IN  /\ calling # NoCall /\ calling.at <= Len(code) /\ ~EndsCaller(received)
        /\ calling' = [calling EXCEPT !.at = @ + 1]
        /\ \/ i.op = "int" /\ SystemCall
           \/ /\ i.op # "int"
              /\ gpr' = [gpr EXCEPT ![IF i.dst = "esp" THEN "eax" ELSE i.dst] =
                            CASE i.op = "mov" -> gpr[i.src]
                              [] i.op = "imm" -> i.src
                              [] i.op = "arg" -> callStack[i.src]
                              [] i.op = "pop" -> Head(callStack)
                              [] OTHER -> @]
              /\ callStack' = CASE i.op = "push" -> <<gpr.ebx>> \o callStack
                                [] i.op = "pop" -> Tail(callStack)
                                [] i.op = "ret" -> SubSeq(callStack, 2 + i.src, Len(callStack))
                                [] OTHER -> callStack
              /\ UNCHANGED <<received, replied, shell>>

\* Back in the program.
Returned == calling # NoCall /\ calling.at > Len(CodeOf(calling.wrapper))

\* The program goes on, or something else of it: call 6 goes back to where the
\* event came, and other threads live on.
Continues ==
    /\ Returned \/ received.id = 6 \/ EndsCaller(received)
    /\ calling' = NoCall
    /\ gpr' = [eax |-> Junk, ebx |-> Kept, ecx |-> Junk, edx |-> Junk]
    /\ callStack' = <<>>
    /\ received' = Nothing /\ replied' = Junk
    /\ UNCHANGED shell

CallNext ==
    \/ \E w \in Wrappers : \E args \in [1 .. w.arity -> ArgValues] : Invokes(w, args)
    \/ Executes
    \/ ShellAnswers
    \/ Continues

CallSpec == CallInit /\ [][CallNext]_callVars
-----------------------------------------------------------------------------
\* Every variable has a value of its type.
CallTypeOK ==
    /\ calling = NoCall \/ calling.wrapper \in Wrappers
    /\ DOMAIN gpr = {"eax", "ebx", "ecx", "edx"}
    /\ shell \in [input : BOOLEAN, pixel : BOOLEAN]

\* When a wrapper has returned, the kernel has seen its call, every argument at
\* its place and the selector that belongs to the wrapper; the program finds the
\* kernel's answer in eax, its own ebx, and its stack without the return
\* address and the argument that were on it.
CallsArriveWhole ==
    Returned =>
        LET w == calling.wrapper
            args == w.selector \o calling.args
        IN  /\ received.id = w.id
            /\ \A i \in 1 .. Len(args) :
                <<received.data, received.data2, received.data3>>[i] = args[i]
            /\ gpr.eax = replied /\ gpr.ebx = Kept
            /\ callStack = <<>>
=============================================================================
