------------------------------ MODULE MCEngine ------------------------------
(***************************************************************************)
(* Small instances of Engine: orchestration functions of two to four tasks *)
(* on pools of one or two workers.                                         *)
(***************************************************************************)
EXTENDS Engine

Pools21 == [t \in WorkerTypes |-> IF t = "NEXT_LEVEL" THEN 2 ELSE 1]

\* Operations and arguments.
Begin == [op |-> "begin"]
End == [op |-> "end"]
Raise == [op |-> "raise"]
Alloc(n) == [op |-> "alloc", bytes |-> n]
Group(t, al, aff) == [op |-> "submit", worker_type |-> t, args_list |-> al, affinities |-> aff]
Submit(t, args) == Group(t, <<args>>, <<>>)
Next1(args) == Submit("NEXT_LEVEL", args)
Arg(tag, ref) == [tag |-> tag, ref |-> ref, child |-> FALSE]
ChildArg(tag, ref) == [tag |-> tag, ref |-> ref, child |-> TRUE]

In(ref) == Arg("INPUT", ref)
Out == Arg("OUTPUT", NullRef)
Existing(ref) == Arg("OUTPUT_EXISTING", ref)

User(k) == <<0, k>>
SlabOf(n) == <<n, 1>>

\* Buffers from alloc, read and written by tasks and by the members of a group,
\* in the scope of the run and in a nested one; an exception in between.
AllocPrograms ==
    {<<Alloc(1), Next1(<<In(SlabOf(1))>>), Begin, Alloc(0),
       Submit("SUB", <<In(SlabOf(2)), Arg("NO_DEP", SlabOf(1)), In(SlabOf(1))>>), End>>,
     <<Alloc(1), Begin, Alloc(1), Next1(<<In(SlabOf(1)), In(SlabOf(2))>>), Raise>>,
     <<Alloc(1), Submit("SUB", <<In(SlabOf(1)), Out>>), Alloc(1), Alloc(1)>>,
     <<Begin, Begin, Alloc(1)>>}

\* Independent tasks and groups, with and without pinning.
GroupPrograms ==
    {<<Group("NEXT_LEVEL", <<<<Out>>, <<Out>>>>, <<>>), Next1(<<Out>>)>>,
     <<Group("NEXT_LEVEL", <<<<ChildArg("OUTPUT_EXISTING", User(1))>>,
                             <<ChildArg("OUTPUT_EXISTING", User(1))>>>>, <<1, -1>>),
       Submit("SUB", <<Existing(User(2))>>)>>}

\* Each of these in a run of its own, and two runs of two independent tasks.
Single == <<Next1(<<Existing(User(1))>>), Next1(<<Existing(User(2))>>)>>
TaskSessions == {<<p>> : p \in AllocPrograms \cup GroupPrograms} \cup {<<Single, Single>>}

\* A chain of three tasks; a chain that leaves its scope; a heap that fills up.
ChainSessions ==
    {<< <<Next1(<<Out>>), Next1(<<In(SlabOf(1)), Out>>), Next1(<<In(SlabOf(2))>>)>> >>,
     << <<Next1(<<Out>>), Begin, Next1(<<In(SlabOf(1)), Out>>), Next1(<<In(SlabOf(2))>>), End>> >>,
     << <<Next1(<<Out>>), Next1(<<Out>>), Next1(<<Out>>)>> >>}

AllSessions == TaskSessions \cup ChainSessions
=============================================================================
