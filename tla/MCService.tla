----------------------------- MODULE MCService -----------------------------
(***************************************************************************)
(* Two threads.  One dispatches every shape of request, the other commands *)
(* of src/libnx/pm.cpp and src/libnx/lmget.cpp.                            *)
(***************************************************************************)
EXTENDS Service

CONSTANTS t1, t2

Command(id, size, out, buffers) ==
    [id |-> id, context |-> 0, data_size |-> size, send_pid |-> FALSE, objects |-> <<>>,
     handles |-> <<>>, buffers |-> buffers, out_size |-> out, out_objects |-> 0,
     out_handles |-> <<>>]

Buffer(attr, size) == [attr |-> attr, ptr |-> 7, size |-> size]

Kinds == {{"AutoSelect", "NonSecure", "NonDevice"}, {"Pointer"}, {"Pointer", "FixedSize"},
          {"MapAlias", "NonSecure"}}

\* pmshellGetProcessEventHandle of pm.cpp, GetLog of lmget.cpp.
GetEvent == [Command(3, 0, 0, <<>>) EXCEPT !.out_handles = <<"Copy">>]
GetLog == Command(2, 0, 16, <<Buffer({"AutoSelect", "Out"}, 3)>>)

\* Buffers of each kind in each direction after an auto-select one, which fits
\* into the pointer buffer, or not.
AfterAuto(n, k) ==
    Command(0, 3, 0, <<Buffer({"AutoSelect", "In"}, n), Buffer(k \cup {"Out"}, 1),
                       Buffer(k \cup {"In"}, 1), Buffer(k \cup {"In", "Out"}, 1)>>)

\* Those, and objects and handles both ways.
Shapes ==
    {AfterAuto(2, k) : k \in Kinds} \cup {AfterAuto(4, {"AutoSelect", "NonSecure", "NonDevice"})}
    \cup {[Command(0, 1, 4, <<Buffer({"AutoSelect", "Out"}, 1)>>) EXCEPT
             !.objects = <<1, 2>>, !.handles = <<1>>, !.send_pid = TRUE, !.context = 1,
             !.out_objects = 1, !.out_handles = <<"Move", "Copy">>],
          [Command(0, 6, 6, <<>>) EXCEPT !.out_handles = <<"Copy", "Move">>]}

MCCommandsOf(t, slot) ==
    IF slot = "sub" THEN {Command(1, 24, 8, <<>>)}
    ELSE IF t = t1 THEN Shapes ELSE {GetEvent, GetLog}
=============================================================================
