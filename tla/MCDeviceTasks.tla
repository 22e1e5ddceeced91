---------------------------- MODULE MCDeviceTasks ----------------------------
(* Instances of DeviceTasks for TLC.                                         *)
EXTENDS DeviceTasks

CONSTANTS t0, t1

\* An allocated tensor that one task updates and a dummy task waits for.
Diamond == << <<"begin">>, <<"alloc", 2>>, <<"submit", 1, <<<<"INOUT", 2>>>>, {}>>,
              <<"dummy", 0, <<<<"INPUT", 2>>>>, {3}>>, <<"end">>,
              <<"begin">>, <<"submit", 2, <<>>, {}>>, <<"end">> >>

\* Three scopes that reuse the slots and the heap of their ring.
Reuse == << <<"begin">>, <<"submit", 2, <<>>, {}>>, <<"submit", 2, <<>>, {}>>, <<"end">>,
            <<"begin">>, <<"alloc", 2>>, <<"submit", 1, <<<<"INPUT", 6>>>>, {}>>, <<"end">>,
            <<"begin">>, <<"alloc", 1>>, <<"end">> >>

\* An inner scope, on a ring of its own, updates a tensor of the outer one.
Nested == << <<"begin">>, <<"submit", 2, <<>>, {}>>, <<"begin">>, <<"submit", 1, <<<<"INOUT", 2>>>>, {}>>, <<"end">>,
             <<"submit", 1, <<<<"INPUT", 2>>>>, {}>>, <<"end">> >>

AllPrograms == {Diamond, Reuse, Nested}
=============================================================================
