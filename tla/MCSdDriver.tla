------------------------------ MODULE MCSdDriver ------------------------------
EXTENDS SdDriver

CallOf(op, s, n, d) == [op |-> op, sector |-> s, count |-> n, data |-> d]

MCInitialize == {CallOf("initialize", 0, 0, << >>)}

\* One block and two, up to and short of the end of the card.
MCCalls == MCInitialize \cup
           {CallOf("sync", 0, 0, << >>),
            CallOf("read", 1, 1, << >>), CallOf("read", 0, 2, << >>),
            CallOf("write", 2, 1, <<"b">>), CallOf("write", 1, 2, <<"a", "b">>)}
=============================================================================
