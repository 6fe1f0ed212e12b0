----------------------------- MODULE MCUsbControl -----------------------------
(* A host with one request of every kind, and answers of every shape around *)
(* a packet of two bytes.                                                    *)
EXTENDS UsbControl

R(kind, wLength, len) == [kind |-> kind, wLength |-> wLength, len |-> len]

\* cut off by the host; one packet; two; two and an empty one.
Get  == {R("get", 1, 3), R("get", 4, 1), R("get", 4, 4), R("get", 5, 3),
         R("get", 5, 4)}
Rest == {R("badGet", 2, 0), R("set", 0, 0), R("badSet", 0, 0),
         R("configure", 0, 0), R("address", 0, 0), R("whenConfigured", 0, 0),
         R("out", 1, 0), R("out", 2, 0), R("badOut", 2, 0)}
MCRequests == Get \cup Rest
===============================================================================
