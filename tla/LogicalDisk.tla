---------------------------- MODULE LogicalDisk ----------------------------
(***************************************************************************)
(* What an encrypted device promises to the file system above it: it is a  *)
(* disk.  Every request takes effect sector by sector between its          *)
(* submission and its completion; a request that succeeds has taken effect *)
(* on all of its sectors, and a read returns what the sectors held.        *)
(***************************************************************************)
EXTENDS Integers

CONSTANTS Irps, Addresses, Old

\* Old: what a sector holds before the first write; NoData: not transferred.
NoData == "nodata"
NoRequest == [op |-> "none", data |-> << >>, status |-> "none"]

VARIABLES content, request

Untouched(sectors) == [s \in sectors |-> NoData]

Init ==
    /\ content = [s \in Addresses |-> Old]
    /\ request = [i \in Irps |-> NoRequest]

Submit(i) ==
    /\ request[i].op = "none"
    /\ \E op \in {"read", "write"}, sectors \in SUBSET Addresses :
          request' = [request EXCEPT ![i] =
                         [op |-> op, data |-> Untouched(sectors), status |-> "active"]]
    /\ UNCHANGED content

Active(i) == request[i].status = "active"

\* The value request i writes is its name.
Transfer(i) ==
    /\ Active(i)
    /\ \E sectors \in SUBSET DOMAIN request[i].data :
          /\ content' = [s \in Addresses |->
                            IF request[i].op = "write" /\ s \in sectors THEN i ELSE content[s]]
          /\ request' = [request EXCEPT ![i].data =
                [s \in DOMAIN @ |-> IF s \in sectors THEN content'[s] ELSE @[s]]]

Complete(i) ==
    /\ Active(i)
    /\ \E status \in {"ok", "failed"} :
          /\ status = "ok" =>
                \A s \in DOMAIN request[i].data : request[i].data[s] # NoData
          /\ request' = [request EXCEPT ![i].status = status]
    /\ UNCHANGED content

Collect(i) ==
    /\ request[i].status \in {"ok", "failed"}
    /\ request' = [request EXCEPT ![i] = NoRequest]
    /\ UNCHANGED content

Next == \E i \in Irps : Submit(i) \/ Transfer(i) \/ Complete(i) \/ Collect(i)

Spec == Init /\ [][Next]_<<content, request>>
=============================================================================
