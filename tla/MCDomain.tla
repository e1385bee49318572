------------------------------ MODULE MCDomain ------------------------------
(* The BBL and two servers that share a queue; room for one client.  *)
EXTENDS Domain

CONSTANTS c1, c2
First == {<<s, 1>> : s \in 1..3}
\* Servers die, are started again and run on when the resources are removed;
\* the domain is shut down or removed and booted again under a client that may
\* die; servers die in a shutdown, or are not reached.
Restart == [run |-> <<{"tmboot"}, {"tmboot", "tmipcrm"}>>,
            join |-> Clients, kill |-> First, full |-> {}]
Reboot == [run |-> <<{"tmboot"}, {"tmshutdown", "tmipcrm"}, {"tmboot"}>>,
           join |-> Clients, kill |-> Clients, full |-> {}]
Shutdown == [run |-> <<{"tmboot"}, {"tmshutdown"}, {"tmboot"}>>,
             join |-> {}, kill |-> First, full |-> Addresses]
Runs == {Restart, Reboot, Shutdown}
Shared == <<"bbl", "mssq", "mssq">>
=============================================================================
