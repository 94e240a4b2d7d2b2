-------------------------------- MODULE Ipam --------------------------------
(***************************************************************************)
(* pkg/ipam: the in-process allocator, its state file and agent restarts.  *)
(*                                                                         *)
(* Add and Del run under Allocator.mu from their lookup to their return,   *)
(* so at most one of them is between two steps: "section" is that critical *)
(* section.  Its steps are separate because the process can die between    *)
(* any two of them, and only the files survive.  Check reads one entry     *)
(* under the mutex and changes nothing.                                    *)
(***************************************************************************)
EXTENDS PodCidr

CONSTANTS Containers,   \* container IDs
          Cidrs,        \* the pod CIDRs the node may be assigned
          None,         \* no address, no container, no file
          Torn          \* bytes that cbor.Unmarshal refuses

ASSUME CidrsAssumption == \A n \in Cidrs : IsCidr(n)
ASSUME NoneAssumption  == None \notin Containers \cup Int
Addresses == UNION {Block(n) : n \in Cidrs}
Table     == [Addresses -> Containers \cup {None}]   \* ip -> containerID

ASSUME TornAssumption == Torn \notin Table \cup {None}

VARIABLES
  up,        \* the agent process is running
  cidr,      \* Allocator.subnet
  allocs,    \* Allocator.allocs: container -> ip
  used,      \* Allocator.used: ip -> container
  file,      \* allocations.cbor (a missing file loads like an empty one)
  tmp,       \* allocations.cbor.tmp
  section,   \* the Add or Del that holds Allocator.mu
  granted,   \* history: the address a container holds under the pod CIDRs
             \* that have been in force since it was told so
  told       \* history: the address a container was last told, until its Del

memory  == <<allocs, used>>
disk    == <<file, tmp>>
history == <<granted, told>>
vars    == <<up, cidr, allocs, used, file, tmp, section, granted, told>>

Idle == [op |-> "none", c |-> None, ip |-> None, at |-> "none"]
Steps == {"write", "rename", "return"}
Sections ==
  {Idle} \cup [op : {"add", "del"}, c : Containers, ip : Addresses, at : Steps]

NoAllocs == [c \in Containers |-> None]
NoTable  == [ip \in Addresses |-> None]

Init ==
  /\ up = FALSE
  /\ cidr \in Cidrs
  /\ allocs = NoAllocs
  /\ used = NoTable
  /\ file = NoTable
  /\ tmp = None
  /\ section = Idle
  /\ granted = NoAllocs
  /\ told = NoAllocs

-----------------------------------------------------------------------------
\* The map persist encodes: allocs turned round.
Encode(al) ==
  [ip \in Addresses |->
     IF \E c \in Containers : al[c] = ip
     THEN CHOOSE c \in Containers : al[c] = ip
     ELSE None]

\* Faulty variants for the mutation runs: load forgets the reverse index, or
\* the allocations.
LoadUsedNothing(m, n)   == NoTable
LoadAllocsNothing(m, n) == NoAllocs

\* What load makes of a decoded file m under subnet n; entries outside n are
\* skipped.
LoadUsed(m, n) == [ip \in Addresses |-> IF ip \in Block(n) THEN m[ip] ELSE None]
LoadAllocs(m, n) ==
  [c \in Containers |->
     IF \E ip \in Block(n) : m[ip] = c
     THEN CHOOSE ip \in Block(n) : m[ip] = c
     ELSE None]

Assign(c, ip) ==
  /\ allocs' = [allocs EXCEPT ![c] = ip]
  /\ used'   = [used EXCEPT ![ip] = c]

\* Faulty variant for a mutation run: the reverse index keeps the address.
UnassignAllocsOnly(c, ip) ==
  /\ allocs' = [allocs EXCEPT ![c] = None]
  /\ UNCHANGED used

Unassign(c, ip) ==
  /\ allocs' = [allocs EXCEPT ![c] = None]
  /\ used'   = [used EXCEPT ![ip] = None]

\* Faulty variants for the mutation runs: the roll-back leaves the reverse
\* index behind, or there is none.
RollbackAllocsOnly ==
  /\ allocs' = [allocs EXCEPT ![section.c] = IF section.op = "add" THEN None ELSE section.ip]
  /\ UNCHANGED used
RollbackNothing == UNCHANGED memory

\* Add and Del undo their change to memory when persist fails.
Rollback ==
  \/ section.op = "add" /\ Unassign(section.c, section.ip)
  \/ section.op = "del" /\ Assign(section.c, section.ip)

-----------------------------------------------------------------------------
\* The caller learns that c has ip, or gives its address up.
Tell(c, ip) ==
  /\ granted' = [granted EXCEPT ![c] = ip]
  /\ told'    = [told EXCEPT ![c] = ip]

Unlocked == up /\ section = Idle
At(step) == up /\ section.at = step

\* Add finds an allocation and returns it.
AddExisting(c) ==
  /\ Unlocked
  /\ allocs[c] # None
  /\ Tell(c, allocs[c])
  /\ UNCHANGED <<up, cidr, memory, disk, section>>

\* Add takes the next free address, in memory; persist comes next.  With no
\* free address Add returns an error and changes nothing.
AddFresh(c) ==
  /\ Unlocked
  /\ allocs[c] = None
  /\ \E ip \in Addresses :
       /\ IsNextFree(ip, cidr, {a \in Addresses : used[a] # None})
       /\ Assign(c, ip)
       /\ section' = [op |-> "add", c |-> c, ip |-> ip, at |-> "write"]
  /\ UNCHANGED <<up, cidr, disk, history>>

\* Del drops the allocation from memory; persist comes next.  Its caller has
\* given the address up.  Del of a container without one changes nothing.
DelHeld(c) ==
  /\ Unlocked
  /\ allocs[c] # None
  /\ Unassign(c, allocs[c])
  /\ section' = [op |-> "del", c |-> c, ip |-> allocs[c], at |-> "write"]
  /\ Tell(c, None)
  /\ UNCHANGED <<up, cidr, disk>>

\* Faulty variant for a mutation run: the temporary file is never written.
WriteTmpSkipped ==
  /\ At("write")
  /\ section' = [section EXCEPT !.at = "rename"]
  /\ UNCHANGED <<up, cidr, memory, disk, history>>

\* persist: os.WriteFile of the temporary file.
WriteTmp ==
  /\ At("write")
  /\ tmp' = Encode(allocs)
  /\ section' = [section EXCEPT !.at = "rename"]
  /\ UNCHANGED <<up, cidr, memory, file, history>>

\* Faulty variant for a mutation run: the error is dropped and the call succeeds.
WriteErrorIgnored ==
  /\ At("write")
  /\ tmp' \in {tmp, Torn}
  /\ section' = Idle
  /\ IF section.op = "add" THEN Tell(section.c, section.ip) ELSE UNCHANGED history
  /\ UNCHANGED <<up, cidr, memory, file>>

\* It fails before or after truncating the file.
WriteTmpFails ==
  /\ At("write")
  /\ tmp' \in {tmp, Torn}
  /\ Rollback
  /\ section' = Idle
  /\ UNCHANGED <<up, cidr, file, history>>

\* persist: os.Rename over the state file.
RenameTmp ==
  /\ At("rename")
  /\ file' = tmp
  /\ tmp' = None
  /\ section' = [section EXCEPT !.at = "return"]
  /\ UNCHANGED <<up, cidr, memory, history>>

\* It fails; os.Remove of the temporary file may fail too.
RenameFails ==
  /\ At("rename")
  /\ tmp' \in {None, tmp}
  /\ Rollback
  /\ section' = Idle
  /\ UNCHANGED <<up, cidr, file, history>>

\* The call returns without error and unlocks.
Return ==
  /\ At("return")
  /\ section' = Idle
  /\ IF section.op = "add" THEN Tell(section.c, section.ip) ELSE UNCHANGED history
  /\ UNCHANGED <<up, cidr, memory, disk>>

\* The process ends, at any point; a write in progress may leave a torn or a
\* complete temporary file.
Crash ==
  /\ up
  /\ up' = FALSE
  /\ allocs' = NoAllocs
  /\ used' = NoTable
  /\ tmp' \in IF At("write") THEN {tmp, Torn, Encode(allocs)} ELSE {tmp}
  /\ section' = Idle
  /\ UNCHANGED <<cidr, file, history>>

\* New with the pod CIDR n the node has at this start, then load.  A file that
\* does not decode is an error: the agent does not start.  Addresses outside n
\* are no longer the allocator's to give, but their pods keep running.
Start(n) ==
  /\ ~up
  /\ file # Torn
  /\ up' = TRUE
  /\ cidr' = n
  /\ allocs' = LoadAllocs(file, n)
  /\ used' = LoadUsed(file, n)
  /\ granted' = [c \in Containers |-> IF granted[c] \in Block(n) THEN granted[c] ELSE None]
  /\ UNCHANGED <<disk, section, told>>

Next ==
  \/ \E c \in Containers : AddExisting(c) \/ AddFresh(c) \/ DelHeld(c)
  \/ WriteTmp \/ WriteTmpFails \/ RenameTmp \/ RenameFails \/ Return
  \/ Crash
  \/ \E n \in Cidrs : Start(n)

Spec == Init /\ [][Next]_vars

-----------------------------------------------------------------------------
(* Properties                                                              *)

TypeOK ==
  /\ up \in BOOLEAN
  /\ cidr \in Cidrs
  /\ allocs \in [Containers -> Addresses \cup {None}]
  /\ used \in Table
  /\ file \in Table \cup {Torn}
  /\ tmp \in Table \cup {None, Torn}
  /\ section \in Sections
  /\ granted \in [Containers -> Addresses \cup {None}]
  /\ told \in [Containers -> Addresses \cup {None}]

\* The two maps of Allocator are each other's inverse, through every roll-back
\* and every restart: a lookup by container and the conflict check by address
\* never disagree (Allocator.used, "reverse index").
Inverse ==
  /\ \A c \in Containers : allocs[c] # None => used[allocs[c]] = c
  /\ \A ip \in Addresses : used[ip] # None => allocs[used[ip]] = ip

\* Whenever the mutex is free, memory is what a restart would load: a failed
\* persist leaves neither ahead of the other.
ConsistentWithDisk ==
  Unlocked =>
    file # Torn /\ LoadUsed(file, cidr) = used /\ LoadAllocs(file, cidr) = allocs

\* An address a container was told it holds is on disk under its name, in every
\* state, also while the agent is down or another call is half way: no crash
\* loses an answered Add.
GrantDurable ==
  \A c \in Containers :
    granted[c] # None => file # Torn /\ file[granted[c]] = c

\* No two containers hold the same address, across crashes, failed writes,
\* releases and restarts ("survives restarts without double-allocating IPs"),
\* as long as no restart puts a holder's address outside the pod CIDR.
NoDoubleGrant ==
  \A c, d \in Containers : granted[c] # None /\ granted[c] = granted[d] => c = d

\* The same for every container that was told an address and not deleted,
\* whatever pod CIDRs the node has had in between (README, "so allocations
\* survive agent restarts without double-allocating IPs").  It does not hold:
\* load skips the entries outside the pod CIDR, the next persist erases them,
\* and once the node has its first pod CIDR back their addresses are free.
NoDoubleTold ==
  \A c, d \in Containers : told[c] # None /\ told[c] = told[d] => c = d

\* A container has the network, gateway or broadcast address of the pod CIDR in
\* force only if that is a host address of another, overlapping pod CIDR, under
\* which it was allocated: load tests no more than Contains (ipam.go:207), so a
\* restart can restore one, but no Add hands one out (ipam.go:135-138, 149), and
\* pod CIDRs that do not overlap never meet the case.
NeverReserved ==
  \A c \in Containers :
    up /\ allocs[c] \in Reserved(cidr) =>
      \E n \in Cidrs \ {cidr} : allocs[c] \in Block(n) \ Reserved(n)

\* A pod with an address of the scan has a gateway that is "network address +
\* 1", in the pod CIDR (ipam.go:226-231): the one subnet whose last octet wraps
\* has no such address.
GatewayIsNext ==
  \A c \in Containers :
    up /\ allocs[c] \in HostRange(cidr) =>
      Gateway(cidr) = cidr.base + 1 /\ Gateway(cidr) \in Block(cidr)

\* Add reports "exhausted" only when every host address is on disk under a
\* container: an address that was released, or whose Add failed in persist or
\* died before the rename, is to be had again (ipam.go:85-89, 107-117, 149-156).
ExhaustedOnlyIfFull ==
  Unlocked /\ (\E ip \in HostRange(cidr) : file[ip] = None) =>
    \E ip \in Addresses : IsNextFree(ip, cidr, {a \in Addresses : used[a] # None})

\* The state file always decodes, so a restart never fails in load: a write cut
\* short only ever damages the temporary file.
DiskReadable == file # Torn

\* A container that repeats Add, also after a crash and restart in between, is
\* told the address it already holds ("kubelet retry").
StableGrant ==
  [][\A c \in Containers :
       granted[c] # None /\ granted'[c] # None => granted'[c] = granted[c]]_vars

\* The allocator implements AddressPool: the holder of an address is the one
\* the state file names, so Add and Del take effect at the rename, and a crash
\* or a failed write changes nothing.
DiskHolders ==
  [c \in Containers |->
     IF \E ip \in Addresses : file[ip] = c
     THEN CHOOSE ip \in Addresses : file[ip] = c
     ELSE None]
Pool == INSTANCE AddressPool WITH net <- cidr, held <- DiskHolders
ImplementsPool == Pool!Spec
=============================================================================
