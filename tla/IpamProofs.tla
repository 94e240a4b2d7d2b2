----------------------------- MODULE IpamProofs -----------------------------
(***************************************************************************)
(* Proofs about Ipam for any containers and any set of pod CIDRs.  The     *)
(* inductive invariant says, for each step a critical section can be at,   *)
(* by which entry the state file differs from memory.                      *)
(***************************************************************************)
EXTENDS Ipam, TLAPS

Finite == INSTANCE FiniteSetTheorems

\* No container has two entries in the table m.
OneEntryEach(m) ==
  \A a, b \in Addresses : m[a] # None /\ m[a] = m[b] => a = b

\* What the file holds for ip while the section has not yet renamed.
Before(ip) ==
  IF ip # section.ip THEN used[ip]
  ELSE IF section.op = "add" THEN None ELSE section.c

SectionInv ==
  /\ ~up => section = Idle
  /\ section.op = "add" => /\ allocs[section.c] = section.ip
                           /\ section.ip \in HostRange(cidr)
  /\ section.op = "del" => /\ allocs[section.c] = None
                           /\ used[section.ip] = None
                           /\ section.ip \in Block(cidr)
  /\ section.op # "none" => granted[section.c] = None

DiskInv ==
  /\ file # Torn
  /\ OneEntryEach(file)
  /\ Unlocked => \A ip \in Block(cidr) : file[ip] = used[ip]
  /\ section.at \in {"write", "rename"} =>
       \A ip \in Block(cidr) : file[ip] = Before(ip)
  /\ section.at = "rename" => tmp = used
  /\ section.at = "return" => file = used

GrantInv ==
  \A c \in Containers :
    granted[c] # None => granted[c] \in Block(cidr) /\ file[granted[c]] = c

InSubnet == \A c \in Containers : allocs[c] # None => allocs[c] \in Block(cidr)

IInv == TypeOK /\ Inverse /\ InSubnet /\ SectionInv /\ DiskInv /\ GrantInv

-----------------------------------------------------------------------------
\* Addresses are integers, so None is neither an address nor a container, and
\* every pod CIDR's block consists of addresses.
LEMMA AddressFacts ==
  /\ None \notin Containers
  /\ None \notin Addresses
  /\ \A n \in Cidrs : Block(n) \subseteq Addresses
  /\ Torn \notin Table
  /\ Torn # None
<1>1. Addresses \subseteq Int
  BY CidrsAssumption DEF Addresses, Block, IsCidr
<1>2. QED
  BY <1>1, NoneAssumption, TornAssumption DEF Addresses

\* persist encodes exactly the reverse index, because it is the inverse of allocs.
LEMMA EncodeIsUsed ==
  ASSUME TypeOK, Inverse
  PROVE  Encode(allocs) = used
<1>1. ASSUME NEW ip \in Addresses
      PROVE  Encode(allocs)[ip] = used[ip]
  <2>1. CASE \E c \in Containers : allocs[c] = ip
    <3>1. PICK c \in Containers : allocs[c] = ip
      BY <2>1
    <3>2. \A d \in Containers : allocs[d] = ip => d = used[ip]
      BY AddressFacts DEF Inverse
    <3>3. QED
      BY <3>1, <3>2 DEF Encode
  <2>2. CASE ~ \E c \in Containers : allocs[c] = ip
    <3>1. used[ip] = None
      BY <2>2 DEF Inverse, TypeOK, Table
    <3>2. QED
      BY <2>2, <3>1 DEF Encode
  <2>3. QED
    BY <2>1, <2>2
<1>2. QED
  BY <1>1 DEF Encode, TypeOK, Table

\* load builds two inverse maps, within the subnet, from a table in which no
\* container has two entries.
LEMMA LoadIsInverse ==
  ASSUME NEW m \in Table, OneEntryEach(m), NEW n \in Cidrs
  PROVE  /\ LoadAllocs(m, n) \in [Containers -> Addresses \cup {None}]
         /\ LoadUsed(m, n) \in Table
         /\ \A c \in Containers : LoadAllocs(m, n)[c] # None =>
              /\ LoadAllocs(m, n)[c] \in Block(n)
              /\ m[LoadAllocs(m, n)[c]] = c
         /\ \A c \in Containers, ip \in Block(n) :
              m[ip] = c => LoadAllocs(m, n)[c] = ip
<1>1. ASSUME NEW c \in Containers, NEW ip \in Block(n), m[ip] = c
      PROVE  LoadAllocs(m, n)[c] = ip
  <2>1. \A other \in Block(n) : m[other] = c => other = ip
    BY <1>1, AddressFacts DEF OneEntryEach
  <2>2. QED
    BY <1>1, <2>1 DEF LoadAllocs
<1>2. ASSUME NEW c \in Containers, LoadAllocs(m, n)[c] # None
      PROVE  LoadAllocs(m, n)[c] \in Block(n) /\ m[LoadAllocs(m, n)[c]] = c
  <2>1. PICK ip \in Block(n) : m[ip] = c
    BY <1>2 DEF LoadAllocs
  <2>2. QED
    BY <2>1, <1>1
<1>3. LoadAllocs(m, n) \in [Containers -> Addresses \cup {None}]
  <2>1. \A c \in Containers : LoadAllocs(m, n)[c] \in Addresses \cup {None}
    BY <1>2, AddressFacts
  <2>2. QED
    BY <2>1 DEF LoadAllocs
<1>4. LoadUsed(m, n) \in Table
  BY DEF LoadUsed, Table
<1>5. QED
  BY <1>1, <1>2, <1>3, <1>4

-----------------------------------------------------------------------------
LEMMA InitIInv ==
  ASSUME Init
  PROVE  IInv
<1> USE AddressFacts DEF Init, NoAllocs, NoTable
<1>1. TypeOK
  BY DEF TypeOK, Sections, Table
<1>2. Inverse /\ InSubnet /\ GrantInv
  BY DEF Inverse, InSubnet, GrantInv
<1>3. SectionInv
  BY DEF SectionInv, Idle
<1>4. file # Torn
  BY DEF Table
<1>5. DiskInv
  BY <1>4 DEF DiskInv, OneEntryEach, Unlocked, Idle
<1>6. QED
  BY <1>1, <1>2, <1>3, <1>5 DEF IInv

LEMMA AddExistingIInv ==
  ASSUME IInv, NEW c \in Containers, AddExisting(c)
  PROVE  IInv'
<1> USE AddressFacts DEF IInv, AddExisting, Tell, Unlocked, memory, disk
<1>1. TypeOK'
  BY DEF TypeOK
<1>2. Inverse' /\ InSubnet'
  BY DEF Inverse, InSubnet
<1>3. SectionInv'
  BY DEF SectionInv, Idle
<1>4. DiskInv'
  BY DEF DiskInv, OneEntryEach, Before, Idle
<1>5. GrantInv'
  <2>1. allocs[c] \in Block(cidr) /\ file[allocs[c]] = c
    BY DEF InSubnet, Inverse, DiskInv
  <2>2. QED
    BY <2>1 DEF GrantInv, TypeOK
<1>6. QED
  BY <1>1, <1>2, <1>3, <1>4, <1>5

LEMMA AddFreshIInv ==
  ASSUME IInv, NEW c \in Containers, AddFresh(c)
  PROVE  IInv'
<1> USE AddressFacts DEF IInv, AddFresh, Assign, Unlocked, disk, history
<1>1. PICK ip \in Addresses :
        /\ ip \in HostRange(cidr)
        /\ ip \in Block(cidr)
        /\ used[ip] = None
        /\ Assign(c, ip)
        /\ section' = [op |-> "add", c |-> c, ip |-> ip, at |-> "write"]
  <2>1. HostRange(cidr) \subseteq Block(cidr)
    BY CidrsAssumption DEF HostRange, Block, IsCidr, TypeOK
  <2>2. QED
    BY <2>1 DEF IsNextFree
<1>2. granted[c] = None
  BY DEF GrantInv, DiskInv, Inverse, TypeOK
<1>3. TypeOK'
  BY <1>1 DEF TypeOK, Sections, Steps, Table
<1>4. Inverse' /\ InSubnet'
  BY <1>1 DEF TypeOK, Inverse, InSubnet, Table
<1>5. SectionInv'
  BY <1>1, <1>2 DEF SectionInv, Idle, TypeOK
<1>6. DiskInv'
  BY <1>1 DEF DiskInv, OneEntryEach, Before, Idle, TypeOK, Table
<1>7. GrantInv'
  BY DEF GrantInv
<1>8. QED
  BY <1>3, <1>4, <1>5, <1>6, <1>7

LEMMA DelHeldIInv ==
  ASSUME IInv, NEW c \in Containers, DelHeld(c)
  PROVE  IInv'
<1> USE AddressFacts DEF IInv, DelHeld, Unassign, Tell, Unlocked, disk
<1>1. allocs[c] \in Addresses /\ allocs[c] \in Block(cidr) /\ used[allocs[c]] = c
  BY DEF TypeOK, InSubnet, Inverse
<1>2. TypeOK'
  BY <1>1 DEF TypeOK, Sections, Steps, Table
<1>3. Inverse' /\ InSubnet'
  BY <1>1 DEF TypeOK, Inverse, InSubnet, Table
<1>4. SectionInv'
  BY <1>1 DEF SectionInv, Idle, TypeOK, Table
<1>5. DiskInv'
  BY <1>1 DEF DiskInv, OneEntryEach, Before, Idle, TypeOK, Table
<1>6. GrantInv'
  BY DEF GrantInv, TypeOK
<1>7. QED
  BY <1>2, <1>3, <1>4, <1>5, <1>6

LEMMA WriteTmpIInv ==
  ASSUME IInv, WriteTmp
  PROVE  IInv'
<1> USE DEF IInv, WriteTmp, At, memory, history
<1>1. tmp' = used
  BY EncodeIsUsed
<1>2. section \in [op : {"add", "del"}, c : Containers, ip : Addresses, at : Steps]
  BY DEF TypeOK, Sections, Idle
<1>3. TypeOK'
  BY <1>1, <1>2 DEF TypeOK, Sections, Steps
<1>4. Inverse' /\ InSubnet'
  BY DEF Inverse, InSubnet
<1>5. SectionInv'
  BY <1>2 DEF SectionInv, Idle
<1>6. DiskInv'
  BY <1>1, <1>2 DEF DiskInv, OneEntryEach, Before, Unlocked, Idle
<1>7. GrantInv'
  BY DEF GrantInv
<1>8. QED
  BY <1>3, <1>4, <1>5, <1>6, <1>7

\* A roll-back that also unlocks restores the invariant, whatever becomes of the
\* temporary file.
LEMMA RollbackIInv ==
  ASSUME IInv, up, section.at \in {"write", "rename"},
         Rollback, section' = Idle, tmp' \in Table \cup {None, Torn},
         UNCHANGED <<up, cidr, file, history>>
  PROVE  IInv'
<1> USE AddressFacts DEF IInv, history
<1>1. section \in [op : {"add", "del"}, c : Containers, ip : Addresses, at : Steps]
  BY DEF TypeOK, Sections, Idle
<1>2. SectionInv'
  BY DEF SectionInv, Idle
<1>3. GrantInv'
  BY DEF GrantInv
<1>4. CASE section.op = "add"
  <2>1. Unassign(section.c, section.ip) /\ allocs[section.c] = section.ip
    BY <1>4 DEF Rollback, SectionInv
  <2>2. TypeOK'
    BY <1>1, <2>1 DEF TypeOK, Unassign, Sections, Table
  <2>3. Inverse' /\ InSubnet'
    BY <1>1, <2>1 DEF TypeOK, Unassign, Inverse, InSubnet, Table
  <2>4. DiskInv'
    BY <1>1, <1>4, <2>1
       DEF DiskInv, TypeOK, Unassign, Before, OneEntryEach, Unlocked, Idle, Table
  <2>5. QED
    BY <1>2, <1>3, <2>2, <2>3, <2>4
<1>5. CASE section.op = "del"
  <2>1. /\ Assign(section.c, section.ip)
        /\ allocs[section.c] = None
        /\ used[section.ip] = None
        /\ section.ip \in Block(cidr)
    BY <1>5 DEF Rollback, SectionInv
  <2>2. TypeOK'
    BY <1>1, <2>1 DEF TypeOK, Assign, Sections, Table
  <2>3. Inverse' /\ InSubnet'
    BY <1>1, <2>1 DEF TypeOK, Assign, Inverse, InSubnet, Table
  <2>4. DiskInv'
    BY <1>1, <1>5, <2>1
       DEF DiskInv, TypeOK, Assign, Before, OneEntryEach, Unlocked, Idle, Table
  <2>5. QED
    BY <1>2, <1>3, <2>2, <2>3, <2>4
<1>6. QED
  BY <1>1, <1>4, <1>5

LEMMA WriteTmpFailsIInv ==
  ASSUME IInv, WriteTmpFails
  PROVE  IInv'
<1>1. up /\ section.at = "write"
  BY DEF WriteTmpFails, At
<1>2. tmp' \in Table \cup {None, Torn}
  BY DEF WriteTmpFails, IInv, TypeOK
<1>3. QED
  BY <1>1, <1>2, RollbackIInv DEF WriteTmpFails

LEMMA RenameFailsIInv ==
  ASSUME IInv, RenameFails
  PROVE  IInv'
<1>1. up /\ section.at = "rename"
  BY DEF RenameFails, At
<1>2. tmp' \in Table \cup {None, Torn}
  BY DEF RenameFails, IInv, TypeOK
<1>3. QED
  BY <1>1, <1>2, RollbackIInv DEF RenameFails

LEMMA RenameTmpIInv ==
  ASSUME IInv, RenameTmp
  PROVE  IInv'
<1> USE AddressFacts DEF IInv, RenameTmp, At, memory, history
<1>1. section \in [op : {"add", "del"}, c : Containers, ip : Addresses, at : Steps]
  BY DEF TypeOK, Sections, Idle
<1>2. tmp = used
  BY DEF DiskInv
<1>3. TypeOK'
  BY <1>1, <1>2 DEF TypeOK, Sections, Steps
<1>4. Inverse' /\ InSubnet'
  BY DEF Inverse, InSubnet
<1>5. SectionInv'
  BY <1>1 DEF SectionInv, Idle
<1>6. DiskInv'
  <2>1. file' # Torn
    BY <1>2 DEF TypeOK
  <2>2. OneEntryEach(file')
    BY <1>2 DEF OneEntryEach, Inverse
  <2>3. QED
    BY <1>1, <1>2, <2>1, <2>2 DEF DiskInv, Unlocked, Idle
<1>7. GrantInv'
  <2>1. ASSUME NEW d \in Containers, granted[d] # None
        PROVE  used[granted[d]] = d
    <3>1. granted[d] \in Block(cidr) /\ file[granted[d]] = d
      BY <2>1 DEF GrantInv
    <3>2. Before(granted[d]) = d
      BY <3>1 DEF DiskInv
    <3>3. granted[section.c] = None
      BY <1>1 DEF SectionInv
    <3>4. QED
      BY <2>1, <3>2, <3>3 DEF Before
  <2>2. QED
    BY <1>2, <2>1 DEF GrantInv
<1>8. QED
  BY <1>3, <1>4, <1>5, <1>6, <1>7

LEMMA ReturnIInv ==
  ASSUME IInv, Return
  PROVE  IInv'
<1> USE AddressFacts DEF IInv, Return, Tell, At, memory, disk, history
<1>1. section \in [op : {"add", "del"}, c : Containers, ip : Addresses, at : Steps]
  BY DEF TypeOK, Sections, Idle
<1>2. TypeOK'
  BY <1>1 DEF TypeOK, Sections
<1>3. Inverse' /\ InSubnet'
  BY DEF Inverse, InSubnet
<1>4. SectionInv'
  BY DEF SectionInv, Idle
<1>5. DiskInv'
  BY DEF DiskInv, OneEntryEach, Idle
<1>6. GrantInv'
  <2>1. section.op = "add" => /\ section.ip \in Block(cidr)
                              /\ file[section.ip] = section.c
    BY <1>1 DEF SectionInv, InSubnet, Inverse, DiskInv
  <2>2. QED
    BY <1>1, <2>1 DEF GrantInv, TypeOK
<1>7. QED
  BY <1>2, <1>3, <1>4, <1>5, <1>6

LEMMA CrashIInv ==
  ASSUME IInv, Crash
  PROVE  IInv'
<1> USE AddressFacts DEF IInv, Crash, NoAllocs, NoTable, history
<1>1. TypeOK'
  <2>1. tmp' \in Table \cup {None, Torn}
    BY EncodeIsUsed DEF TypeOK
  <2>2. QED
    BY <2>1 DEF TypeOK, Sections, Table
<1>2. Inverse' /\ InSubnet'
  BY DEF Inverse, InSubnet
<1>3. SectionInv'
  BY DEF SectionInv, Idle
<1>4. DiskInv'
  BY DEF DiskInv, OneEntryEach, Unlocked, Idle
<1>5. GrantInv'
  BY DEF GrantInv
<1>6. QED
  BY <1>1, <1>2, <1>3, <1>4, <1>5

LEMMA StartIInv ==
  ASSUME IInv, NEW n \in Cidrs, Start(n)
  PROVE  IInv'
<1> USE AddressFacts DEF IInv, Start, disk
<1>1. file \in Table /\ OneEntryEach(file)
  BY DEF TypeOK, DiskInv
<1>2. /\ allocs' \in [Containers -> Addresses \cup {None}]
      /\ used' \in Table
      /\ \A c \in Containers : allocs'[c] # None =>
           allocs'[c] \in Block(n) /\ file[allocs'[c]] = c
      /\ \A c \in Containers, ip \in Block(n) : file[ip] = c => allocs'[c] = ip
  BY <1>1, LoadIsInverse
<1>3. \A ip \in Addresses : used'[ip] = IF ip \in Block(n) THEN file[ip] ELSE None
  BY DEF LoadUsed
<1>4. section = Idle /\ section' = Idle
  BY DEF SectionInv
<1>5. TypeOK'
  BY <1>2 DEF TypeOK
<1>6. Inverse' /\ InSubnet'
  <2>1. \A c \in Containers : allocs'[c] # None => used'[allocs'[c]] = c
    BY <1>2, <1>3
  <2>2. \A ip \in Addresses : used'[ip] # None => allocs'[used'[ip]] = ip
    BY <1>1, <1>2, <1>3 DEF Table
  <2>3. QED
    BY <1>2, <2>1, <2>2 DEF Inverse, InSubnet
<1>7. SectionInv'
  BY <1>4 DEF SectionInv, Idle
<1>8. DiskInv'
  BY <1>3, <1>4 DEF DiskInv, OneEntryEach, Idle
<1>9. GrantInv'
  BY DEF GrantInv
<1>10. QED
  BY <1>5, <1>6, <1>7, <1>8, <1>9

LEMMA StepIInv ==
  ASSUME IInv, [Next]_vars
  PROVE  IInv'
<1>1. CASE UNCHANGED vars
  BY <1>1 DEF vars, IInv, TypeOK, Inverse, InSubnet, SectionInv,
              DiskInv, GrantInv, OneEntryEach, Before, Unlocked
<1>2. CASE Next
  BY <1>2, AddExistingIInv, AddFreshIInv, DelHeldIInv, WriteTmpIInv,
     WriteTmpFailsIInv, RenameTmpIInv, RenameFailsIInv, ReturnIInv, CrashIInv,
     StartIInv
     DEF Next
<1>3. QED
  BY <1>1, <1>2

\* The inductive invariant holds in every reachable state.
THEOREM Invariance == Spec => []IInv
<1>1. Init => IInv
  BY InitIInv
<1>2. IInv /\ [Next]_vars => IInv'
  BY StepIInv
<1>3. QED
  BY <1>1, <1>2, PTL DEF Spec

-----------------------------------------------------------------------------
\* What the invariant says of the maps, the file and the answers.
LEMMA IInvProperties ==
  ASSUME IInv
  PROVE  /\ TypeOK /\ Inverse /\ DiskReadable
         /\ ConsistentWithDisk /\ GrantDurable /\ NoDoubleGrant
<1>1. TypeOK /\ Inverse /\ DiskReadable
  BY DEF IInv, DiskInv, DiskReadable
<1>2. ConsistentWithDisk
  <2>1. \A ip \in Addresses : used[ip] # None => ip \in Block(cidr)
    BY AddressFacts DEF IInv, TypeOK, Table, Inverse, InSubnet
  <2>2. ASSUME Unlocked
        PROVE  \A ip \in Addresses : LoadUsed(file, cidr)[ip] = used[ip]
    BY <2>1, <2>2 DEF IInv, DiskInv, LoadUsed
  <2>3. ASSUME Unlocked
        PROVE  LoadUsed(file, cidr) = used
    BY <2>2, <2>3 DEF IInv, TypeOK, Table, LoadUsed
  <2>4. ASSUME Unlocked, NEW c \in Containers
        PROVE  LoadAllocs(file, cidr)[c] = allocs[c]
    <3>1. \A ip \in Block(cidr) : file[ip] = used[ip] /\ ip \in Addresses
      BY <2>4, AddressFacts DEF IInv, TypeOK, DiskInv
    <3>2. \A ip \in Block(cidr) : file[ip] = c <=> allocs[c] = ip
      BY <3>1, AddressFacts DEF IInv, TypeOK, Inverse
    <3>3. allocs[c] # None => allocs[c] \in Block(cidr)
      BY DEF IInv, TypeOK, InSubnet
    <3>4. QED
      BY <3>2, <3>3 DEF LoadAllocs
  <2>5. ASSUME Unlocked
        PROVE  LoadAllocs(file, cidr) = allocs
    BY <2>4, <2>5 DEF IInv, TypeOK, LoadAllocs
  <2>6. QED
    BY <1>1, <2>3, <2>5 DEF ConsistentWithDisk, DiskReadable
<1>3. GrantDurable
  BY DEF IInv, GrantInv, DiskInv, GrantDurable
<1>4. NoDoubleGrant
  BY DEF IInv, GrantInv, NoDoubleGrant
<1>5. QED
  BY <1>1, <1>2, <1>3, <1>4

\* The allocator's two maps are always each other's inverse, also after the
\* roll-back of a failed Add or Del.
THEOREM MapsAreInverse == Spec => []Inverse
<1>1. IInv => Inverse
  BY IInvProperties
<1>2. QED
  BY <1>1, Invariance, PTL

\* Whenever Allocator.mu is free, memory is what load makes of the state file.
THEOREM MemoryMatchesDisk == Spec => []ConsistentWithDisk
<1>1. IInv => ConsistentWithDisk
  BY IInvProperties
<1>2. QED
  BY <1>1, Invariance, PTL

\* The state file names the holder of every answered Add, at every crash point.
THEOREM AnsweredAddsSurvive == Spec => []GrantDurable
<1>1. IInv => GrantDurable
  BY IInvProperties
<1>2. QED
  BY <1>1, Invariance, PTL

\* No address is given to two containers.
THEOREM NoDoubleAllocation == Spec => []NoDoubleGrant
<1>1. IInv => NoDoubleGrant
  BY IInvProperties
<1>2. QED
  BY <1>1, Invariance, PTL

\* The state file decodes at every restart.
THEOREM RestartDecodes == Spec => []DiskReadable
<1>1. IInv => DiskReadable
  BY IInvProperties
<1>2. QED
  BY <1>1, Invariance, PTL

\* Every variable keeps its type.
THEOREM TypeCorrect == Spec => []TypeOK
<1>1. IInv => TypeOK
  BY IInvProperties
<1>2. QED
  BY <1>1, Invariance, PTL

-----------------------------------------------------------------------------
\* An answer is repeated, or nothing is held: no step gives a holder another
\* address.
THEOREM AnswersAreStable == Spec => StableGrant
<1>1. ASSUME IInv, [Next]_vars
      PROVE  [\A c \in Containers :
                granted[c] # None /\ granted'[c] # None => granted'[c] = granted[c]]_vars
  <2> SUFFICES ASSUME Next, NEW d \in Containers, granted[d] # None, granted'[d] # None
               PROVE  granted'[d] = granted[d]
    BY <1>1
  <2>1. CASE \E c \in Containers : AddExisting(c)
    <3>1. PICK c \in Containers : AddExisting(c)
      BY <2>1
    <3>2. allocs[c] = granted[c] \/ granted[c] = None
      BY <1>1, <3>1, AddressFacts
         DEF AddExisting, Unlocked, IInv, TypeOK, Table, Inverse, GrantInv, DiskInv
    <3>3. QED
      BY <1>1, <3>1, <3>2 DEF AddExisting, Tell, IInv, TypeOK
  <2>2. CASE \E c \in Containers : DelHeld(c)
    BY <1>1, <2>2 DEF DelHeld, Tell, IInv, TypeOK
  <2>3. CASE Return
    BY <1>1, <2>3 DEF Return, Tell, history, At, IInv, TypeOK, SectionInv, Steps, Sections, Idle
  <2>4. CASE \E n \in Cidrs : Start(n)
    BY <1>1, <2>4 DEF Start
  <2>5. CASE UNCHANGED granted
    BY <2>5
  <2>6. QED
    BY <2>1, <2>2, <2>3, <2>4, <2>5
       DEF Next, AddFresh, WriteTmp, WriteTmpFails, RenameTmp, RenameFails, Crash, history
<1>2. QED
  BY <1>1, Invariance, PTL DEF Spec, StableGrant

-----------------------------------------------------------------------------
\* Some pod CIDR has ip among the addresses of its scan.
Host(ip) == \E n \in Cidrs : ip \in HostRange(n)

\* Whatever has a container's name on it came from the scan of some pod CIDR,
\* the address that a failing Del would put back too.
HostInv ==
  /\ \A ip \in Addresses : file[ip] # None => Host(ip)
  /\ \A ip \in Addresses : used[ip] # None => Host(ip)
  /\ section.op = "del" => Host(section.ip)

\* No address of the scan is the network address, the gateway or the broadcast
\* address.
LEMMA ReservedNotHost ==
  ASSUME NEW n \in Cidrs
  PROVE  HostRange(n) \subseteq Block(n) \ Reserved(n)
<1>1. n.base \in Nat /\ n.size \in Nat
  BY CidrsAssumption DEF IsCidr
<1>2. Gateway(n) <= n.base + 1
  <2>1. \A b \in Nat : (256 * (b \div 256)) + ((b + 1) % 256) <= b + 1
    OBVIOUS
  <2>2. QED
    BY <1>1, <2>1 DEF Gateway
<1>3. Gateway(n) \in Int
  BY <1>1 DEF Gateway
<1>4. QED
  BY <1>1, <1>2, <1>3 DEF HostRange, Block, Reserved

LEMMA StepHostInv ==
  ASSUME IInv, HostInv, [Next]_vars
  PROVE  HostInv'
<1> USE AddressFacts
<1>0. cidr \in Cidrs /\ used \in Table /\ (section = Idle => section.op = "none")
  BY DEF IInv, TypeOK, Idle
<1>1. CASE \E c \in Containers : AddFresh(c)
  <2>1. PICK c \in Containers, ip \in Addresses :
          ip \in HostRange(cidr) /\ Assign(c, ip) /\ section'.op = "add"
    BY <1>1 DEF AddFresh, IsNextFree
  <2>2. file' = file
    BY <1>1 DEF AddFresh, disk
  <2>3. QED
    BY <1>0, <2>1, <2>2 DEF HostInv, Host, Assign, Table
<1>2. CASE \E c \in Containers : DelHeld(c)
  <2>1. PICK c \in Containers : DelHeld(c)
    BY <1>2
  <2>2. allocs[c] \in Addresses /\ Host(allocs[c])
    BY <2>1 DEF DelHeld, IInv, TypeOK, Inverse, HostInv
  <2>3. \A ip \in Addresses : used'[ip] # None => Host(ip)
    BY <1>0, <2>1 DEF DelHeld, Unassign, HostInv, Table
  <2>4. QED
    BY <2>1, <2>2, <2>3 DEF DelHeld, HostInv, Host, disk
<1>3. CASE WriteTmpFails \/ RenameFails
  <2>1. section \in [op : {"add", "del"}, c : Containers, ip : Addresses, at : Steps]
    BY <1>3 DEF WriteTmpFails, RenameFails, At, IInv, TypeOK, Sections, Idle
  <2>2. Rollback /\ section' = Idle /\ file' = file
    BY <1>3 DEF WriteTmpFails, RenameFails
  <2>3. \A ip \in Addresses : used'[ip] # None => Host(ip)
    BY <1>0, <2>1, <2>2 DEF Rollback, Assign, Unassign, HostInv, Table
  <2>4. QED
    BY <2>2, <2>3 DEF HostInv, Host, Idle
<1>4. CASE RenameTmp
  BY <1>4 DEF RenameTmp, At, IInv, DiskInv, TypeOK, Sections, Idle, HostInv, Host, memory
<1>5. CASE Crash
  BY <1>5 DEF Crash, NoTable, Idle, HostInv, Host
<1>6. CASE \E n \in Cidrs : Start(n)
  <2>1. \A ip \in Addresses : used'[ip] # None => Host(ip)
    BY <1>6 DEF Start, LoadUsed, HostInv
  <2>2. section' = Idle /\ file' = file
    BY <1>6 DEF Start, IInv, SectionInv, disk
  <2>3. QED
    BY <2>1, <2>2 DEF HostInv, Host, Idle
<1>7. CASE \/ UNCHANGED vars
           \/ \E c \in Containers : AddExisting(c)
           \/ Return
  BY <1>7 DEF vars, AddExisting, Return, memory, disk, history, HostInv, Host, Idle
<1>8. CASE WriteTmp
  <2>1. section \in [op : {"add", "del"}, c : Containers, ip : Addresses, at : Steps]
    BY <1>8 DEF WriteTmp, At, IInv, TypeOK, Sections, Idle
  <2>2. QED
    BY <1>8, <2>1 DEF WriteTmp, memory, HostInv, Host
<1>9. QED
  BY <1>1, <1>2, <1>3, <1>4, <1>5, <1>6, <1>7, <1>8 DEF Next

\* A container has a reserved address of the pod CIDR in force only from another
\* pod CIDR, of which it is a host address (ipam.go:135-138, 149, 207).
THEOREM ReservedNeverGiven == Spec => []NeverReserved
<1>1. Init => HostInv
  BY AddressFacts DEF Init, NoTable, Idle, HostInv
<1>2. IInv /\ HostInv /\ [Next]_vars => HostInv'
  BY StepHostInv
<1>3. ASSUME IInv, HostInv, NEW c \in Containers, allocs[c] \in Reserved(cidr)
      PROVE  \E n \in Cidrs \ {cidr} : allocs[c] \in Block(n) \ Reserved(n)
  <2>1. cidr \in Cidrs /\ allocs[c] \in Addresses \cup {None}
    <3>1. TypeOK
      BY <1>3 DEF IInv
    <3>2. QED
      BY <3>1 DEF TypeOK
  <2>2. allocs[c] # None
    <3>1. cidr.base \in Nat /\ cidr.size \in Nat
      BY <2>1, CidrsAssumption DEF IsCidr
    <3>2. Reserved(cidr) \subseteq Int
      BY <3>1 DEF Reserved, Gateway
    <3>3. QED
      BY <1>3, <3>2, NoneAssumption
  <2>3. Host(allocs[c])
    <3>1. Inverse /\ HostInv
      BY <1>3 DEF IInv
    <3>2. used[allocs[c]] = c
      BY <2>1, <2>2, <3>1 DEF Inverse
    <3>3. QED
      BY <2>1, <2>2, <3>1, <3>2, AddressFacts DEF HostInv
  <2>4. QED
    BY <1>3, <2>1, <2>3, ReservedNotHost DEF Host
<1>4. IInv /\ HostInv => NeverReserved
  BY <1>3 DEF NeverReserved
<1>5. QED
  BY <1>1, <1>2, <1>4, Invariance, PTL DEF Spec

\* The network address of a subnet of more than one address is even, so that
\* the increment of its last octet does not wrap.
LEMMA GatewayFollowsBase ==
  ASSUME NEW n \in Cidrs, n.size > 1
  PROVE  Gateway(n) = n.base + 1
<1>1. n.base \in Nat /\ n.size \in Nat \ {0} /\ n.size % 2 = 0 /\ n.base % n.size = 0
  BY CidrsAssumption DEF IsCidr
<1> DEFINE k == n.base \div n.size
           j == n.size \div 2
           q == n.base \div 256
           r == n.base % 256
<1>2. k \in Int /\ n.base = n.size * k
  BY <1>1
<1>3. j \in Int /\ n.size = 2 * j
  BY <1>1
<1>4. n.base = 2 * (j * k) /\ j * k \in Int
  BY <1>2, <1>3
<1>5. q \in Int /\ r \in 0..255 /\ n.base = 256 * q + r
  <2>1. \A b \in Nat : /\ b \div 256 \in Int /\ b % 256 \in 0..255
                      /\ b = 256 * (b \div 256) + (b % 256)
    OBVIOUS
  <2>2. QED
    BY <1>1, <2>1
<1>6. r # 255
  BY <1>4, <1>5
<1>7. (n.base + 1) % 256 = r + 1
  BY <1>5, <1>6
<1>8. QED
  BY <1>5, <1>7 DEF Gateway

\* A pod with an address of the scan has the address after the network address,
\* in the pod CIDR, for its gateway (ipam.go:226-231).
THEOREM GatewayFollows == Spec => []GatewayIsNext
<1>1. ASSUME IInv, NEW c \in Containers, allocs[c] \in HostRange(cidr)
      PROVE  Gateway(cidr) = cidr.base + 1 /\ Gateway(cidr) \in Block(cidr)
  <2>1. cidr \in Cidrs /\ allocs[c] \in cidr.base + 2 .. cidr.base + cidr.size - 2
    BY <1>1 DEF IInv, TypeOK, HostRange
  <2>2. cidr.base \in Nat /\ cidr.size \in Nat /\ cidr.size > 1
    BY <2>1, CidrsAssumption DEF IsCidr
  <2>3. QED
    BY <2>1, <2>2, GatewayFollowsBase DEF Block
<1>2. IInv => GatewayIsNext
  BY <1>1 DEF GatewayIsNext
<1>3. QED
  BY <1>2, Invariance, PTL

-----------------------------------------------------------------------------
\* A set of numbers from an interval has a least one, if it has any: of the sets
\* of numbers below one of its members, one has no strict subset among them.
LEMMA LeastOfInterval ==
  ASSUME NEW a \in Int, NEW b \in Int, NEW S \in SUBSET (a .. b), S # {}
  PROVE  \E x \in S : \A y \in S : x <= y
<1> DEFINE Below(x) == {y \in S : y < x}
           T == {Below(x) : x \in S}
           Smaller == Finite!StrictSubsetOrdering(a .. b)
<1>1. Finite!FiniteSubsetsOf(a .. b) = SUBSET (a .. b)
  BY Finite!FS_Interval, Finite!FS_FiniteSubsetsOfFinite
<1>2. \E X \in T : \A Y \in T : <<Y, X>> \notin Smaller
  <2>1. T \subseteq SUBSET (a .. b) /\ T # {}
    OBVIOUS
  <2>2. Finite!IsWellFoundedOn(Smaller, SUBSET (a .. b))
    BY <1>1, Finite!FS_StrictSubsetOrderingWellFounded
  <2> HIDE DEF T, Smaller
  <2>3. QED
    BY <2>1, <2>2, Finite!WFMin
<1>3. PICK x \in S : \A y \in S : <<Below(y), Below(x)>> \notin Smaller
  BY <1>2
<1>4. ASSUME NEW y \in S, y < x
      PROVE  FALSE
  <2>1. x \in Int /\ y \in Int /\ \A z \in S : z \in Int
    OBVIOUS
  <2>2. ASSUME NEW z \in Below(y) PROVE z \in Below(x)
    <3>1. z \in S /\ z < y /\ z \in Int
      BY <2>1, <2>2
    <3>2. z < x
      BY <1>4, <2>1, <3>1
    <3>3. QED
      BY <3>1, <3>2
  <2>3. y \in Below(x) /\ y \notin Below(y)
    BY <1>4, <2>1
  <2>4. Below(y) \subseteq a .. b /\ Below(x) \subseteq a .. b
    OBVIOUS
  <2>5. <<Below(y), Below(x)>> \in Smaller
    BY <2>2, <2>3, <2>4 DEF Finite!StrictSubsetOrdering
  <2>6. QED
    BY <1>3, <2>5
<1>5. QED
  BY <1>4

\* Add fails for want of an address only when all are on disk: between two calls
\* the reverse index that the scan consults agrees with the file, through every
\* roll-back and restart (ipam.go:85-89, 107-117, 149-156).
THEOREM FreeIsFound == Spec => []ExhaustedOnlyIfFull
<1>1. ASSUME IInv, Unlocked, NEW free \in HostRange(cidr), file[free] = None
      PROVE  \E ip \in Addresses : IsNextFree(ip, cidr, {a \in Addresses : used[a] # None})
  <2> DEFINE taken == {a \in Addresses : used[a] # None}
             S == HostRange(cidr) \ taken
  <2>1. cidr \in Cidrs /\ cidr.base \in Nat /\ cidr.size \in Nat
    <3>1. cidr \in Cidrs
      BY <1>1 DEF IInv, TypeOK
    <3>2. QED
      BY <3>1, CidrsAssumption DEF IsCidr
  <2>2. HostRange(cidr) \subseteq Block(cidr) /\ Block(cidr) \subseteq Addresses
    BY <2>1, AddressFacts, ReservedNotHost
  <2>3. used[free] = None
    BY <1>1, <2>2 DEF IInv, DiskInv
  <2>4. free \in S /\ S \in SUBSET (cidr.base + 2 .. cidr.base + cidr.size - 2)
    BY <1>1, <2>3 DEF HostRange
  <2>5. cidr.base + 2 \in Int /\ cidr.base + cidr.size - 2 \in Int
    BY <2>1
  <2> HIDE DEF S
  <2>6. PICK ip \in S : \A other \in S : ip <= other
    BY <2>4, <2>5, LeastOfInterval
  <2>7. QED
    BY <2>2, <2>6 DEF S, IsNextFree
<1>2. IInv => ExhaustedOnlyIfFull
  BY <1>1 DEF ExhaustedOnlyIfFull
<1>3. QED
  BY <1>2, Invariance, PTL

-----------------------------------------------------------------------------
\* The holders, read off a file in which no container has two entries.
LEMMA HoldersOfFile ==
  ASSUME IInv, NEW c \in Containers
  PROVE  /\ \A ip \in Addresses : DiskHolders[c] = ip <=> file[ip] = c
         /\ DiskHolders[c] \in Addresses \cup {None}
<1>1. file \in Table /\ OneEntryEach(file)
  BY DEF IInv, TypeOK, DiskInv
<1>2. CASE \E ip \in Addresses : file[ip] = c
  <2>1. PICK ip \in Addresses : file[ip] = c
    BY <1>2
  <2>2. \A other \in Addresses : file[other] = c => other = ip
    BY <1>1, <2>1, AddressFacts DEF OneEntryEach
  <2>3. DiskHolders[c] = ip
    BY <2>1, <2>2 DEF DiskHolders
  <2>4. QED
    BY <2>1, <2>2, <2>3
<1>3. CASE ~ \E ip \in Addresses : file[ip] = c
  BY <1>3, AddressFacts DEF DiskHolders
<1>4. QED
  BY <1>2, <1>3

\* The active holders are the entries of the file inside the pod CIDR.
LEMMA ActiveOfFile ==
  ASSUME IInv, NEW c \in Containers
  PROVE  /\ \A ip \in Block(cidr) : Pool!Active(c) = ip <=> file[ip] = c
         /\ Pool!Active(c) \in Block(cidr) \cup {None}
<1>1. Block(cidr) \subseteq Addresses /\ None \notin Block(cidr)
  BY AddressFacts DEF IInv, TypeOK
<1>2. QED
  BY <1>1, HoldersOfFile DEF Pool!Active, Pool!Block, Block

\* The rename is where Add and Del happen.
LEMMA RenameIsPoolStep ==
  ASSUME IInv, RenameTmp
  PROVE  \E c \in Containers : Pool!Allocate(c) \/ Pool!Release(c)
<1>1. section \in [op : {"add", "del"}, c : Containers, ip : Addresses, at : Steps]
  BY DEF RenameTmp, At, IInv, TypeOK, Sections, Idle
<1>2. /\ file' = used
      /\ cidr' = cidr
      /\ used \in Table
      /\ IInv'
      /\ \A ip \in Block(cidr) : file[ip] = Before(ip)
  BY RenameTmpIInv DEF RenameTmp, At, IInv, TypeOK, DiskInv
<1>3. \A ip \in Addresses, d \in Containers : used[ip] = d => ip \in Block(cidr)
  BY <1>2, AddressFacts DEF IInv, Inverse, InSubnet
<1>4. Block(cidr) \subseteq Addresses /\ None \notin Addresses /\ None \notin Containers
  BY AddressFacts DEF IInv, TypeOK
<1>5. \A d \in Containers : \A ip \in Addresses : DiskHolders'[d] = ip <=> used[ip] = d
  <2>1. ASSUME NEW d \in Containers, NEW ip \in Addresses
        PROVE  DiskHolders'[d] = ip <=> used[ip] = d
    <3>1. \A other \in Addresses : used[other] = d => other = allocs[d]
      BY <1>2, <1>4 DEF IInv, Inverse
    <3>2. QED
      BY <1>2, <1>4, <3>1 DEF DiskHolders
  <2>2. QED
    BY <2>1
<1>6. \A d \in Containers : DiskHolders'[d] \in Addresses \cup {None}
  <2>1. ASSUME NEW d \in Containers
        PROVE  DiskHolders'[d] \in Addresses \cup {None}
    <3>1. CASE \E ip \in Addresses : used[ip] = d
      BY <1>5, <3>1
    <3>2. CASE ~ \E ip \in Addresses : used[ip] = d
      BY <1>2, <3>2 DEF DiskHolders
    <3>3. QED
      BY <3>1, <3>2
  <2>2. QED
    BY <2>1
<1>7. \A d \in Containers \ {section.c} : DiskHolders'[d] = Pool!Active(d)
  <2>1. ASSUME NEW d \in Containers, d # section.c
        PROVE  DiskHolders'[d] = Pool!Active(d)
    <3>1. \A ip \in Block(cidr) : Pool!Active(d) = ip <=> used[ip] = d
      <4>1. ASSUME NEW ip \in Block(cidr)
            PROVE  file[ip] = d <=> used[ip] = d
        <5>1. CASE ip # section.ip
          BY <1>2, <5>1 DEF Before
        <5>2. CASE ip = section.ip
          BY <1>1, <1>2, <1>4, <2>1, <5>2 DEF Before, IInv, SectionInv, Inverse
        <5>3. QED
          BY <5>1, <5>2
      <4>2. QED
        BY <4>1, ActiveOfFile
    <3>2. Pool!Active(d) \in Block(cidr) \cup {None}
      BY ActiveOfFile
    <3>3. QED
      BY <1>3, <1>4, <1>5, <1>6, <3>1, <3>2
  <2>2. QED
    BY <2>1
<1>8. DiskHolders' = [d \in Containers |-> DiskHolders'[d]]
  BY DEF DiskHolders
<1>9. CASE section.op = "add"
  <2>1. /\ section.ip \in HostRange(cidr)
        /\ section.ip \in Block(cidr)
        /\ used[section.ip] = section.c
        /\ file[section.ip] = None
    BY <1>1, <1>2, <1>4, <1>9 DEF IInv, SectionInv, Inverse, InSubnet, Before
  <2>2. \A d \in Containers : Pool!Active(d) # section.ip
    BY <1>4, <2>1, ActiveOfFile
  <2>3. Pool!Active(section.c) = None
    <3>1. \A ip \in Block(cidr) : file[ip] # section.c
      BY <1>1, <1>2, <1>4, <1>9, <2>1 DEF IInv, SectionInv, Inverse, Before
    <3>2. QED
      BY <1>1, <3>1, ActiveOfFile
  <2>4. DiskHolders'[section.c] = section.ip
    BY <1>1, <1>5, <2>1
  <2>5. Pool!Settle(section.c, section.ip)
    BY <1>2, <1>7, <1>8, <2>4 DEF Pool!Settle
  <2>6. QED
    BY <1>1, <2>1, <2>2, <2>3, <2>5 DEF Pool!Allocate, Pool!HostRange, HostRange
<1>10. CASE section.op = "del"
  <2>1. /\ section.ip \in Block(cidr)
        /\ allocs[section.c] = None
        /\ file[section.ip] = section.c
    BY <1>1, <1>2, <1>10 DEF IInv, SectionInv, Before
  <2>2. Pool!Active(section.c) # None
    BY <1>1, <1>4, <2>1, ActiveOfFile
  <2>3. \A ip \in Addresses : used[ip] # section.c
    BY <1>1, <1>4, <2>1 DEF IInv, Inverse
  <2>4. DiskHolders'[section.c] = None
    BY <1>1, <1>5, <1>6, <2>3
  <2>5. Pool!Settle(section.c, None)
    BY <1>2, <1>7, <1>8, <2>4 DEF Pool!Settle
  <2>6. QED
    BY <1>1, <2>2, <2>5 DEF Pool!Release
<1>11. QED
  BY <1>1, <1>9, <1>10

\* The allocator with its files, failures and restarts implements AddressPool.
THEOREM Refinement == Spec => ImplementsPool
<1>1. Init => Pool!Init
  <2> SUFFICES ASSUME Init
               PROVE  Pool!Init
    OBVIOUS
  <2>1. \A c \in Containers : DiskHolders[c] = None
    BY AddressFacts DEF Init, NoTable, DiskHolders
  <2>2. DiskHolders = [c \in Containers |-> None]
    BY <2>1 DEF DiskHolders
  <2>3. QED
    BY <2>2 DEF Init, Pool!Init
<1>2. IInv /\ [Next]_vars => [Pool!Next]_(Pool!poolVars)
  <2> SUFFICES ASSUME IInv, [Next]_vars
               PROVE  [Pool!Next]_(Pool!poolVars)
    OBVIOUS
  <2>1. CASE RenameTmp
    BY <2>1, RenameIsPoolStep DEF Pool!Next
  <2>2. CASE \E n \in Cidrs : Start(n)
    BY <2>2 DEF Start, disk, DiskHolders, Pool!Next, Pool!Reassign
  <2>3. CASE UNCHANGED <<cidr, file>>
    BY <2>3 DEF DiskHolders, Pool!poolVars
  <2>4. QED
    BY <2>1, <2>2, <2>3
       DEF Next, vars, AddExisting, AddFresh, DelHeld, WriteTmp, WriteTmpFails,
           RenameFails, Return, Crash, disk
<1>3. QED
  BY <1>1, <1>2, Invariance, PTL DEF Spec, ImplementsPool, Pool!Spec

\* No address has two active holders on disk, through every failed write, crash
\* and change of the pod CIDR: AddressPool's promise, by the refinement.
THEOREM HoldersAreExclusive == Spec => []Pool!Exclusive
<1>1. \A n \in Cidrs : Pool!IsCidr(n)
  BY CidrsAssumption DEF IsCidr, Pool!IsCidr
<1>2. QED
  BY <1>1, Refinement, Pool!PoolIsExclusive, PTL DEF ImplementsPool
=============================================================================
