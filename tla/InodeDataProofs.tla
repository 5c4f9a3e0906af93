-------------------------- MODULE InodeDataProofs --------------------------
(***************************************************************************)
(* Proofs about the inode data of the castore FUSE layer, for all names,   *)
(* digests, sizes, targets and inode numbers, and for any bitwise          *)
(* operators under which a mode masked with S_IFMT gives back its type.   *)
(***************************************************************************)
EXTENDS InodeData, TLAPS

\* The InodeData values from_node and a lookup produce.
DataOK(d) ==
  /\ d.kind \in {"Regular", "Symlink", "Directory"}
  /\ d.kind = "Regular" => d.executable \in BOOLEAN

(***************************************************************************)
(* The inductive invariant: a node stays the node from_node was given; a   *)
(* panic happened exactly on a digest that is not 32 bytes long; the data *)
(* is what from_node made of the node; and the last attribute and type    *)
(* replies were computed from that data.                                  *)
(***************************************************************************)
IInv ==
  /\ status \in {"node", "data", "panicked"}
  /\ node = None => status = "data"
  /\ node # None => node \in Nodes
  /\ status # "data" => attr = None /\ ty = 0
  /\ status = "panicked" => node.kind # "Symlink" /\ node.digest.len # 32
  /\ (status = "data" /\ node # None) =>
        /\ node.kind = "Symlink" \/ node.digest.len = 32
        /\ data = FromNode(node)
        /\ name = node.name
  /\ status = "data" => DataOK(data)
  /\ attr # None => \E ino \in Inodes : attr = FuseFileAttr(data, ino)
  /\ ty # 0 => ty = FuseType(data)


-----------------------------------------------------------------------------
\* A protobuf node is never None, and has one of the three kinds.
LEMMA NodeKinds ==
  ASSUME NEW n \in Nodes
  PROVE  n # None /\ n.kind \in {"Directory", "File", "Symlink"}
BY DEF Nodes, None, DirectoryNode, FileNode, SymlinkNode

\* from_node makes well-formed InodeData of every node it accepts.
LEMMA FromNodeOK ==
  ASSUME NEW n \in Nodes
  PROVE  DataOK(FromNode(n))
BY DEF Nodes, DirectoryNode, FileNode, SymlinkNode, FromNode, DataOK,
       Sparse, Regular, Symlink

\* A digest of 32 bytes passes the length check unchanged.
LEMMA Unwrap32 ==
  ASSUME NEW d \in Digests, d.len = 32
  PROVE  Unwrap(TryFromVec(d)) = d
BY DEF Unwrap, TryFromVec, Ok

\* The length check refuses exactly the digests that are not 32 bytes long.
LEMMA CheckIff32 ==
  ASSUME NEW d \in Digests
  PROVE  TryFromVec(d).ok <=> d.len = 32
BY DEF TryFromVec, Ok, InvalidDigestLen

\* Splitting a node it accepts into data and name, from_node loses nothing.
LEMMA RoundTrip ==
  ASSUME NEW n \in Nodes, n.kind = "Symlink" \/ n.digest.len = 32
  PROVE  ToNode(FromNode(n), n.name) = n
<1>1. CASE \E nm \in Names, d \in Digests, sz \in Sizes : n = DirectoryNode(nm, d, sz)
  <2>1. PICK nm \in Names, d \in Digests, sz \in Sizes : n = DirectoryNode(nm, d, sz)
    BY <1>1
  <2>2. d.len = 32
    BY <2>1 DEF DirectoryNode
  <2>3. FromNode(n) = Sparse(d, sz)
    BY <2>1, <2>2, Unwrap32 DEF FromNode, DirectoryNode
  <2>. QED  BY <2>1, <2>3 DEF ToNode, Sparse, DirectoryNode
<1>2. CASE \E nm \in Names, d \in Digests, sz \in Sizes, x \in BOOLEAN :
             n = FileNode(nm, d, sz, x)
  <2>1. PICK nm \in Names, d \in Digests, sz \in Sizes, x \in BOOLEAN :
             n = FileNode(nm, d, sz, x)
    BY <1>2
  <2>2. d.len = 32
    BY <2>1 DEF FileNode
  <2>3. FromNode(n) = Regular(d, sz, x)
    BY <2>1, <2>2, Unwrap32 DEF FromNode, FileNode
  <2>. QED  BY <2>1, <2>3 DEF ToNode, Regular, FileNode
<1>3. CASE \E nm \in Names, t \in Targets : n = SymlinkNode(nm, t)
  BY <1>3 DEF FromNode, ToNode, Symlink, SymlinkNode
<1>. QED  BY <1>1, <1>2, <1>3 DEF Nodes


-----------------------------------------------------------------------------
\* Both ways an inode comes to be satisfy the inductive invariant.
LEMMA IInvInit == Init => IInv
<1>. SUFFICES ASSUME Init PROVE IInv
  OBVIOUS
<1>1. CASE node \in Nodes /\ data = None /\ status = "node"
  BY <1>1, NodeKinds DEF Init, IInv
<1>2. CASE node = None /\ status = "data"
       /\ data \in {Populated(d, cs) : d \in {x \in Digests : x.len = 32},
                                      cs \in ChildLists}
  <2>1. DataOK(data)
    BY <1>2 DEF Populated, DataOK
  <2>. QED  BY <1>2, <2>1 DEF Init, IInv
<1>. QED  BY <1>1, <1>2 DEF Init

\* from_node either panics at the unwrap or leaves the data of its node.
LEMMA FromNodeKeeps ==
  ASSUME IInv, FromNodeStep PROVE IInv'
<1>1. node \in Nodes /\ node # None /\ node.kind \in {"Directory", "File", "Symlink"}
  BY NodeKinds DEF IInv, FromNodeStep
<1>2. node.kind # "Symlink" => node.digest \in Digests
  BY <1>1 DEF Nodes, DirectoryNode, FileNode, SymlinkNode
<1>3. CASE node.kind # "Symlink" /\ ~TryFromVec(node.digest).ok
  <2>1. node.digest.len # 32
    BY <1>2, <1>3, CheckIff32
  <2>. QED  BY <1>1, <1>3, <2>1 DEF FromNodeStep, IInv
<1>4. CASE ~(node.kind # "Symlink" /\ ~TryFromVec(node.digest).ok)
  <2>1. node.kind = "Symlink" \/ node.digest.len = 32
    BY <1>2, <1>4, CheckIff32
  <2>2. data' = FromNode(node) /\ name' = node.name /\ status' = "data"
    BY <1>4 DEF FromNodeStep
  <2>3. DataOK(data')
    BY <1>1, <2>2, FromNodeOK
  <2>. QED  BY <1>1, <2>1, <2>2, <2>3 DEF FromNodeStep, IInv
<1>. QED  BY <1>3, <1>4

\* The inductive invariant is kept by every step.
LEMMA IInvStep == IInv /\ [Next]_vars => IInv'
<1>. SUFFICES ASSUME IInv, [Next]_vars PROVE IInv'
  OBVIOUS
<1>1. CASE FromNodeStep
  BY <1>1, FromNodeKeeps
<1>2. ASSUME NEW ino \in Inodes, AsFuseFileAttr(ino) PROVE IInv'
  BY <1>2 DEF AsFuseFileAttr, IInv, FuseFileAttr, None
<1>3. ASSUME NEW ino \in Inodes, AsFuseEntry(ino) PROVE IInv'
  BY <1>3 DEF AsFuseEntry, IInv
<1>4. CASE AsFuseType
  BY <1>4 DEF AsFuseType, IInv
<1>5. CASE UNCHANGED vars
  BY <1>5 DEF vars, IInv
<1>. QED  BY <1>1, <1>2, <1>3, <1>4, <1>5 DEF Next


-----------------------------------------------------------------------------
\* The invariant gives from_node's faithfulness in every state.
LEMMA FaithfulFromIInv == IInv => FromNodeFaithful
<1>. SUFFICES ASSUME IInv PROVE FromNodeFaithful
  OBVIOUS
<1>1. (status = "data" /\ node # None) => ToNode(data, name) = node
  BY RoundTrip DEF IInv
<1>2. (node # None /\ status # "node") =>
        ((status = "panicked") <=> (node.kind # "Symlink" /\ node.digest.len # 32))
  BY DEF IInv
<1>. QED  BY <1>1, <1>2 DEF FromNodeFaithful

\* The mode of as_fuse_file_attr, masked with S_IFMT, is as_fuse_type.
LEMMA ModeType ==
  ASSUME NEW d, DataOK(d)
  PROVE  BitAnd(Mode(d), S_IFMT) = FuseType(d)
<1>1. CASE d.kind = "Regular" /\ ~d.executable
  BY <1>1, ModeFieldsAssumption DEF Mode, FuseType
<1>2. CASE d.kind = "Regular" /\ d.executable
  BY <1>2, ModeFieldsAssumption DEF Mode, FuseType
<1>3. CASE d.kind = "Symlink"
  BY <1>3, ModeFieldsAssumption DEF Mode, FuseType
<1>4. CASE d.kind = "Directory"
  BY <1>4, ModeFieldsAssumption DEF Mode, FuseType
<1>. QED  BY <1>1, <1>2, <1>3, <1>4 DEF DataOK

\* The invariant gives the agreement of attr and type in every state.
LEMMA AgreesFromIInv == IInv => AttrAgreesWithType
<1>. SUFFICES ASSUME IInv, attr # None, ty # 0
              PROVE  BitAnd(attr.mode, S_IFMT) = ty
  BY DEF AttrAgreesWithType
<1>1. status = "data" /\ DataOK(data)
  BY DEF IInv
<1>2. PICK ino \in Inodes : attr = FuseFileAttr(data, ino)
  BY DEF IInv
<1>3. attr.mode = Mode(data) /\ ty = FuseType(data)
  BY <1>2 DEF IInv, FuseFileAttr
<1>. QED  BY <1>1, <1>3, ModeType

(* from_node panics exactly on a directory or file digest that is not 32  *)
(* bytes long, and for every other node the data and name it leaves give  *)
(* back the node: FromNodeFaithful holds in every reachable state, for    *)
(* every set of names, digests, sizes, targets and inodes.                *)
THEOREM FromNodeFaithfulHolds == Spec => []FromNodeFaithful
<1>1. Init => IInv
  BY IInvInit
<1>2. IInv /\ [Next]_vars => IInv'
  BY IInvStep
<1>3. IInv => FromNodeFaithful
  BY FaithfulFromIInv
<1>. QED  BY <1>1, <1>2, <1>3, PTL DEF Spec

(* The file type in the mode that as_fuse_file_attr reports and the type  *)
(* that as_fuse_type reports for the same inode agree in every reachable  *)
(* state: AttrAgreesWithType, given only that the type bits and the       *)
(* permission bits of a mode do not overlap (ModeFieldsAssumption).       *)
THEOREM AttrAgreesWithTypeHolds == Spec => []AttrAgreesWithType
<1>1. Init => IInv
  BY IInvInit
<1>2. IInv /\ [Next]_vars => IInv'
  BY IInvStep
<1>3. IInv => AttrAgreesWithType
  BY AgreesFromIInv
<1>. QED  BY <1>1, <1>2, <1>3, PTL DEF Spec

=============================================================================
