------------------------------ MODULE InodeData ------------------------------
(***************************************************************************)
(* The inode data of the castore FUSE layer (src/castore/src/fs/inodes.rs) *)
(* built from protobuf nodes, and the attributes it reports to the        *)
(* kernel.  from_node unwraps the digest conversion of digests.rs, so a   *)
(* node with a digest that is not 32 bytes long panics.                   *)
(*                                                                         *)
(* One inode is followed: the node it is built from (or, for a populated  *)
(* directory, the data the lookup left), then the calls that report its   *)
(* attributes.                                                             *)
(***************************************************************************)
EXTENDS Naturals, Sequences, B3Digest

CONSTANTS
  Names,       \* node names (model values)
  DigestIds,   \* digest identities (model values)
  DigestLens,  \* lengths of the digest bytes a node may carry
  Sizes,       \* node sizes
  Targets,     \* symlink targets, as byte sequences
  Inodes,      \* inode numbers
  MaxChildren, \* bound on the children of a populated directory
  BitOr(_, _), \* the u32 `|` of the code (Bitwise's, in MCInodeData)
  BitAnd(_, _) \* the u32 `&` of the code (Bitwise's, in MCInodeData)

ASSUME NamesAssumption == Names # {}
ASSUME DigestLensAssumption == 32 \in DigestLens /\ DigestLens \subseteq Nat
ASSUME SizesAssumption == Sizes \subseteq Nat
ASSUME TargetsAssumption == \A t \in Targets : t \in Seq(0..255)
ASSUME MaxChildrenAssumption == MaxChildren \in Nat
ASSUME InodesAssumption == Inodes \subseteq Nat \ {0}

\* libc file type bits (Linux).
S_IFMT == 61440    \* 0o170000
S_IFDIR == 16384   \* 0o040000
S_IFREG == 32768   \* 0o100000
S_IFLNK == 40960   \* 0o120000

\* The file type bits and the permission bits 0o444, 0o555 of a mode do not
\* overlap: masking a mode with S_IFMT gives back its file type.
ASSUME ModeFieldsAssumption ==
  \A t \in {S_IFREG, S_IFLNK, S_IFDIR}, p \in {292, 365} :
     BitAnd(BitOr(t, p), S_IFMT) = t

Digests == {RawDigest(i, n) : i \in DigestIds, n \in DigestLens}

\* castorepb::node::Node
DirectoryNode(n, d, s) == [kind |-> "Directory", name |-> n, digest |-> d, size |-> s]
FileNode(n, d, s, x) ==
  [kind |-> "File", name |-> n, digest |-> d, size |-> s, executable |-> x]
SymlinkNode(n, t) == [kind |-> "Symlink", name |-> n, target |-> t]

Nodes ==
  {DirectoryNode(n, d, s) : n \in Names, d \in Digests, s \in Sizes}
  \cup {FileNode(n, d, s, x) : n \in Names, d \in Digests, s \in Sizes,
                               x \in BOOLEAN}
  \cup {SymlinkNode(n, t) : n \in Names, t \in Targets}

\* InodeData and DirectoryInodeData
Regular(d, s, x) == [kind |-> "Regular", digest |-> d, size |-> s, executable |-> x]
Symlink(t) == [kind |-> "Symlink", target |-> t]
Sparse(d, s) == [kind |-> "Directory", dir |-> "Sparse", digest |-> d, size |-> s]
Populated(d, cs) == [kind |-> "Directory", dir |-> "Populated", digest |-> d, children |-> cs]

\* The children lists a lookup may have left: (child inode, node) pairs.
ChildLists ==
  UNION {[1..k -> Inodes \X Nodes] : k \in 0..MaxChildren}

None == [kind |-> "None"]

VARIABLES
  node,   \* the protobuf node passed to from_node (None for a lookup's data)
  data,   \* the InodeData (None before from_node)
  name,   \* the name from_node split off
  attr,   \* the last Attr as_fuse_file_attr returned
  entry,  \* the last Entry as_fuse_entry returned
  ty,     \* the last result of as_fuse_type (0 before the first call)
  status  \* "node", "data", or "panicked" (an unwrap in from_node)

vars == <<node, data, name, attr, entry, ty, status>>

-----------------------------------------------------------------------------
\* The digest of a node, unwrapped: a B3Digest, or a panic (None).
Unwrap(r) == IF r.ok THEN r.val ELSE None

\* InodeData::from_node, the data part; the name is n.name.
FromNode(n) ==
  CASE n.kind = "Directory" -> Sparse(Unwrap(TryFromVec(n.digest)), n.size)
    [] n.kind = "File" ->
         Regular(Unwrap(TryFromVec(n.digest)), n.size, n.executable)
    [] n.kind = "Symlink" -> Symlink(n.target)

\* Mutant: a symlink reported with the mode of a regular file.
ModeSymlinkAsRegular(d) ==
  CASE d.kind = "Regular" /\ ~d.executable -> BitOr(S_IFREG, 292)
    [] d.kind = "Regular" /\ d.executable -> BitOr(S_IFREG, 365)
    [] d.kind = "Symlink" -> BitOr(S_IFREG, 292)
    [] d.kind = "Directory" -> BitOr(S_IFDIR, 365)

\* The `mode` of as_fuse_file_attr: file type bits | 0o444 or 0o555.
Mode(d) ==
  CASE d.kind = "Regular" /\ ~d.executable -> BitOr(S_IFREG, 292)
    [] d.kind = "Regular" /\ d.executable -> BitOr(S_IFREG, 365)
    [] d.kind = "Symlink" -> BitOr(S_IFLNK, 292)
    [] d.kind = "Directory" -> BitOr(S_IFDIR, 365)

\* The `size` of as_fuse_file_attr.
AttrSize(d) ==
  CASE d.kind = "Regular" -> d.size
    [] d.kind = "Symlink" -> Len(d.target)
    [] d.kind = "Directory" /\ d.dir = "Sparse" -> d.size
    [] d.kind = "Directory" /\ d.dir = "Populated" -> Len(d.children)

\* InodeData::as_fuse_file_attr(inode)
FuseFileAttr(d, ino) == [ino |-> ino, blocks |-> 1024, size |-> AttrSize(d), mode |-> Mode(d)]

\* InodeData::as_fuse_type
FuseType(d) ==
  CASE d.kind = "Regular" -> S_IFREG
    [] d.kind = "Symlink" -> S_IFLNK
    [] d.kind = "Directory" -> S_IFDIR

-----------------------------------------------------------------------------
(* A node arrives to be converted, or a lookup has left a populated       *)
(* directory's data.                                                       *)
Init ==
  /\ \/ /\ node \in Nodes
        /\ data = None
        /\ status = "node"
     \/ /\ node = None
        /\ data \in {Populated(d, cs) : d \in {x \in Digests : x.len = 32},
                                       cs \in ChildLists}
        /\ status = "data"
  /\ name = None
  /\ attr = None
  /\ entry = None
  /\ ty = 0

\* InodeData::from_node: panics on a directory or file digest that is not
\* 32 bytes long (`try_into().unwrap()`).
FromNodeStep ==
  /\ status = "node"
  /\ IF node.kind # "Symlink" /\ ~TryFromVec(node.digest).ok
       THEN /\ status' = "panicked"
            /\ UNCHANGED <<data, name>>
       ELSE /\ data' = FromNode(node)
            /\ name' = node.name
            /\ status' = "data"
  /\ UNCHANGED <<node, attr, entry, ty>>

\* InodeData::as_fuse_file_attr
AsFuseFileAttr(ino) ==
  /\ status = "data"
  /\ attr' = FuseFileAttr(data, ino)
  /\ UNCHANGED <<node, data, name, entry, ty, status>>

\* InodeData::as_fuse_entry: the attr of as_fuse_file_attr, no timeouts.
AsFuseEntry(ino) ==
  /\ status = "data"
  /\ entry' = [inode |-> ino, attr |-> FuseFileAttr(data, ino),
               attr_timeout |-> "MAX", entry_timeout |-> "MAX"]
  /\ UNCHANGED <<node, data, name, attr, ty, status>>

\* InodeData::as_fuse_type
AsFuseType ==
  /\ status = "data"
  /\ ty' = FuseType(data)
  /\ UNCHANGED <<node, data, name, attr, entry, status>>

Next ==
  \/ FromNodeStep
  \/ \E ino \in Inodes : AsFuseFileAttr(ino) \/ AsFuseEntry(ino)
  \/ AsFuseType

Spec == Init /\ [][Next]_vars

-----------------------------------------------------------------------------
\* The protobuf node an inode's data and name stand for (the inverse of
\* from_node on the nodes it accepts).
ToNode(d, n) ==
  CASE d.kind = "Regular" -> FileNode(n, d.digest, d.size, d.executable)
    [] d.kind = "Symlink" -> SymlinkNode(n, d.target)
    [] d.kind = "Directory" -> DirectoryNode(n, d.digest, d.size)

(* from_node loses nothing: the data and the name split off give back the *)
(* node it was built from, and it panics (at the digest unwrap) exactly   *)
(* for a directory or file whose digest is not 32 bytes long.             *)
FromNodeFaithful ==
  /\ (status = "data" /\ node # None) => ToNode(data, name) = node
  /\ (node # None /\ status # "node") =>
       ((status = "panicked") <=> (node.kind # "Symlink" /\ node.digest.len # 32))

(* The file type the kernel sees in the mode of as_fuse_file_attr (mode  *)
(* & S_IFMT) is the one as_fuse_type reports for the same inode: the two  *)
(* matches over InodeData must agree on every variant.                    *)
AttrAgreesWithType ==
  (attr # None /\ ty # 0) => BitAnd(attr.mode, S_IFMT) = ty

=============================================================================
