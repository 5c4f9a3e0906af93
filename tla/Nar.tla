-------------------------------- MODULE Nar --------------------------------
(***************************************************************************)
(* The NAR renderer of the store (NARRenderer::write_nar), exercised by    *)
(* src/store/src/tests/nar_renderer.rs.  The renderer itself is not part  *)
(* of this repository; it is modelled from the specification (4.2): a     *)
(* depth-first, pre-order walk that streams one framed token (a "bytes    *)
(* wire packet", WireBytes.tla) per step into the output, resolves file   *)
(* contents in the blob service and directories in the directory service, *)
(* and emits directory entries in byte order of their names.              *)
(*                                                                         *)
(* Names, targets and contents are byte sequences; digests are model      *)
(* values.  A scenario is what the services hold and the node to render.  *)
(***************************************************************************)
EXTENDS Naturals, Sequences, SequencesExt, TLC, WireBytes

CONSTANT Scenarios  \* [root, blobs, dirs, expect] records, see Scenario

\* castore proto nodes.
DirNode(n, d) == [kind |-> "Directory", name |-> n, digest |-> d]
FileNode(n, d, s, x) ==
  [kind |-> "File", name |-> n, digest |-> d, size |-> s, executable |-> x]
SymNode(n, t) == [kind |-> "Symlink", name |-> n, target |-> t]

\* The literal words of the NAR grammar, as ASCII bytes.
NixArchive1 == <<110, 105, 120, 45, 97, 114, 99, 104, 105, 118, 101, 45, 49>>
LParen == <<40>>
RParen == <<41>>
TypeW == <<116, 121, 112, 101>>
SymlinkW == <<115, 121, 109, 108, 105, 110, 107>>
RegularW == <<114, 101, 103, 117, 108, 97, 114>>
DirectoryW == <<100, 105, 114, 101, 99, 116, 111, 114, 121>>
TargetW == <<116, 97, 114, 103, 101, 116>>
ContentsW == <<99, 111, 110, 116, 101, 110, 116, 115>>
ExecutableW == <<101, 120, 101, 99, 117, 116, 97, 98, 108, 101>>
EntryW == <<101, 110, 116, 114, 121>>
NameW == <<110, 97, 109, 101>>
NodeW == <<110, 111, 100, 101>>

\* Byte order on names: a proper prefix, or a smaller byte where they first
\* differ, comes first.
NameLess(s, t) ==
  \/ Len(s) < Len(t) /\ SubSeq(t, 1, Len(s)) = s
  \/ \E k \in 1..Len(s) :
       /\ k <= Len(t)
       /\ SubSeq(s, 1, k - 1) = SubSeq(t, 1, k - 1)
       /\ s[k] < t[k]

\* A directory's children as the walk emits them: sorted by name.
SortedChildren(cs) == SortSeq(cs, LAMBDA x, y : NameLess(x.name, y.name))

HasDuplicateNames(cs) ==
  \E i, j \in 1..Len(cs) : i # j /\ cs[i].name = cs[j].name

\* Work items of the walk: a token to write, or a node to render.
Tok(b) == [k |-> "tok", b |-> b]
NodeItem(n) == [k |-> "node", n |-> n]

EntryItems(c) ==
  <<Tok(EntryW), Tok(LParen), Tok(NameW), Tok(c.name), Tok(NodeW),
    NodeItem(c), Tok(RParen)>>

VARIABLES
  scen,    \* the scenario: the services' contents and the root node
  out,     \* the tokens written to the output so far
  work,    \* the walk's pending items, first to do first
  status   \* "running", "ok", or the error write_nar returned

vars == <<scen, out, work, status>>

-----------------------------------------------------------------------------
\* The items a node expands to, once its content has been resolved.
SymlinkItems(n) ==
  <<Tok(LParen), Tok(TypeW), Tok(SymlinkW), Tok(TargetW), Tok(n.target),
    Tok(RParen)>>

FileItems(n, contents) ==
  <<Tok(LParen), Tok(TypeW), Tok(RegularW)>>
  \o (IF n.executable THEN <<Tok(ExecutableW), Tok(<<>>)>> ELSE <<>>)
  \o <<Tok(ContentsW), Tok(contents), Tok(RParen)>>

DirItems(cs) ==
  <<Tok(LParen), Tok(TypeW), Tok(DirectoryW)>>
  \o FlattenSeq([i \in 1..Len(cs) |-> EntryItems(cs[i])])
  \o <<Tok(RParen)>>

\* Mutant: a directory's children emitted in the order the service holds.
ExpandDirUnsorted(n) ==
  /\ work' = DirItems(scen.dirs[n.digest]) \o Tail(work)
  /\ UNCHANGED <<scen, out, status>>

\* Mutant: a file's contents taken without comparing the blob's size.
ExpandFileNoSizeCheck(n) ==
  IF n.digest \notin DOMAIN scen.blobs
    THEN /\ status' = "BlobNotFound"
         /\ UNCHANGED <<scen, out, work>>
    ELSE /\ work' = FileItems(n, scen.blobs[n.digest]) \o Tail(work)
         /\ UNCHANGED <<scen, out, status>>

\* A file node: look the blob up, compare its size with the node's, then
\* stream "(" "type" "regular" ["executable" ""] "contents" blob ")".
ExpandFile(n) ==
  CASE n.digest \notin DOMAIN scen.blobs ->
         /\ status' = "BlobNotFound"
         /\ UNCHANGED <<scen, out, work>>
    [] Len(scen.blobs[n.digest]) # n.size ->
         /\ status' = "SizeMismatch"
         /\ UNCHANGED <<scen, out, work>>
    [] OTHER ->
         /\ work' = FileItems(n, scen.blobs[n.digest]) \o Tail(work)
         /\ UNCHANGED <<scen, out, status>>

\* A directory node: fetch the directory, refuse duplicate names, then
\* stream its entries in name order.
ExpandDir(n) ==
  IF HasDuplicateNames(scen.dirs[n.digest])
    THEN /\ status' = "DuplicateEntry"
         /\ UNCHANGED <<scen, out, work>>
    ELSE /\ work' = DirItems(SortedChildren(scen.dirs[n.digest])) \o Tail(work)
         /\ UNCHANGED <<scen, out, status>>

ExpandSymlink(n) ==
  /\ work' = SymlinkItems(n) \o Tail(work)
  /\ UNCHANGED <<scen, out, status>>

-----------------------------------------------------------------------------
\* write_nar(w, root): the archive starts with "nix-archive-1", then the root.
Init ==
  /\ scen \in Scenarios
  /\ out = <<>>
  /\ work = <<Tok(NixArchive1), NodeItem(scen.root)>>
  /\ status = "running"

\* Write the next token as one framed packet.
EmitToken ==
  /\ status = "running"
  /\ work # <<>>
  /\ Head(work).k = "tok"
  /\ out' = Append(out, Head(work).b)
  /\ work' = Tail(work)
  /\ UNCHANGED <<scen, status>>

\* Render the next node.
ExpandNode ==
  /\ status = "running"
  /\ work # <<>>
  /\ Head(work).k = "node"
  /\ LET n == Head(work).n IN
       CASE n.kind = "Symlink" -> ExpandSymlink(n)
         [] n.kind = "File" -> ExpandFile(n)
         [] n.kind = "Directory" -> ExpandDir(n)

\* The walk is done: write_nar returns Ok.
Finish ==
  /\ status = "running"
  /\ work = <<>>
  /\ status' = "ok"
  /\ UNCHANGED <<scen, out, work>>

Next == EmitToken \/ ExpandNode \/ Finish

Spec == Init /\ [][Next]_vars

-----------------------------------------------------------------------------
(***************************************************************************)
(* The NAR of a node by the grammar of the specification (4.2), written   *)
(* recursively, and the first error a pre-order walk meets.               *)
(***************************************************************************)
RECURSIVE NodeTokens(_, _)
NodeTokens(n, s) ==
  CASE n.kind = "Symlink" ->
         <<LParen, TypeW, SymlinkW, TargetW, n.target, RParen>>
    [] n.kind = "File" ->
         <<LParen, TypeW, RegularW>>
         \o (IF n.executable THEN <<ExecutableW, <<>> >> ELSE <<>>)
         \o <<ContentsW,
              IF n.digest \in DOMAIN s.blobs THEN s.blobs[n.digest] ELSE <<>>,
              RParen>>
    [] n.kind = "Directory" ->
         LET cs == SortedChildren(s.dirs[n.digest]) IN
         <<LParen, TypeW, DirectoryW>>
         \o FlattenSeq([i \in 1..Len(cs) |->
                          <<EntryW, LParen, NameW, cs[i].name, NodeW>>
                          \o NodeTokens(cs[i], s) \o <<RParen>>])
         \o <<RParen>>

RECURSIVE FirstError(_, _)
FirstError(n, s) ==
  CASE n.kind = "Symlink" -> "none"
    [] n.kind = "File" ->
         IF n.digest \notin DOMAIN s.blobs THEN "BlobNotFound"
         ELSE IF Len(s.blobs[n.digest]) # n.size THEN "SizeMismatch"
         ELSE "none"
    [] n.kind = "Directory" ->
         IF HasDuplicateNames(s.dirs[n.digest]) THEN "DuplicateEntry"
         ELSE LET cs == SortedChildren(s.dirs[n.digest])
                  errs == {i \in 1..Len(cs) : FirstError(cs[i], s) # "none"}
              IN IF errs = {} THEN "none"
                 ELSE FirstError(cs[CHOOSE i \in errs :
                                      \A j \in errs : i <= j], s)

NarTokens(s) == <<NixArchive1>> \o NodeTokens(s.root, s)

\* The bytes on the output for the tokens ts: one packet per token.
OutBytesOf(ts) == FlattenSeq([i \in 1..Len(ts) |-> WriteBytes(ts[i])])

-----------------------------------------------------------------------------
(***************************************************************************)
(* The scenarios of nar_renderer.rs: the node rendered, what the blob and *)
(* directory services hold, and what the test asserts.  HELLOWORLD and    *)
(* EMPTY blobs and the two fixture directories are given by the bytes the *)
(* tests expect.                                                           *)
(***************************************************************************)
NoFun == [x \in {} |-> <<>>]

DoesntMatter == <<100, 111, 101, 115, 110, 116, 109, 97, 116, 116, 101, 114>>
\* "/nix/store/somewhereelse"
SomewhereElse ==
  <<47, 110, 105, 120, 47, 115, 116, 111, 114, 101, 47, 115, 111, 109, 101,
    119, 104, 101, 114, 101, 101, 108, 115, 101>>
\* HELLOWORLD_BLOB_CONTENTS: "Hello World!"
HelloWorld == <<72, 101, 108, 108, 111, 32, 87, 111, 114, 108, 100, 33>>
DotKeep == <<46, 107, 101, 101, 112>>
Keep == <<107, 101, 101, 112>>
AA == <<97, 97>>

ExpectBytes(b) == [kind |-> "bytes", bytes |-> b]
ExpectError(e) == [kind |-> "error", err |-> e]

\* single_symlink
SingleSymlink ==
  [root |-> SymNode(DoesntMatter, SomewhereElse),
   blobs |-> NoFun, dirs |-> NoFun,
   expect |-> ExpectBytes(
     <<13, 0, 0, 0, 0, 0, 0, 0, 110, 105, 120, 45, 97, 114, 99, 104, 105, 118,
       101, 45, 49, 0, 0, 0>>
     \o <<1, 0, 0, 0, 0, 0, 0, 0, 40, 0, 0, 0, 0, 0, 0, 0>>
     \o <<4, 0, 0, 0, 0, 0, 0, 0, 116, 121, 112, 101, 0, 0, 0, 0>>
     \o <<7, 0, 0, 0, 0, 0, 0, 0, 115, 121, 109, 108, 105, 110, 107, 0>>
     \o <<6, 0, 0, 0, 0, 0, 0, 0, 116, 97, 114, 103, 101, 116, 0, 0>>
     \o <<24, 0, 0, 0, 0, 0, 0, 0>> \o SomewhereElse
     \o <<1, 0, 0, 0, 0, 0, 0, 0, 41, 0, 0, 0, 0, 0, 0, 0>>)]

\* single_file_missing_blob: nothing in the stores.
SingleFileMissingBlob ==
  [root |-> FileNode(DoesntMatter, "helloworld", 12, FALSE),
   blobs |-> NoFun, dirs |-> NoFun,
   expect |-> ExpectError("BlobNotFound")]

\* single_file_wrong_blob_size: the node says 42 bytes, the blob has 12.
SingleFileWrongBlobSize ==
  [root |-> FileNode(DoesntMatter, "helloworld", 42, FALSE),
   blobs |-> ("helloworld" :> HelloWorld), dirs |-> NoFun,
   expect |-> ExpectError("SizeMismatch")]

\* single_file
SingleFile ==
  [root |-> FileNode(DoesntMatter, "helloworld", 12, FALSE),
   blobs |-> ("helloworld" :> HelloWorld), dirs |-> NoFun,
   expect |-> ExpectBytes(
     <<13, 0, 0, 0, 0, 0, 0, 0, 110, 105, 120, 45, 97, 114, 99, 104, 105, 118,
       101, 45, 49, 0, 0, 0>>
     \o <<1, 0, 0, 0, 0, 0, 0, 0, 40, 0, 0, 0, 0, 0, 0, 0>>
     \o <<4, 0, 0, 0, 0, 0, 0, 0, 116, 121, 112, 101, 0, 0, 0, 0>>
     \o <<7, 0, 0, 0, 0, 0, 0, 0, 114, 101, 103, 117, 108, 97, 114, 0>>
     \o <<8, 0, 0, 0, 0, 0, 0, 0, 99, 111, 110, 116, 101, 110, 116, 115>>
     \o <<12, 0, 0, 0, 0, 0, 0, 0>> \o HelloWorld \o <<0, 0, 0, 0>>
     \o <<1, 0, 0, 0, 0, 0, 0, 0, 41, 0, 0, 0, 0, 0, 0, 0>>)]

\* test_complicated: DIRECTORY_COMPLICATED holds the directory "keep"
\* (DIRECTORY_WITH_KEEP), the empty file ".keep" and the symlink "aa", in
\* the service's order (directories, files, symlinks); the expected output
\* is the packets the test annotates, in name order.
Complicated ==
  LET keepFile == FileNode(DotKeep, "empty", 0, FALSE) IN
  [root |-> DirNode(DoesntMatter, "complicated"),
   blobs |-> ("helloworld" :> HelloWorld) @@ ("empty" :> <<>>),
   dirs |-> ("complicated" :> <<DirNode(Keep, "withkeep"), keepFile,
                                 SymNode(AA, SomewhereElse)>>)
            @@ ("withkeep" :> <<keepFile>>),
   expect |-> ExpectBytes(OutBytesOf(
     << NixArchive1, LParen, TypeW, DirectoryW,
        EntryW, LParen, NameW, DotKeep, NodeW,
          LParen, TypeW, RegularW, ContentsW, <<>>, RParen, RParen,
        EntryW, LParen, NameW, AA, NodeW,
          LParen, TypeW, SymlinkW, TargetW, SomewhereElse, RParen, RParen,
        EntryW, LParen, NameW, Keep, NodeW,
          LParen, TypeW, DirectoryW,
          EntryW, LParen, NameW, DotKeep, NodeW,
            LParen, TypeW, RegularW, ContentsW, <<>>, RParen, RParen,
          RParen, RParen, RParen >>))]

-----------------------------------------------------------------------------
(* write_nar streams exactly the NAR of the root node: what it has       *)
(* written is always a prefix of the archive the grammar gives (entries  *)
(* in name order, pre-order, contents after the blob checks), it returns *)
(* Ok only with the whole archive written, and an error only if the walk *)
(* in pre-order meets that error first (missing blob, wrong blob size,   *)
(* duplicate name).                                                       *)
RendersNar ==
  /\ IsPrefix(out, NarTokens(scen))
  /\ status = "ok" =>
       out = NarTokens(scen) /\ FirstError(scen.root, scen) = "none"
  /\ status \notin {"running", "ok"} => status = FirstError(scen.root, scen)

(* The tests of nar_renderer.rs: when write_nar returns, the output bytes *)
(* are the ones the test asserts, or the error is the one it expects.    *)
MatchesTests ==
  (status # "running" /\ scen.expect.kind # "none") =>
    IF scen.expect.kind = "bytes"
      THEN status = "ok" /\ OutBytesOf(out) = scen.expect.bytes
      ELSE status = scen.expect.err

=============================================================================
