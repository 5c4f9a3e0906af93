------------------------------- MODULE MCNar -------------------------------
EXTENDS Nar

A == <<97>>
B == <<98>>

\* Children a generated root directory may hold, in the service's order:
\* files with a matching, a wrong and a missing blob, an executable file, a
\* symlink, and a subdirectory holding one file.  Names repeat, so some
\* directories have duplicates, and appear out of order.
Pool ==
  { FileNode(A, "helloworld", 12, FALSE), FileNode(B, "helloworld", 12, TRUE),
    FileNode(A, "helloworld", 5, FALSE), FileNode(B, "missing", 0, FALSE),
    SymNode(B, <<47>>), DirNode(A, "sub") }

Generated ==
  { [root |-> DirNode(<<>>, "root"),
     blobs |-> ("helloworld" :> HelloWorld) @@ ("empty" :> <<>>),
     dirs |-> ("root" :> cs)
              @@ ("sub" :> <<FileNode(AA, "empty", 0, TRUE)>>),
     expect |-> [kind |-> "none"]] : cs \in SeqOf(Pool, 2) }

MCScenarios ==
  {SingleSymlink, SingleFileMissingBlob, SingleFileWrongBlobSize, SingleFile,
   Complicated} \cup Generated

=============================================================================
