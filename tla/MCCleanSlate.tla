----------------------------- MODULE MCCleanSlate -----------------------------
(* Values for model checking CleanSlate.                                   *)
EXTENDS CleanSlate, TLC

(* An album of two tracks with art, and a standalone track.  One track was  *)
(* imported in place, from the folder "download"; the rest was copied into *)
(* the library.  "download" holds another file; "other" is unrelated;      *)
(* "attic" is a folder the library itself lies in.                         *)
Paths == {"lib/one", "dl/two", "lib/cover", "lib/single"}

Files == {"one", "two", "cover", "single", "two again", "else"}

AudioFiles == Files \ {"cover"}

Sources == {"download", "other", "attic"}

PathOfPart == "one" :> "lib/one" @@ "two" :> "dl/two"
                @@ "cover" :> "lib/cover" @@ "single" :> "lib/single"

FileAtPath == "lib/one" :> "one" @@ "dl/two" :> "two"
                @@ "lib/cover" :> "cover" @@ "lib/single" :> "single"

LibraryPaths == {"lib/one", "lib/cover", "lib/single"}

HoldsFiles == "download" :> {"two", "two again"} @@ "other" :> {"else"}
                @@ "attic" :> {"one", "cover", "single"}

UnderSource == "download" :> {"dl/two"} @@ "other" :> {}
                @@ "attic" :> {"lib/one", "lib/cover", "lib/single"}

(* The same, but "dl" was imported by way of a link in the library that    *)
(* leads to it.                                                            *)
LinkedPaths == LibraryPaths \union {"dl/two"}

NotUnderSource == [UnderSource EXCEPT !["download"] = {}]

=============================================================================
