---------------------------- MODULE MCLiveScan ----------------------------
(* RunLiveScan on a small repository and the trees it goes through.        *)
EXTENDS RunLiveScan, TLC

MCParent ==
  [p \in {"src", "specs", "lib", "tsconfig.json"} |-> None] @@
  [p \in {"src/a.ts", "src/A.ts", "src/b.tsx", "src/e.ts", "src/d", "src/gen", "src/Docs",
          "src/docs"} |-> "src"] @@
  [p \in {"src/d/index.ts", "src/d/x.js"} |-> "src/d"] @@
  [p \in {"src/gen/g.ts"} |-> "src/gen"] @@
  [p \in {"specs/s.md", "specs/t.md", "specs/a\\b"} |-> "specs"] @@
  [p \in {"lib/l.ts", "lib/base.json"} |-> "lib"]
MCPaths == DOMAIN MCParent
MCAbove ==
  [p \in MCPaths |->
     IF MCParent[p] = None THEN {}
     ELSE {MCParent[p]} \union ({MCParent[MCParent[p]]} \ {None})]
MCIgnored == {"src/gen", "src/gen/g.ts", "src/Docs"}
MCLowerCase ==
  [p \in MCPaths |-> CASE p = "src/A.ts" -> "src/a.ts" [] p = "src/Docs" -> "src/docs"
                       [] OTHER -> p]
MCTsNames == {"src/a.ts", "src/A.ts", "src/b.tsx", "src/e.ts", "src/d/index.ts",
              "src/gen/g.ts", "lib/l.ts"}
MCSpecNames == {"specs/s.md", "specs/t.md"}
MCOddNames == {"specs/a\\b"}

(* specifiers: ./b in src/a.ts is src/b, @/b is b below the target of @/ *)
MCStemOf == ("./a" :> "src/a") @@ ("./b" :> "src/b") @@ ("./d" :> "src/d") @@
            ("./d/x" :> "src/d/x") @@ ("./e" :> "src/e") @@ ("./gen/g" :> "src/gen/g") @@
            ("../lib/l" :> "lib/l")
Rest == (<<"@/b", "@/">> :> "b") @@ (<<"@/l", "@/">> :> "l") @@
        (<<"@/d/x", "@/">> :> "d/x") @@ (<<"@/d/x", "@/d/">> :> "x")
MCNames == DOMAIN MCStemOf \union {"@/b", "@/l", "@/d/x", "@/../src/b", "react"}
MCDirs == {"", ".", "..", "src", "lib", "lib/src", "lib/lib", "src/src", "src/lib"}
MCSplice ==
  [x \in (MCNames \ DOMAIN MCStemOf) \X {"@/", "@/d/"} \X MCDirs |->
     IF x[1] = "@/../src/b" /\ x[2] = "@/" THEN "src/b"
     ELSE IF <<x[1], x[2]>> \in DOMAIN Rest THEN x[3] \o "/" \o Rest[<<x[1], x[2]>>] ELSE None]
MCStems == {MCStemOf[n] : n \in DOMAIN MCStemOf} \union
           ({MCSplice[x] : x \in DOMAIN MCSplice} \ {None})
MCPlace ==
  [x \in MCStems \X Suffixes |-> IF x[1] \o x[2] \in MCPaths THEN x[1] \o x[2] ELSE None]
MCPrefixLength == ("@/" :> 2) @@ ("@/d/" :> 4)
MCDirOf == ("tsconfig.json" :> "") @@ ("lib/base.json" :> "lib")
MCBelow ==
  [x \in MCDirs \X MCDirs |->
     CASE x[2] = "."  -> x[1]
       [] x[2] = ".." -> IF x[1] = "" THEN None ELSE ""
       [] x[1] = ""   -> x[2]
       [] x[1] \o "/" \o x[2] \in MCDirs -> x[1] \o "/" \o x[2]
       [] OTHER -> None]

Static(n, f) == [syntax |-> "static", name |-> n, form |-> f]
Call(n, f)   == [syntax |-> "call", name |-> n, form |-> f]
Spec1(status, ids) == [status |-> status, ids |-> ids]
Tsconfig(e, b, p) == [extends |-> e, baseUrl |-> b, paths |-> p]

(* src/a.ts and src/b.tsx import each other, src/a.ts what is outside src too *)
Base ==
  [config |-> "valid",
   entry  |-> [p \in MCPaths |->
                 IF p \in {"src", "specs", "lib", "src/gen", "src/Docs"} THEN "dir"
                 ELSE IF p \in {"src/a.ts", "src/b.tsx", "src/gen/g.ts", "specs/s.md",
                                "lib/l.ts"} THEN "file"
                 ELSE "missing"],
   text   |-> ("src/a.ts" :> {Static("./b", "plain"), Static("../lib/l", "plain")}) @@
              ("src/b.tsx" :> {Static("./a", "js"), Call("./d", "plain"),
                               Static("react", "plain")}) @@
              ("specs/s.md" :> Spec1("active", <<"a1">>)) @@
              ("specs/t.md" :> Spec1("draft", <<"a1", "a2">>)) @@
              [p \in {"tsconfig.json", "lib/base.json"} |-> Tsconfig(None, None, None)] @@
              [p \in MCTsNames |-> {}]]

(* p becomes what, and takes with it what is below *)
With(t, p, what) ==
  [t EXCEPT !.entry =
     [q \in MCPaths |-> IF q = p THEN what
                       ELSE IF p \notin MCAbove[q] \/ what = "dir" THEN t.entry[q]
                       ELSE IF what = "denied" THEN "denied" ELSE "missing"]]
Texts(t, p, what) == [t EXCEPT !.entry[p] = "file", !.text[p] = what]
Imports(t, set) == Texts(t, "src/a.ts", set)
Nested == With(With(With(Base, "src/d", "dir"), "src/d/index.ts", "file"),
               "src/d/x.js", "file")
Aliased(t) == Imports(t, {Static("@/b", "plain"), Static("@/l", "ts"),
                          Static("@/d/x", "js"),
                          Static("@/../src/b", "tsx"), Call("@/b", "plain")})
At(t, e, b, p) == Aliased(Texts(t, "tsconfig.json", Tsconfig(e, b, p)))
From(t, e, b, p) == Texts(t, "lib/base.json", Tsconfig(e, b, p))
ToSrc == {<<"@/", "src">>}

\* Trees on which nothing but the order of the steps and the text matters.
Sound ==
  {Base,
   Imports(Nested, {Static("./d", "plain"), Static("./d/x", "js"), Static("./gen/g", "tsx")}),
   Imports(Nested, {Static("./d/x", "plain"), Static("./b", "dotted"),
                    Static("./gen/g", "plain")}),
   Imports(With(Base, "src/e.ts", "dir"), {Static("./e", "plain"), Static("./e", "dts")}),
   Imports(Base, {Static("./b", "dtsjs"), Static("./d", "plain")}),
   With(Base, "specs/t.md", "file"),
   Texts(Base, "specs/t.md", Spec1("active", <<"a2">>)),
   At(Base, None, None, ToSrc),
   At(Base, None, None, {<<"@/", "lib">>}),
   At(Nested, None, None, {<<"@/", "src">>, <<"@/d/", "lib">>}),
   At(From(Base, None, None, None), "lib/base.json", None, ToSrc),
   At(From(Base, None, "..", ToSrc), "lib/base.json", None, None),
   At(From(Base, None, "..", None), "lib/base.json", None, ToSrc),
   At(From(Base, None, None, ToSrc), "lib/base.json", "src", None),
   At(From(Base, None, None, ToSrc), "lib/base.json", ".", {<<"@/", "lib">>})}

Unsound ==
  {[Base EXCEPT !.config = "invalid"],
   With(Base, "src", "missing"), With(Base, "src", "dirlink"),
   With(Base, "src/gen", "denied"), With(Base, "src/gen", "missing"), With(Base, "specs", "link"),
   With(Base, "src/A.ts", "file"), With(Base, "src/docs", "dir"),
   With(Base, "src/b.tsx", "link"), With(Base, "specs/t.md", "link"),
   With(Base, "src/b.tsx", "denied"), With(Base, "lib/l.ts", "denied"),
   With(Base, "specs/a\\b", "file"),
   Texts(Base, "src/b.tsx", Broken), Texts(Base, "specs/s.md", Broken),
   Texts(Base, "specs/t.md", Spec1("active", <<"a1">>)),
   Texts(Base, "specs/s.md", Spec1("active", <<"a2", "a2">>)),
   With(Base, "tsconfig.json", "denied"), With(Base, "tsconfig.json", "link"),
   At(From(Base, "tsconfig.json", None, None), "lib/base.json", None, ToSrc),
   At(Base, "lib/base.json", None, ToSrc), At(Base, Broken, None, ToSrc),
   At(Base, None, "..", ToSrc), At(Base, None, None, {<<"@/", "..">>}),
   At(From(Base, None, None, {<<"@/", "..">>}), "lib/base.json", None, ToSrc),
   At(From(Base, None, "src", {<<"@/", "lib/src">>}), "lib/base.json", ".", ToSrc)}

\* Trees in which nothing is amiss but the specs: src/a.ts and src/b.tsx import each other,
\* or src/b.tsx stands alone.
Quiet == Texts(Imports(Nested, {Static("./b", "plain")}), "src/b.tsx", {Static("./a", "js")})
QuietTrees ==
  {Quiet, Imports(Quiet, {}), Texts(Quiet, "specs/t.md", Spec1("active", <<"a2">>)),
   Texts(Quiet, "specs/s.md", Spec1("draft", <<"a1">>))}

MCCheckouts == Sound \union QuietTrees \union Unsound

\* a1 has two seeds, the second a product file of some of the trees only; a2 has no mapping.
MCMappings == {("a1" :> {"src/a.ts", "src/d/index.ts"}) @@ ("a2" :> None)}
=============================================================================
