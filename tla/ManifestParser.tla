--------------------------- MODULE ManifestParser ---------------------------
(***************************************************************************)
(* Parse of pkg/objectset/parser/parse.go: from the manifest of a Helm     *)
(* release, a text of YAML documents, to the objects that it tracks.       *)
(***************************************************************************)
EXTENDS Naturals, Sequences

CONSTANTS
  Manifest,   \* the manifests of Helm releases
  Object,     \* the Kubernetes objects that a document may describe
  Empty,      \* a document without content: it decodes to nothing
  Broken,     \* a document that does not decode
  Documents   \* Documents[m]: the documents of the manifest m, in their order

ASSUME ParserAssumption ==
  /\ Documents \in [Manifest -> Seq(Object \cup {Empty, Broken})]
  /\ {Empty, Broken} \cap Object = {}

\* The documents that the loop of Parse gets to: an error of Decode, at the end of the text or
\* for a broken document, ends it, and it is not reported.
Decoded(m) ==
  {i \in DOMAIN Documents[m] : \A before \in 1 .. i : Documents[m][before] # Broken}


\* Mutant: a document without a kind is added like any other.
Parse_KeepsEmpty(m) == {Documents[m][i] : i \in Decoded(m)}

\* Parse: a decoded document without a kind is skipped, and the others are added to the set.
Parse(m) == {Documents[m][i] : i \in Decoded(m)} \ {Empty}

\* What a manifest tracks, as Helm reads it.
Tracked(m) == {Documents[m][i] : i \in DOMAIN Documents[m]} \cap Object
=============================================================================
