---------------------------- MODULE Negotiation -----------------------------
(***************************************************************************)
(* Accept and Accept-Encoding: acceptsJSON (httpx/accept.go) and           *)
(* acceptsGzip (middleware/compress.go).  A header is a sequence of        *)
(* entries; an entry has a range, "" when it is blank, and the values of   *)
(* its q parameters in order, of which some are not numbers ("bad").       *)
(***************************************************************************)
EXTENDS Integers, Sequences, SequencesExt

\* parseMediaRange, parseEncodingRange: the last q that is a number counts.
Quality(entry) ==
    FoldLeft(LAMBDA quality, q : IF q = "bad" THEN quality
                                 ELSE IF q = "zero" THEN 0 ELSE 1,
             1, entry.q)

\* matchSpecificity, against application/json; -1 is no match.
MediaSpecificity(range) ==
    CASE range = "application/json" -> 2
      [] range = "application/*" -> 1
      [] range = "*/*" -> 0
      [] OTHER -> -1

\* codingSpecificity.
CodingSpecificity(coding) ==
    CASE coding = "gzip" -> 1 [] coding = "*" -> 0 [] OTHER -> -1

\* The entries, each as how specifically it matches and how much it is
\* wanted.
Matches(header, Specificity(_)) ==
    [i \in DOMAIN header |-> [specificity |-> Specificity(header[i].range),
                              quality |-> Quality(header[i])]]

Nothing == [specificity |-> -1, quality |-> 0]

\* Mutant of Better: any later match counts.
BetterLater(best, match) == IF match.specificity >= 0 THEN match ELSE best

\* The first of the most specific matches counts.
Better(best, match) ==
    IF match.specificity > best.specificity THEN match ELSE best

Best(matches) == FoldLeft(Better, Nothing, matches)

AcceptsJSON(header) ==
    header = <<>> \/ Best(Matches(header, MediaSpecificity)).quality > 0

AcceptsGzip(header) == Best(Matches(header, CodingSpecificity)).quality > 0

\* What RFC 9110 asks for: the quality of the most specific range that
\* matches, the first of several.
Accepted(header, Specificity(_)) ==
    \E i \in DOMAIN header :
        /\ Specificity(header[i].range) >= 0
        /\ Quality(header[i]) > 0
        /\ \A j \in DOMAIN header \ {i} :
              \/ Specificity(header[j].range) < Specificity(header[i].range)
              \/ /\ Specificity(header[j].range) = Specificity(header[i].range)
                 /\ i < j
=============================================================================
