------------------------------ MODULE Normalization ------------------------------
(***************************************************************************)
(* How an issue becomes a finding (agents/ticket_analyst/normalization.py).  *)
(* The text of an issue is the set of words in its title, body, labels and   *)
(* payload; what matters of a word is which markers occur in it, because     *)
(* they are looked for anywhere, also inside of other words.  A finding's    *)
(* id, title and line, which nothing decides on, are left out.               *)
(*                                                                         *)
(* As in Supervisor, an unused definition directly before another with the  *)
(* same parameters is a mutation of it.                                     *)
(***************************************************************************)
EXTENDS Integers, Sequences

CONSTANT None

\* What a payload may say about a finding, under any of the keys looked for.  A
\* blank value counts as none.
Field == {"severity", "scanner", "category", "cwe", "package", "file"}

Issue ==
  [words : SUBSET STRING,      \* of title, body and labels
   patterns : SUBSET {"cwe", "package", "file"},  \* expressions that match the text
   payload : [Field -> STRING \cup {None}],
   body : BOOLEAN, labels : BOOLEAN,  \* are there any
   repository : BOOLEAN]

\* Words, among those of the instances, that contain other markers.
Inside ==
  [allow |-> {"low"}, highlight |-> {"high"}, information |-> {"info"},
   informational |-> {"info"}, shadow |-> {"ado"}, secrets |-> {"secret"}]
Markers(word) == {word} \cup (IF word \in DOMAIN Inside THEN Inside[word] ELSE {})

\* The text: string values of the payload are part of it.
Text(issue) == issue.words \cup {issue.payload[f] : f \in Field}
Occurs(marker, issue) == \E word \in Text(issue) : marker \in Markers(word)

\* What a marker stands for; the first one that occurs decides.
SeveritiesUpwards ==
  <<<<"info", "informational">>, <<"informational", "informational">>, <<"low", "low">>,
    <<"moderate", "medium">>, <<"medium", "medium">>, <<"high", "high">>,
    <<"critical", "critical">>>>
SEVERITIES ==
  <<<<"critical", "critical">>, <<"high", "high">>, <<"medium", "medium">>,
    <<"moderate", "medium">>, <<"low", "low">>, <<"informational", "informational">>,
    <<"info", "informational">>>>

SCANNERS ==
  <<<<"dependabot", "dependabot">>, <<"github advanced security", "github-advanced-security">>,
    <<"codeql", "codeql">>, <<"secret scanning", "secret-scanning">>, <<"trivy", "trivy">>,
    <<"snyk", "snyk">>, <<"mend", "mend">>, <<"whitesource", "mend">>, <<"semgrep", "semgrep">>,
    <<"checkov", "checkov">>, <<"tfsec", "tfsec">>, <<"ado", "azure-devops">>>>

CATEGORY_KEYWORDS ==
  <<<<"secret", "secret">>, <<"credential", "secret">>, <<"dependency", "dependency">>,
    <<"package", "dependency">>, <<"container", "container">>, <<"docker", "container">>,
    <<"terraform", "iac">>, <<"bicep", "iac">>, <<"cloudformation", "iac">>,
    <<"sast", "sast">>, <<"codeql", "sast">>, <<"injection", "sast">>, <<"xss", "sast">>,
    <<"security", "security">>>>

FirstMatch(table, issue) ==
  LET hits == {i \in DOMAIN table : Occurs(table[i][1], issue)} IN
  IF hits = {} THEN None ELSE table[CHOOSE i \in hits : \A j \in hits : i =< j][2]

\* str.lower, on the payload values in which it makes a difference.
LowerCase == [HIGH |-> "high", Dependency |-> "dependency"]
Lower(word) == IF word \in DOMAIN LowerCase THEN LowerCase[word] ELSE word

\* The payload has the first word.
FromPayload(issue, field, inferred) ==
  IF issue.payload[field] = None THEN inferred ELSE issue.payload[field]

InferSeverity(issue) == Lower(FromPayload(issue, "severity", FirstMatch(SEVERITIES, issue)))
InferScanner(issue) == FromPayload(issue, "scanner", FirstMatch(SCANNERS, issue))
InferCategory(issue) == Lower(FromPayload(issue, "category", FirstMatch(CATEGORY_KEYWORDS, issue)))

\* For these it is only asked whether there is one.
Found(issue, field) == issue.payload[field] # None \/ field \in issue.patterns
InferCwe(issue) == Found(issue, "cwe")
InferPackage(issue) == Found(issue, "package")
InferFilePath(issue) == Found(issue, "file")

-----------------------------------------------------------------------------
(* Confidence, in hundredths. *)

\* The sum of 0.35, 0.1 and 0.05, in this order, is 0.49999999999999994 in binary
\* floating point: below a half.
Summed(score) == IF score = 50 THEN 49 ELSE score

Tenth(present) == IF present THEN 10 ELSE 0

PlacedTwice(f) == f.file_path /\ f.package_name
Placed(f) == f.file_path \/ f.package_name

ConfidenceFor(f, issue) ==
  LET score ==
        35 + Tenth(issue.body) + Tenth(issue.labels) + Tenth(f.severity # None)
           + Tenth(f.scanner # None) + Tenth(f.category # None)
           + Tenth(Placed(f)) + (IF f.cwe THEN 5 ELSE 0)
  IN IF score > 95 THEN 95 ELSE Summed(score)

NormalizeSourceIssue(issue) ==
  LET f == [severity |-> InferSeverity(issue), scanner |-> InferScanner(issue),
            category |-> InferCategory(issue), cwe |-> InferCwe(issue),
            package_name |-> InferPackage(issue), file_path |-> InferFilePath(issue),
            confidence |-> 0]
  IN [f EXCEPT !.confidence = ConfidenceFor(f, issue)]

\* Evidence of the repository that the issue came with; nobody has read it yet.
SeedEvidence(issue) ==
  IF issue.repository THEN [repository |-> TRUE, file_exists |-> "none"] ELSE None

BuildCasefile(issue) ==
  [source_issue |-> issue,
   normalized_finding |-> NormalizeSourceIssue(issue),
   repository_evidence |-> SeedEvidence(issue),
   adjudication |-> None, risk |-> None, remediation_plan |-> None, validation |-> None,
   execution |-> None, readiness |-> None, submission |-> None]
=============================================================================
