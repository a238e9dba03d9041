---------------------------- MODULE ParsingErrors ----------------------------
(***************************************************************************)
(* The exceptions of the parser and of plugin loading, and what becomes of *)
(* one on its way out through the containers that are being parsed.        *)
(***************************************************************************)

\* Caught by a clause of their own in parsingLippincott.
ReadingFailures ==
  {"TypeMismatch", "ArraySizeMismatch", "ObjectSizeMismatch", "ObjectMemberMissing"}

\* Derived from ParsingError elsewhere: parsingLippincott does not know them.
LoadingFailures == {"ConfigLoadingFailure", "LibraryLoadingFailure"}

ParsingFailures == ReadingFailures \cup LoadingFailures \cup {"ParsingError"}

\* std::runtime_error and what derives from it.
RuntimeErrors == ParsingFailures \cup {"system_error", "runtime_error"}

Exceptions == RuntimeErrors

NoError == "none"

Outcomes == Exceptions \cup {NoError}

\* Slip: the clause of the base class comes before those of the derived ones.
RewrappedByBase(e) ==
  IF e \in ParsingFailures THEN "ParsingError"
  ELSE IF e \in RuntimeErrors THEN "runtime_error"
  ELSE e

\* parsingLippincott: a new exception of the class whose clause caught the old one.
Rewrapped(e) ==
  IF e \in ReadingFailures THEN e
  ELSE IF e \in ParsingFailures THEN "ParsingError"
  ELSE IF e \in RuntimeErrors THEN "runtime_error"
  ELSE e
==============================================================================
