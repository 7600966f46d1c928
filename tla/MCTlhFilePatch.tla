--------------------------- MODULE MCTlhFilePatch ---------------------------
(* Small headers and IDL files for TlhFilePatch: nothing comes twice.      *)
EXTENDS TlhFilePatch

CONSTANTS MaxDecls, MaxQuotations   \* how many there are of each

Distinct(S, n) == {s \in BoundedSeq(S, n) : IsInjective(s)}

MCDecls == Distinct(
  { << <<"struct", "Message">>, <<"generated", "body">>, End >>,
    << <<"struct", "Other">>, <<"generated", "body">>, End >>,
    << <<"forward", "Message">> >>,
    << <<"declspec", "IMyServer">>, <<"generated", "body">>, End >>,
    << <<"enum", "Severity">>, <<"generated", "values">>, End >>,
    << <<"enum", "Unit">>, <<"generated", "values">>, End >>,
    << <<"#include", <<"dir", "/", "file.tli">> >> >> }, MaxDecls)

MCQuotations == Distinct(
  { << <<"struct", "Message">>, <<"quoted", "body">>, End >>,
    << <<"inline", "Severity">>, <<"quoted", "body">>, Close >>,
    << <<"inline", "Severity">>, <<"quoted", "overload">>, Close >>,
    << <<"inline", "Severity">> >>,
    << <<"/*", "comment">> >>,
    << <<"quoted", "namespace">>, Close >>,
    << <<"#include", "atlbase.h">> >>,
    << <<"#include", "atlsafe.h">> >> }, MaxQuotations)

Paths == { <<"dir", "/", "file.tli">>, <<"/", "file.tli">>, <<"file.tli">> }
Headers == <<"atlbase.h", "atlsafe.h">>
=============================================================================
