---------------------------- MODULE TlhFilePatch ----------------------------
(***************************************************************************)
(* MyInterfaces/TlhFilePatch.py, which patches the header that #import     *)
(* generates: it makes the include of the TLI file relative, replaces C    *)
(* structs by the C++ structs that the IDL files quote, inserts the quoted *)
(* functions below their enumerations and adds the quoted includes.        *)
(*                                                                         *)
(* A line is <<kind, name>>, with a path as the name of an include of the  *)
(* source.  A declaration of the source and a quotation of the IDL files   *)
(* is a sequence of lines; the script sees the lines only.  An element of  *)
(* `source' is a sequence of lines too: Python puts a whole struct into    *)
(* one element and blanks others out.  Left out, as text that nothing here *)
(* depends on: the header of the file that remove_header cuts off, and the *)
(* frame that is cut off every cpp_quote.                                  *)
(***************************************************************************)
EXTENDS Integers, Sequences, SequencesExt, FiniteSetsExt

CONSTANTS
  Decls,      \* bound: the sequences of declarations of the generated header
  Quotations, \* bound: the sequences of quotations of the IDL files
  TliFiles,   \* the paths of the TLI file, as sequences of names and "/"
  NameOrder   \* the names of quoted includes in the order of their texts

End == <<"};", "">>
Close == <<"}", "">>
Kind(line) == line[1]
Name(line) == line[2]

VARIABLES
  decls, quotations,  \* the input
  tli_file,           \* path of the TLI file
  source,             \* the list of lines
  functions,          \* records [key, lines] in order of insertion
  step                \* what PatchTlhFile does next

input == <<decls, quotations, tli_file>>
vars == <<input, source, functions, step>>

cpp_content == FlattenSeq(quotations)
AsElements(lines) == [k \in 1 .. Len(lines) |-> <<lines[k]>>]

Init ==
  /\ decls \in Decls /\ quotations \in Quotations /\ tli_file \in TliFiles
  /\ source = AsElements(FlattenSeq(decls))
  /\ functions = <<>>
  /\ step = "MakeTliIncludeRelative"

-----------------------------------------------------------------------------
(* rfind('\\') is -1, thus true, without a separator, and 0, thus false,   *)
(* if the separator comes first: then the path keeps it.                   *)
FileNameMutant(path) == path
FileName(path) ==
  LET idx == SelectLastInSeq(path, LAMBDA e : e = "/") - 1
  IN IF idx # 0 THEN SubSeq(path, idx + 2, Len(path)) ELSE path

MakeTliIncludeRelative ==
  LET name == FileName(tli_file)
      Patched(lines) ==
        IF /\ lines # <<>> /\ Kind(lines[1]) = "#include"
           /\ IsSuffix(<<"/">> \o name, Name(lines[1]))
        THEN << <<"#include", name>> >> ELSE lines
  IN /\ step = "MakeTliIncludeRelative"
     /\ source' = [k \in DOMAIN source |-> Patched(source[k])]
     /\ step' = "ReplaceStructs"
     /\ UNCHANGED <<input, functions>>

-----------------------------------------------------------------------------
(* The first quoted struct of the name that ends anywhere below.           *)
GetCppStruct(name) ==
  LET Ends(i) == {j \in i + 1 .. Len(cpp_content) : cpp_content[j] = End}
      found == {i \in 1 .. Len(cpp_content) :
                  cpp_content[i] = <<"struct", name>> /\ Ends(i) # {}}
  IN IF found = {} THEN <<>>
     ELSE SubSeq(cpp_content, Min(found), Min(Ends(Min(found))))

EndsBelow(lines, i) == {j \in i + 1 .. Len(lines) : lines[j] = <<End>>}

EndOfStructMutant(lines, i) == Max(EndsBelow(lines, i))
EndOfStruct(lines, i) == Min(EndsBelow(lines, i))

(* One round of the loop.  Of the lines that start with "struct", those    *)
(* with a semicolon or a __declspec are passed over.                       *)
ReplaceStruct(lines, i) ==
  LET cpp_struct == GetCppStruct(Name(lines[i][1]))
  IN IF /\ lines[i] # <<>> /\ Kind(lines[i][1]) = "struct"
        /\ EndsBelow(lines, i) # {} /\ cpp_struct # <<>>
     THEN [k \in DOMAIN lines |->
             IF k = i THEN cpp_struct
             ELSE IF k \in i .. EndOfStruct(lines, i) THEN <<>> ELSE lines[k]]
     ELSE lines

ReplaceStructs ==
  /\ step = "ReplaceStructs"
  /\ source' = FoldLeftDomain(ReplaceStruct, source, source)
  /\ step' = "GetCppFunctions"
  /\ UNCHANGED <<input, functions>>

-----------------------------------------------------------------------------
(* A dictionary keeps the place of a key it has.                           *)
Stored(dict, key, lines) ==
  LET k == SelectInSeq(dict, LAMBDA f : f.key = key)
      entry == [key |-> key, lines |-> lines]
  IN IF k = 0 THEN Append(dict, entry) ELSE [dict EXCEPT ![k] = entry]

(* cpp_content[i - 1], which for the first line is the last.               *)
PrevLine(i) == cpp_content[IF i = 1 THEN Len(cpp_content) ELSE i - 1]

KeyMutant(line) == ""
Key(line) == Name(line)

(* One round of the loop; the key outlives the function it was for, and an *)
(* "inline" within a function that has not ended continues it.             *)
ScanLine(st, i) ==
  LET line == cpp_content[i]
      starts == Kind(line) = "inline"
      comment == IF Kind(PrevLine(i)) = "/*" THEN <<PrevLine(i)>> ELSE <<>>
      current == IF starts THEN st.current \o comment \o <<line>>
                 ELSE IF st.current # <<>> THEN Append(st.current, line) ELSE <<>>
      key == IF starts THEN Key(line) ELSE st.key
  IN IF line = Close
     THEN [functions |-> Stored(st.functions, key, current), current |-> <<>>, key |-> key]
     ELSE [functions |-> st.functions, current |-> current, key |-> key]

GetCppFunctions ==
  /\ step = "GetCppFunctions"
  /\ functions' = FoldLeftDomain(ScanLine,
                                 [functions |-> <<>>, current |-> <<>>, key |-> ""],
                                 cpp_content).functions
  /\ step' = "AddFunctionsToSource"
  /\ UNCHANGED <<input, source>>

-----------------------------------------------------------------------------
(* One key of the dictionary: its lines go below the enumeration.          *)
IsEnum(lines, i, key) ==
  lines[i] = << <<"enum", key>> >> /\ EndsBelow(lines, i) # {}

Inserted(lines, f) ==
  LET Insert(l, i) ==
        IF IsEnum(l, i, f.key)
        THEN LET e == Min(EndsBelow(l, i))
             IN SubSeq(l, 1, e) \o AsElements(f.lines) \o SubSeq(l, e + 1, Len(l))
        ELSE l
  IN FoldLeftDomain(Insert, lines, lines)

(* A key without an enumeration raises an exception; insertions change     *)
(* neither the enumerations nor their ends.                                *)
AddFunctionsToSource ==
  /\ step = "AddFunctionsToSource"
  /\ \/ /\ \A k \in DOMAIN functions :
             \E i \in DOMAIN source : IsEnum(source, i, functions[k].key)
        /\ source' = FoldLeft(Inserted, source, functions)
        /\ step' = "ExtractIncludes"
     \/ /\ \E k \in DOMAIN functions :
             \A i \in DOMAIN source : ~IsEnum(source, i, functions[k].key)
        /\ step' = "Raised" /\ UNCHANGED source
  /\ UNCHANGED <<input, functions>>

(* The includes, each once and sorted, go to the top.                      *)
ExtractIncludes ==
  LET includes == {line \in ToSet(cpp_content) : Kind(line) = "#include"}
      Position(line) == SelectInSeq(NameOrder, LAMBDA n : n = Name(line))
  IN /\ step = "ExtractIncludes"
     /\ source' = AsElements(SetToSortSeq(includes,
                               LAMBDA a, b : Position(a) < Position(b))) \o source
     /\ step' = "Done"
     /\ UNCHANGED <<input, functions>>

Terminating == step \in {"Done", "Raised"} /\ UNCHANGED vars

(* PatchTlhFile *)
Next ==
  \/ MakeTliIncludeRelative \/ ReplaceStructs \/ GetCppFunctions
  \/ AddFunctionsToSource \/ ExtractIncludes \/ Terminating

Spec == Init /\ [][Next]_vars

-----------------------------------------------------------------------------
(* Properties, in terms of declarations and quotations.                    *)

IsFunction(q) == Kind(q[1]) = "inline" /\ Last(q) = Close
IsComment(q) == Kind(q[1]) = "/*"

(* Quotations the script is written for: every function has several lines, *)
(* is the only one of its key, nothing else ends with a brace at the start *)
(* of a line, and no comment at the end is above a function at the start.  *)
Regular ==
  /\ \A k \in DOMAIN quotations :
       /\ Kind(quotations[k][1]) = "inline" => IsFunction(quotations[k])
       /\ Last(quotations[k]) = Close => IsFunction(quotations[k])
  /\ \A j, k \in DOMAIN quotations :
       IsFunction(quotations[j]) /\ IsFunction(quotations[k])
         /\ Name(quotations[j][1]) = Name(quotations[k][1]) => j = k
  /\ quotations # <<>> =>
       ~(IsFunction(quotations[1]) /\ IsComment(Last(quotations)))

QuotedStruct(d) ==
  SelectInSeq(quotations, LAMBDA q : Kind(d[1]) = "struct" /\ q[1] = d[1])
QuotedFunction(d) ==
  SelectInSeq(quotations, LAMBDA q :
    IsFunction(q) /\ Kind(d[1]) = "enum" /\ Name(q[1]) = Name(d[1]))

(* What should become of a declaration.                                    *)
Expected(d) ==
  LET s == QuotedStruct(d)
      f == QuotedFunction(d)
  IN IF s # 0 THEN quotations[s]
     ELSE IF f # 0
       THEN d \o (IF f > 1 /\ IsComment(quotations[f - 1])
                  THEN quotations[f - 1] ELSE <<>>) \o quotations[f]
     ELSE IF Kind(d[1]) = "#include"
               /\ IsSuffix(<<"/", Last(tli_file)>>, Name(d[1]))
       THEN << <<"#include", <<Last(tli_file)>> >> >>
     ELSE d

Includes == {q[1] : q \in {r \in ToSet(quotations) : Kind(r[1]) = "#include"}}

(* "Changes applied" (TlhFilePatch.py:3 to 5): for quotations the script is*)
(* written for and a TLI file that is not in the root directory, the       *)
(* patched header is the generated one with each declaration changed as    *)
(* described and nothing else, behind the quoted includes.                 *)
ChangesApplied ==
  step = "Done" /\ Regular /\ tli_file[1] # "/" =>
    LET n == Cardinality(Includes)
        patched == FlattenSeq(source)
    IN /\ ToSet(SubSeq(patched, 1, n)) = Includes
       /\ SubSeq(patched, n + 1, Len(patched))
            = FlattenSeq([k \in DOMAIN decls |-> Expected(decls[k])])

(* Whatever is quoted, no line that was generated is lost or moved, but    *)
(* those of a struct for which one is quoted.                              *)
GeneratedKept ==
  step = "Done" =>
    LET kept == SelectSeq(decls, LAMBDA d : QuotedStruct(d) = 0)
        IsGenerated(line) == Kind(line) \in {"declspec", "generated", "enum"}
    IN SelectSeq(FlattenSeq(source), IsGenerated)
         = SelectSeq(FlattenSeq(kept), IsGenerated)

(* "Unable to find enum": the script gives up only over a function without *)
(* its enumeration, or a closing brace that no function comes before.      *)
RaisesForReason ==
  step = "Raised" =>
    \E k \in DOMAIN quotations :
      \/ /\ Kind(quotations[k][1]) = "inline"
         /\ \A d \in ToSet(decls) : d[1] # <<"enum", Name(quotations[k][1])>>
      \/ /\ Last(quotations[k]) = Close
         /\ \A j \in 1 .. k : Kind(quotations[j][1]) # "inline"
=============================================================================
