------------------------------ MODULE MCDriver ------------------------------
(* Arguments of every kind, those that begin anew among those that add.    *)
EXTENDS Driver

Arg(name) == [name |-> name, values |-> <<>>]
Opt(name, value) == [name |-> name, values |-> <<value>>]

MCArguments ==
    {Arg(name) : name \in {"help", "WX", "-WX", "verbose", "asm", "D", "O0", "O2"}}
    \cup {Opt("source", "a.cpp")}
    \cup {Opt("warnings", mode) : mode \in {"errors", "default", "some"}}
    \cup {Opt("verbose", value) : value \in {"none", "all", "IR", "Time"}}
    \cup {[name |-> "verbose", values |-> <<"Emit", "IR">>]}
    \cup {Opt("out", "a.exe"), Opt("include", "lib")}
    \cup {Opt("image", preset) : preset \in {"windows-x64-coff", "coff64", "linux-x64"}}
    \cup {Opt("isa", "x86_64"), Opt("platform", "Linux"), Opt("sdk", "Unknown"), Opt("cpu", "Haswell")}
    \cup {[name |-> "extensions", values |-> <<"SSE", "NEON", "AVX">>], Opt("extensions", "none")}
    \cup {Opt("O", "TailJmp"), [name |-> "O", values |-> <<"no-", "TailJmp">>]}
    \cup {Opt("Oconst-depth", "16")}

MCWords ==
    UNION {Elements(a.values) : a \in MCArguments}
    \cup {"", "4096", "output.txt", "out", "output.exe", "CAO.dll", "KERNEL32.dll", "USER32.dll"}
=============================================================================
