------------------------------ MODULE MCConfig ------------------------------
(* Values for the constants of ConfigImport in its run. *)
EXTENDS ConfigImport

Stream(name) == [cmd |-> "Stream", name |-> name]

\* Parameters on a line, in its order.
Arg(param, value) == [param |-> param, value |-> value]

Delay(kind, args) == [cmd |-> "delay", kind |-> kind, args |-> args]

Iface(cmd, name, newline) == [cmd |-> cmd, iface |-> name, newline |-> newline]

Address(byte) == [i \in 0..(AddrLen - 1) |-> byte]

\* Names that begin with one another; an input interface, a longer one that reaches
\* into the output's buffer and one at the end of a file; static delays that carry,
\* in both orders and with a zero; a full uniform delay and one without an end.
FileLines ==
    {Stream(<< "a" >>), Stream(<< "a", "b" >>),
     [cmd |-> "src_mac", addr |-> Address(1)], [cmd |-> "dst_mac", addr |-> Address(0)],
     Iface("in_iface", << "l" >>, TRUE), Iface("in_iface", << "l" >>, FALSE),
     Iface("in_iface", << "w", "l", "a", "n", "0", "1" >>, TRUE),
     Iface("out_iface", << "t", "x" >>, TRUE),
     [cmd |-> "loss_per", percentage |-> 100], [cmd |-> "loss_per", percentage |-> 61],
     Delay("static", << Arg("sec", 1), Arg("nsec", 9) >>),
     Delay("static", << Arg("nsec", 3), Arg("sec", 2) >>),
     Delay("static", << Arg("sec", 0), Arg("nsec", 5) >>),
     Delay("uniform", << Arg("min", 5), Arg("max", 6) >>),
     Delay("uniform", << Arg("min", 5) >>),
     Delay("pareto", << Arg("shape", 2), Arg("shift", 0) >>),
     [cmd |-> "unknown"]}

\* The whole numbers up to n and binary numbers of a fixed number of digits, with
\* 1024 for one.
Numbers(n, mantissas, exponents) ==
    {i * 1024 : i \in 0..n} \cup {m * 2^e : m \in mantissas, e \in exponents}

\* Ten digits, between 0.5 and 1, and from 32 to 128: 61 percent comes to 62 draws.
TenDigits == Numbers(101, 512..1023, {0, 6, 7})

\* Three digits: of the draws from 0 to 7 the last two give max + 1.
ThreeDigits == Numbers(8, 4..7, 5..10)

=============================================================================
