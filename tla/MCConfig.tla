------------------------------- MODULE MCConfig -------------------------------
(***************************************************************************)
(* Config with a choice of lines for each of its branches: numbers in      *)
(* decimal and octal, with a character that ends them, and beyond 16 bits. *)
(***************************************************************************)
EXTENDS Config

MCDigits(value) ==
    CASE value = "21"    -> <<2, 1>>
      [] value = "077"   -> <<0, 7, 7>>
      [] value = "0189"  -> <<0, 1, 8, 9>>
      [] value = "30s"   -> <<3, 0, 10>>
      [] value = "65557" -> <<6, 5, 5, 5, 7>>

Given(key, values) == {[key |-> key, value |-> v] : v \in values}

MCLines ==
    Given("pasv_enable", {"YES", "NO", "OFF"})
      \cup Given("listen_port", {"21", "0189", "65557", ""})
      \cup Given("local_umask", {"077", "30s"})
      \cup Given("listen_address", {"192.168.17.140", "ftp.host", "no.host"})
      \cup Given("#", {"comment"})
=============================================================================
