------------------------------ MODULE ShellMC ------------------------------
(* The lines of the model-checked sessions: each command that changes something, the *)
(* ways a file can be reached twice, and one line for each group that only answers.  *)
EXTENDS Shell

HomeDir == <<"home">>

\* Words with blanks between them.
Line(words) == FlattenSeq([i \in DOMAIN words |-> IF i = 1 THEN words[i] ELSE <<" ">> \o words[i]])
W(s) == <<s>>
Rc == <<".rc">>
Out == <<">">>
App == <<">", ">">>

Writing == {
  Line(<<W("echo"), W("a"), Out, W("x")>>),
  Line(<<W("echo"), <<"-", "n">>, W("b"), App, W("x")>>),
  Line(<<W("echo"), <<"-", "n">>, W("c"), App, Rc>>),
  Line(<<W("echo"), <<"-", "e">>, <<"\\", "\\", "x", "41">>, W("d"), <<"|">>, W("tee"), <<"-", "a">>, W("y"), Rc>>),
  Line(<<<<"V", "=", "1">>, W("cat"), <<"/", "etc", "/", "shadow">>, Out, W("y")>>),
  Line(<<W("dd"), <<"of", "=", "y">>, <<"count", "=", "9">>>>),
  Line(<<W("wget"), <<"http", "/", "y">>, <<";">>, W("chmod"), W("600"), W("y")>>) }

Moving == {
  Line(<<W("cp"), Rc, W("x")>>),
  Line(<<W("cp"), W("x"), W("y")>>),
  Line(<<W("mv"), Rc, W("x")>>),
  Line(<<W("mv"), W("x"), <<"x", "/", "y">>>>),
  Line(<<W("mv"), <<"/", "home">>, <<"/", "y">>>>),
  Line(<<W("mkdir"), <<"-", "p">>, <<"x", "/", "y">>, <<"&", "&">>, W("mv"), Rc, <<"x", "/", "y">>>>),
  Line(<<W("rm"), <<"-", "r">>, W("x"), <<"|", "|">>, W("touch"), W("x")>>),
  Line(<<W("mkdir"), W("x"), <<";">>, W("cd"), W("x")>>) }

\* Lines chained by a separator.
Chain(lines, sep) ==
  FlattenSeq([i \in DOMAIN lines |-> IF i = 1 THEN lines[i] ELSE <<" ">> \o sep \o <<" ">> \o lines[i]])
Args(name, args) == Line(<<W(name)>> \o args)

\* Everything that only answers, or answers more than it does, once each.
Tours == {
  Chain(<<Args("whoami", << >>), Args("id", <<<<"-", "u", "n">>>>),
    Args("pgrep", <<W("sshd")>>), Args("du", <<W("x")>>), Args("ip", <<W("addr")>>),
    Args("users", << >>), Args("nc", <<<<"-", "l">>>>),
    Args("which", <<W("dash"), W("x")>>), Args("stat", <<W("x")>>), Args("md5sum", <<Rc>>),
    Args("readlink", <<<<"/", "bin", "/", "sh">>>>),
    Args("find", <<<<"/">>, <<"-", "name">>, W("y")>>)>>, <<";">>),
  Chain(<<Args("wc", <<Rc>>), Args("seq", <<W("1")>>), Args("sleep", <<W("9")>>),
    Args("mount", << >>), Args("dmesg", << >>), Args("tty", << >>), Args("service", << >>),
    Args("systemctl", <<W("stop"), W("x")>>), Args("apt", <<W("install"), W("x")>>),
    Args("dpkg", <<<<"-", "l">>>>), Args("make", << >>),
    Args("dirname", <<W("x")>>)>>, <<";">>),
  Chain(<<Args("ssh", <<W("x")>>), Args("sysctl", <<W("kernel.ostype")>>),
    Args("iptables", << >>), Args("kill", << >>), Args("passwd", << >>), Args("ln", << >>),
    Args("chown", <<W("x"), W("y")>>), Args("env", << >>), Args("unset", <<W("V")>>),
    Args("export", <<<<"V", "=", "b">>>>), Args("crontab", <<<<"-", "l">>>>),
    Args("crontab", <<<<"-", "r">>>>)>>, <<";">>),
  Chain(<<Args("curl", <<W("http"), <<"-", "O">>>>), Args("tftp", <<<<"-", "g">>, W("y")>>),
    Args("ftp", << >>), <<"/", "bin", "/", "busybox", " ", "x">>,
    <<"nohup", " ", ".", "/", "x">>, Args("ls", <<<<"-", "l">>, W("x"), Rc>>),
    Args("ps", << >>), Args("timeout", <<W("9"), W("rmdir"), W("y")>>),
    Args("su", <<W("user")>>), Args("pwd", << >>)>>, <<";">>) }

\* A pipe through the filters, into a file.
Filters == Chain(<<
  Args("echo", <<<<"$", "V">>, <<"$", "?">>, W("a")>>), Args("sort", << >>), Args("grep", <<W("a")>>),
  Args("sed", <<<<"s", "/", "zero", "/", "d", "/">>>>), Args("tr", <<W("a"), W("c")>>), Args("tail", << >>),
  Args("uniq", << >>), Args("awk", <<<<"print", "$", "1">>>>), Args("base64", <<Out, W("y")>>)>>, <<"|">>)

Asking == {
  Filters,
  Chain(<<Args("yes", <<W("a")>>), Args("tr", <<<<"-", "d">>, W("b")>>), Args("cut", <<<<"-", "f">>, W("1")>>),
    Args("strings", << >>), Args("cut", <<<<"-", "f">>, W("0")>>)>>, <<"|">>),
  Line(<<W("ls"), <<"|">>, W("xargs"), W("rm")>>),
  Line(<<W("history"), <<"-", "c">>>>),
  Line(<<W("head"), <<"-", "n", "-", "1">>, Rc>>),
  Line(<<W("sudo"), W("reboot"), <<"&">>, W("exit")>>) }

SomeLines == Writing \cup Moving \cup Tours \cup Asking
=============================================================================
