------------------------------- MODULE MCVfs -------------------------------
\* Archives with a directory for the pipes, without it, with a file in the
\* place of a pipe, with directories listed late or never, with a file that
\* has another one below it, with an entry listed twice, and without any entry.
EXTENDS Vfs

File(e, f, s) == [elements |-> e, flag |-> f, size |-> s]

dev == <<<<"d">>>>
in == <<<<"d">>, <<"i">>>>
conf == <<<<"c">>>>
cfg == <<<<"c">>, <<"g">>>>

ArchiveSet == {
    <<File(dev, "5", <<0>>), File(cfg, "0", <<1, 1>>)>>,
    <<File(cfg, "0", <<1, 0>>), File(conf, "0", <<1>>), File(cfg, "2", <<0>>)>>,
    <<File(in, "0", <<7>>), File(dev, "5", <<0>>)>>,
    <<File(dev, "0", <<1>>)>>,
    <<>>}

Mounts == <<<<"/", "d", "/", "i">>, <<"/", "d", "/", "o">>>>
=============================================================================
