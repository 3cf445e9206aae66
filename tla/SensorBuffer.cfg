CONSTANT MaxItems = 3
SPECIFICATION Spec
INVARIANT TypeOK
INVARIANT ListIntact
INVARIANT NoLeak
INVARIANT WalkIsSafe
INVARIANT ReadPrefix
INVARIANT NoLossUnlessOvertaken
INVARIANT CrashExplained
INVARIANT IInv
PROPERTY FlagsOnlyGrow
PROPERTY Fifo
