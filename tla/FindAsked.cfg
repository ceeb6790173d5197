SPECIFICATION Spec
CONSTANT K = 2
INVARIANT RunsWhatIsAsked
