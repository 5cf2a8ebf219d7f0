SPECIFICATION RetrievalSpec
CONSTANTS
    Corpora <- MCCorpora
    Questions <- MCQuestions
    Languages = {"en", "da"}
    Clocks = {1, 2}
    ChannelLimit = 3
    Limit = 3
    K = 60
    Scale = 238266
INVARIANTS
    ResultsSupported
    IntentsAnswered
    NamedExamsFirst
