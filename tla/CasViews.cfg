CONSTANTS
    initial = initial
    a = a
    b = b
    t1 = t1
    t2 = t2
    application = application
    annotator = annotator
    Names <- MCNames
    InitialName = initial
    NoName = NoName
    Texts <- MCTexts
    NoText = NoText
    Annotations = {"ann"}
    Components = {annotator}
    NoComponent = application
    SofaId <- MCSofaId
    MaxSofas = 3
SPECIFICATION Spec
INVARIANTS ViewsKeepToTheirSofas CoveredTextIsOfItsSofa
PROPERTIES KeepsDirectory
SYMMETRY MCSymmetry
CHECK_DEADLOCK FALSE
