SPECIFICATION ASpec
CONSTANTS
    AlterShape <- FewShapes
PROPERTY OnlyLastAltered
